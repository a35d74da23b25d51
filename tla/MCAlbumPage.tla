---------------------------- MODULE MCAlbumPage ----------------------------
(***************************************************************************)
(* A small instance of AlbumPage: two albums that share a track number;    *)
(* the second may come back without tracks, as CatalogReads shows.         *)
(***************************************************************************)
EXTENDS AlbumPage

TwoAlbums == [r \in Routes |-> IF r = "a" THEN {<<"1", "2">>} ELSE {<<"2", "3", "4">>, <<>>}]
=============================================================================
