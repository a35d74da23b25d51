------------------------------ MODULE MCPublish ------------------------------
(***************************************************************************)
(* A small instance of Publish: two pages whose titles, without a Latin    *)
(* letter, turn into the same id, one of them with a track that has no     *)
(* stream, and an album that the artist wrote by hand.                     *)
(***************************************************************************)
EXTENDS Publish

Titles == "titel" :> "titel" @@ "one" :> "" @@ "two" :> ""

Own == [title |-> "titel", art |-> TRUE, tracks |-> <<>>]
One == [title |-> "one", art |-> TRUE, tracks |-> <<[name |-> "t1", stream |-> TRUE]>>]
Two == [title |-> "two", art |-> TRUE, tracks |-> <<[name |-> "t1", stream |-> FALSE]>>]

TwoPages == {One, Two}

\* A source with an album and without identity.url.
OneSource == {[hasURL |-> FALSE, catalog |-> "titel" :> Own]}

\* The frame has two bytes more than columns, and the title one more.
Widths  == "fetching" :> 5 @@ "fetched" :> 1 @@ "downloading" :> 4
Lengths == "fetching" :> 7 @@ "fetched" :> 4 @@ "downloading" :> 6

\* A track of more than 200 MB.
LongTrack == {<<One, <<"album", "t1">>>>}
=============================================================================
