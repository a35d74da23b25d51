------------------------------ MODULE MCCrawler ------------------------------
(***************************************************************************)
(* Small instances of Crawler: two hosts, one of which may also be named   *)
(* with a trailing slash.                                                  *)
(***************************************************************************)
EXTENDS Crawler

TrimSlash == [u \in Urls |-> IF u = "a/" THEN "a" ELSE u]

OneOwner  == [h \in Hosts |-> "x"]
TwoOwners == [h \in Hosts |-> IF h = "a" THEN "x" ELSE "y"]

OwnClaims   == [h \in Hosts |-> {h}]
FalseClaims == [h \in Hosts |-> IF h = "a" THEN Urls ELSE {h}]

ShortTTL == [h \in Hosts |-> 1]
=============================================================================
