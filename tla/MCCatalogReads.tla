--------------------------- MODULE MCCatalogReads ---------------------------
(***************************************************************************)
(* Small instances of CatalogReads: the artist x, who publishes an album   *)
(* in several revisions, and y, a contributor to it and x's label.         *)
(***************************************************************************)
EXTENDS CatalogReads

Split(party, role, pct) == [party |-> party, role |-> role, pct |-> pct]

Album(version, tracks, links, splits) ==
  [id |-> "a", version |-> version, tracks |-> tracks, links |-> links, splits |-> splits]

Manifest(label, split, roster, said, catalog) ==
  [label |-> label, split |-> split, roster |-> roster, contributions |-> said, catalog |-> catalog]

Said(version, role, pct) ==
  [party |-> "x", album |-> "a", version |-> version, role |-> role, pct |-> pct]

ByX(label, split, catalog) == Manifest(label, split, <<>>, <<>>, catalog)
ByY(roster, said) == Manifest(None, None, roster, said, <<>>)

First  == Album(1, <<"t">>, <<"shop">>, <<Split("x", "primary", 70), Split("y", "mix", 30)>>)
Second == Album(2, <<"t", "u">>, <<"shop">>, <<Split("y", "mix", 30), Split("x", "primary", 70)>>)
Other  == [Album(1, <<"v">>, <<"shop">>, <<>>) EXCEPT !.id = "b"]

Lists(artist, split) == [artist |-> artist, split |-> split]

\* x adds, revises and removes an album while it joins, leaves and renegotiates with
\* y; y lists x on these terms or on others, and itself, and confirms its split of
\* one revision and claims a second role in it, or disputes it, or says nothing.  The last
\* two manifests of x fail validation.
Revisions == [u \in {"x", "y"} |->
  IF u = "x" THEN {ByX("y", 85, <<First>>), ByX(None, None, <<Other, Second>>), ByX("y", 70, <<First>>),
                   ByX("y", 85, <<First, Second>>), ByX("y", 85, <<[First EXCEPT !.splits = Tail(@)]>>)}
  ELSE {ByY(<<Lists("x", 85)>>, <<>>), ByY(<<Lists("x", 85)>>, <<Said(1, "mix", 30), Said(1, "master", 20)>>),
        ByY(<<Lists("y", 70), Lists("x", 70)>>, <<Said(2, "mix", 20)>>)}]

ThreeEach == [u \in Urls |-> 3]
TwoEach   == [u \in Urls |-> 2]
=============================================================================
