----------------------------- MODULE MCArtistCLI -----------------------------
(***************************************************************************)
(* Small instances of ArtistCLI.  Keys are interchangeable: nothing        *)
(* compares two of them other than for equality.                           *)
(***************************************************************************)
EXTENDS ArtistCLI

\* Every URL has a key file of its own; or they all share one, as
\* https://x/a/b and https://x/a_b do.
OwnSlug    == [u \in Urls |-> u]
SharedSlug == [u \in Urls |-> "shared"]

\* Two albums of the same content share its track ids; the content "none" has no tracks.
OwnTracks == [c \in Contents |-> IF c = "none" THEN {} ELSE {c}]

\* The label "odd" has splits that do not add up.
OddSplits == [c \in FieldChecks |-> IF c = "splits" THEN {"odd"} ELSE {}]

KeySymmetry == Permutations(Keys)
=============================================================================
