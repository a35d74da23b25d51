------------------------------ MODULE SignedLog ------------------------------
(***************************************************************************)
(* What the artist's tool promises the rest of the network: one log, owned *)
(* by one key at a time.  It grows at the end only, each entry is chained  *)
(* to the one before and signed by the owner, and the owner changes only   *)
(* by an entry that the owner itself signs.                                *)
(***************************************************************************)
EXTENDS Protocol

CONSTANT NoOwner

VARIABLES log, owner

vars == <<log, owner>>

Init == log = <<>> /\ owner = NoOwner

\* The payloads that a step adds to the log.
Added == [j \in 1 .. Len(log') - Len(log) |-> log'[Len(log) + j].data]

\* The owner k records changes of its source; the first owner is whoever comes.
Record(k) ==
  /\ owner \in {NoOwner, k}
  /\ owner' = k
  /\ Added \in Seq(SourceChanges)
  /\ log' = Chain(log, Added, k)

\* The owner hands the log over to the key k.
HandOver(k) ==
  /\ owner \in Keys
  /\ k # owner
  /\ owner' = k
  /\ log' = Chain(log, <<[type |-> "key_rotated", old |-> owner, new |-> k]>>, owner)

Next == \E k \in Keys : Record(k) \/ HandOver(k)

Spec == Init /\ [][Next]_vars
=============================================================================
