----------------------------- MODULE Migrations -----------------------------
(***************************************************************************)
(* The start of the catalog server: db.Open and its migrate                *)
(* (api/internal/db/db.go), run by several servers against one database,   *)
(* each with the migrations its binary was built with.                     *)
(*                                                                         *)
(* The database is what Postgres promises: a transaction takes effect as a *)
(* whole when it commits, and an INSERT of a key that another transaction  *)
(* has inserted waits for that one to end, then fails if it committed.     *)
(* What the SQL of a migration does is left open, except that it is        *)
(* visible with the commit.                                                *)
(***************************************************************************)
EXTENDS Integers, Sequences, FiniteSets, SequencesExt

CONSTANTS
  Servers,
  Builds,    \* the sets of versions that a binary may be built with
  MaxFails   \* bound: failed statements and crashes

ASSUME MigrationsAssumption ==
  /\ \A b \in Builds : b \subseteq Nat \ {0} /\ IsFiniteSet(b)
  /\ MaxFails \in Nat

VARIABLES
  schema,    \* the migrations whose SQL has taken effect, in that order
  recorded,  \* the rows of schema_migrations
  build,     \* build[s]: the versions that the running binary of s was built with
  applied,   \* applied[s]: what s has read from schema_migrations
  todo,      \* todo[s]: the migrations that s has yet to look at, ascending
  pc,        \* pc[s]: the next statement of s
  fails

vars == <<schema, recorded, build, applied, todo, pc, fails>>

Init ==
  /\ schema = <<>>
  /\ recorded = {}
  /\ build = [s \in Servers |-> {}]
  /\ applied = [s \in Servers |-> {}]
  /\ todo = [s \in Servers |-> <<>>]
  /\ pc = [s \in Servers |-> "down"]
  /\ fails = 0

\* Mutant: in the order of the file names, which is another one without leading zeros.
loadMigrationsByName(b) == SetToSortSeq(b, >)

Ascending(q) == \A i, j \in DOMAIN q : i < j => q[i] < q[j]

\* loadMigrations: the versions of a build, in ascending order.
loadMigrations(b) == CHOOSE q \in [1 .. Cardinality(b) -> b] : Ascending(q)

\* A binary is started; it creates the tracking table unless it exists.
Start(s) ==
  /\ pc[s] = "down"
  /\ \E b \in Builds :
       /\ build' = [build EXCEPT ![s] = b]
       /\ todo' = [todo EXCEPT ![s] = loadMigrations(b)]
  /\ pc' = [pc EXCEPT ![s] = "query"]
  /\ UNCHANGED <<schema, recorded, applied, fails>>

QueryApplied(s) ==
  /\ pc[s] = "query"
  /\ applied' = [applied EXCEPT ![s] = recorded]
  /\ pc' = [pc EXCEPT ![s] = "next"]
  /\ UNCHANGED <<schema, recorded, build, todo, fails>>

\* The version at hand.
Version(s) == Head(todo[s])

\* Mutant: only what is newer than the newest recorded migration is applied.
SkipOlder(s) ==
  /\ pc[s] = "next" /\ todo[s] # <<>> /\ \E v \in applied[s] : Version(s) <= v
  /\ todo' = [todo EXCEPT ![s] = Tail(@)]
  /\ UNCHANGED <<schema, recorded, build, applied, pc, fails>>

Skip(s) ==
  /\ pc[s] = "next" /\ todo[s] # <<>> /\ Version(s) \in applied[s]
  /\ todo' = [todo EXCEPT ![s] = Tail(@)]
  /\ UNCHANGED <<schema, recorded, build, applied, pc, fails>>

\* Begin, and the SQL of the migration.
Apply(s) ==
  /\ pc[s] = "next" /\ todo[s] # <<>> /\ Version(s) \notin applied[s]
  /\ pc' = [pc EXCEPT ![s] = "record"]
  /\ UNCHANGED <<schema, recorded, build, applied, todo, fails>>

\* Mutant: a migration's transaction waits for every other one that is open.
WaitsForAll(s) == \E t \in Servers \ {s} : pc[t] \in {"record", "commit"}

\* The INSERT into schema_migrations; it waits while another one of this version is open.
Waits(s) == \E t \in Servers \ {s} : pc[t] = "commit" /\ Version(t) = Version(s)

\* Mutant: ON CONFLICT DO NOTHING.
RecordAnyway(s) ==
  /\ pc[s] = "record" /\ ~Waits(s)
  /\ pc' = [pc EXCEPT ![s] = "commit"]
  /\ UNCHANGED <<schema, recorded, build, applied, todo, fails>>

Record(s) ==
  /\ pc[s] = "record" /\ ~Waits(s) /\ Version(s) \notin recorded
  /\ pc' = [pc EXCEPT ![s] = "commit"]
  /\ UNCHANGED <<schema, recorded, build, applied, todo, fails>>

\* The process ends; an open transaction is rolled back.
Ends(s) ==
  /\ pc' = [pc EXCEPT ![s] = "down"]
  /\ build' = [build EXCEPT ![s] = {}]
  /\ applied' = [applied EXCEPT ![s] = {}]
  /\ todo' = [todo EXCEPT ![s] = <<>>]
  /\ UNCHANGED <<schema, recorded>>

\* The other one has committed: the key is taken, and Open fails.
RecordFails(s) ==
  /\ pc[s] = "record" /\ ~Waits(s) /\ Version(s) \in recorded
  /\ Ends(s)
  /\ UNCHANGED fails

Commit(s) ==
  /\ pc[s] = "commit"
  /\ schema' = Append(schema, Version(s))
  /\ recorded' = recorded \cup {Version(s)}
  /\ todo' = [todo EXCEPT ![s] = Tail(@)]
  /\ pc' = [pc EXCEPT ![s] = "next"]
  /\ UNCHANGED <<build, applied, fails>>

Serve(s) ==
  /\ pc[s] = "next" /\ todo[s] = <<>>
  /\ pc' = [pc EXCEPT ![s] = "serving"]
  /\ UNCHANGED <<schema, recorded, build, applied, todo, fails>>

\* A statement fails or the process dies.
Stop(s) ==
  /\ pc[s] # "down" /\ fails < MaxFails
  /\ fails' = fails + 1
  /\ Ends(s)

migrate(s) == QueryApplied(s) \/ Skip(s) \/ Apply(s) \/ Record(s) \/ Commit(s)

-----------------------------------------------------------------------------
\* Properties.

TypeOK ==
  /\ schema \in Seq(UNION Builds)
  /\ recorded \subseteq UNION Builds
  /\ build \in [Servers -> Builds \cup {{}}]
  /\ applied \in [Servers -> SUBSET recorded]
  /\ todo \in [Servers -> Seq(UNION Builds)]
  /\ \A s \in Servers : Ascending(todo[s])
  /\ pc \in [Servers -> {"down", "query", "next", "record", "commit", "serving"}]
  /\ fails \in 0 .. MaxFails

\* No migration takes effect twice, and those that have are the recorded ones,
\* however many servers start together and wherever they stop.
\* (0001_init.sql:7: applied exactly once and tracked in schema_migrations)
AppliedExactlyOnce ==
  /\ IsInjective(schema)
  /\ ToSet(schema) = recorded
=============================================================================
