-------------------------- MODULE ServerLifeProofs --------------------------
(***************************************************************************)
(* Theorems about ServerLife, for any number of servers, any builds, any   *)
(* crashes and failures and any number of workers' steps.                  *)
(***************************************************************************)
EXTENDS ServerLife, FiniteSetTheorems, WellFoundedInduction, TLAPS

Versions == UNION Builds

\* The types that the proofs need; the order of todo is not among them.
LifeTypes ==
  /\ schema \in Seq(Versions)
  /\ recorded \subseteq Versions
  /\ build \in [Servers -> SUBSET Versions]
  /\ applied \in [Servers -> SUBSET Versions]
  /\ todo \in [Servers -> Seq(Versions)]
  /\ pc \in [Servers -> {"down", "query", "next", "record", "commit", "serving"}]
  /\ server \in [Servers -> {"off", "open", "closing"}]
  /\ worker \in [Servers -> [Workers -> {"none", "busy", "statement"}]]

\* A server has a migration at hand while its transaction is open.
AtHand(s) == pc[s] \in {"record", "commit"} => todo[s] # <<>>

\* Whoever is about to commit holds the key of its version: nobody has recorded it,
\* and nobody else is about to.
HoldsKey(s) ==
  pc[s] = "commit" => /\ Version(s) \notin recorded
                      /\ \A t \in Servers \ {s} : pc[t] = "commit" => Version(t) # Version(s)

\* What a server's build needs is recorded or still ahead of it.
Covered(s) ==
  /\ applied[s] \subseteq recorded
  /\ pc[s] \in {"next", "record", "commit"} => build[s] \subseteq recorded \cup ToSet(todo[s])
  /\ pc[s] = "query" => build[s] = ToSet(todo[s])
  /\ pc[s] = "serving" => build[s] \subseteq recorded

\* Only a server whose Open has returned listens, polls and answers.
OpenFirst(s) == server[s] # "off" \/ worker[s] # Nobody => pc[s] = "serving"

LifeInv ==
  /\ LifeTypes
  /\ AppliedExactlyOnce
  /\ \A s \in Servers : AtHand(s) /\ HoldsKey(s) /\ Covered(s) /\ OpenFirst(s)

-----------------------------------------------------------------------------
\* Sequences as sets.

LEMMA AppendedSet ==
  ASSUME NEW S, NEW q \in Seq(S), NEW v \in S
  PROVE  /\ Append(q, v) \in Seq(S)
         /\ ToSet(Append(q, v)) = ToSet(q) \cup {v}
         /\ IsInjective(q) /\ v \notin ToSet(q) => IsInjective(Append(q, v))
<1>1. /\ Len(Append(q, v)) = Len(q) + 1 /\ Append(q, v)[Len(q) + 1] = v
      /\ \A i \in 1 .. Len(q) : Append(q, v)[i] = q[i]
      /\ DOMAIN q = 1 .. Len(q) /\ DOMAIN Append(q, v) = 1 .. (Len(q) + 1)
      /\ Len(q) \in Nat
  OBVIOUS
<1>2. DOMAIN Append(q, v) = DOMAIN q \cup {Len(q) + 1}
  BY <1>1
<1>3. ToSet(Append(q, v)) = ToSet(q) \cup {v}
  BY <1>1, <1>2 DEF ToSet
<1>4. ASSUME IsInjective(q), v \notin ToSet(q) PROVE IsInjective(Append(q, v))
  BY <1>1, <1>2, <1>4 DEF IsInjective, ToSet
<1>5. QED  BY <1>3, <1>4

LEMMA TailSet ==
  ASSUME NEW S, NEW q \in Seq(S), q # <<>>
  PROVE  /\ Head(q) \in S /\ Tail(q) \in Seq(S)
         /\ ToSet(q) = {Head(q)} \cup ToSet(Tail(q))
<1>1. /\ Head(q) = q[1] /\ Head(q) \in S /\ Tail(q) \in Seq(S)
      /\ Len(q) \in Nat \ {0} /\ Len(Tail(q)) = Len(q) - 1
      /\ DOMAIN q = 1 .. Len(q) /\ DOMAIN Tail(q) = 1 .. (Len(q) - 1)
      /\ \A i \in 1 .. (Len(q) - 1) : Tail(q)[i] = q[i + 1]
  OBVIOUS
<1>2. ToSet(q) \subseteq {Head(q)} \cup ToSet(Tail(q))
  <2> SUFFICES ASSUME NEW i \in DOMAIN q PROVE q[i] \in {Head(q)} \cup ToSet(Tail(q))
    BY DEF ToSet
  <2>1. CASE i = 1
    BY <1>1, <2>1
  <2>2. CASE i # 1
    <3>1. i - 1 \in DOMAIN Tail(q) /\ Tail(q)[i - 1] = q[i]
      BY <1>1, <2>2
    <3>2. QED  BY <3>1 DEF ToSet
  <2>3. QED  BY <2>1, <2>2
<1>3. {Head(q)} \cup ToSet(Tail(q)) \subseteq ToSet(q)
  BY <1>1 DEF ToSet
<1>4. QED  BY <1>1, <1>2, <1>3

-----------------------------------------------------------------------------
\* The sort of loadMigrations: every finite set of numbers has its ascending sequence.

LEMMA LeastNumber ==
  ASSUME NEW T, T \subseteq Nat, T # {}
  PROVE  \E m \in T : \A i \in T : m <= i
<1> DEFINE R == OpToRel(<, Nat)
<1>1. IsWellFoundedOn(R, Nat)
  BY NatLessThanWellFounded
<1>2. \A i, j \in Nat : i < j => <<i, j>> \in R
  BY DEF OpToRel
<1> HIDE DEF R
<1>3. PICK m \in T : \A i \in T : ~(<<i, m>> \in R)
  BY <1>1, WFMin
<1>4. ASSUME NEW i \in T PROVE m <= i
  <2>1. ~(i < m)
    BY <1>2, <1>3
  <2>2. i \in Nat /\ m \in Nat
    OBVIOUS
  <2>3. QED  BY <2>1, <2>2
<1>5. QED  BY <1>4

Sorted(b) == \E q \in [1 .. Cardinality(b) -> b] : Ascending(q)

\* The least element, before the sequence of the others.
LEMMA SortedWithLeast ==
  ASSUME NEW b, b \subseteq Nat, IsFiniteSet(b),
         NEW m \in b, \A i \in b : m <= i, Sorted(b \ {m})
  PROVE  Sorted(b)
<1> DEFINE n == Cardinality(b)
<1>1. n \in Nat \ {0} /\ Cardinality(b \ {m}) = n - 1
  BY FS_CardinalityType, FS_RemoveElement, FS_EmptySet
<1>2. PICK q \in [1 .. n - 1 -> b \ {m}] : Ascending(q)
  BY <1>1 DEF Sorted
<1> DEFINE r == [i \in 1 .. n |-> IF i = 1 THEN m ELSE q[i - 1]]
<1>3. \A i \in 1 .. n : i # 1 => i - 1 \in 1 .. n - 1
  BY <1>1
<1>4. r \in [1 .. n -> b]
  BY <1>2, <1>3
<1>5. ASSUME NEW i \in 1 .. n, NEW j \in 1 .. n, i < j PROVE r[i] < r[j]
  <2>1. j # 1 /\ j - 1 \in 1 .. n - 1 /\ r[j] = q[j - 1]
    BY <1>1, <1>3, <1>5
  <2>2. CASE i = 1
    <3>1. r[i] = m /\ q[j - 1] \in b \ {m}
      BY <1>2, <2>1, <2>2
    <3>2. m <= q[j - 1] /\ m # q[j - 1] /\ m \in Nat /\ q[j - 1] \in Nat
      BY <3>1
    <3>3. m < q[j - 1]
      BY <3>2
    <3>4. QED  BY <2>1, <3>1, <3>3
  <2>3. CASE i # 1
    <3>1. i - 1 \in 1 .. n - 1 /\ r[i] = q[i - 1] /\ i - 1 < j - 1
      BY <1>1, <1>3, <1>5, <2>3
    <3>2. QED  BY <1>2, <2>1, <3>1 DEF Ascending
  <2>4. QED  BY <2>2, <2>3
<1>6. Ascending(r)
  BY <1>5 DEF Ascending
<1>7. QED  BY <1>4, <1>6 DEF Sorted

LEMMA AllSorted ==
  ASSUME NEW b, b \subseteq Nat, IsFiniteSet(b)
  PROVE  Sorted(b)
<1> DEFINE Bad(c) == c \subseteq Nat /\ IsFiniteSet(c) /\ ~Sorted(c)
           T == {n \in Nat : \E c \in SUBSET Nat : Bad(c) /\ Cardinality(c) = n}
<1> SUFFICES ASSUME Bad(b) PROVE FALSE
  OBVIOUS
<1>1. Cardinality(b) \in T
  BY FS_CardinalityType
<1>2. PICK n \in T : \A i \in T : n <= i
  BY <1>1, LeastNumber
<1>3. PICK c \in SUBSET Nat : Bad(c) /\ Cardinality(c) = n
  BY <1>2
<1>4. c # {}
  <2> SUFFICES ASSUME c = {} PROVE FALSE
    OBVIOUS
  <2>1. Cardinality(c) = 0
    BY FS_EmptySet
  <2> DEFINE e == [i \in 1 .. 0 |-> 0]
  <2>2. e \in [1 .. 0 -> c] /\ Ascending(e)
    BY DEF Ascending
  <2>3. Sorted(c)
    BY <2>1, <2>2 DEF Sorted
  <2>4. QED  BY <1>3, <2>3
<1>5. PICK m \in c : \A i \in c : m <= i
  BY <1>4, LeastNumber
<1>6. IsFiniteSet(c \ {m}) /\ Cardinality(c \ {m}) = n - 1 /\ n - 1 \in Nat
  BY <1>3, <1>4, <1>5, FS_RemoveElement, FS_CardinalityType, FS_EmptySet
<1>7. n - 1 \notin T
  BY <1>2, <1>6
<1>8. Sorted(c \ {m})
  BY <1>3, <1>6, <1>7
<1>9. QED  BY <1>3, <1>5, <1>8, SortedWithLeast

\* Nothing is lost or added by the sort.
LEMMA LoadSorts ==
  ASSUME NEW b, b \subseteq Nat, IsFiniteSet(b)
  PROVE  /\ loadMigrations(b) \in Seq(b)
         /\ ToSet(loadMigrations(b)) = b
         /\ Ascending(loadMigrations(b))
<1> DEFINE n == Cardinality(b)  q == loadMigrations(b)
<1>1. n \in Nat
  BY FS_CardinalityType
<1>2. q \in [1 .. n -> b] /\ Ascending(q)
  BY AllSorted DEF Sorted, loadMigrations
<1> HIDE DEF q
<1>3. \A i, j \in 1 .. n : q[i] = q[j] => i = j
  <2> SUFFICES ASSUME NEW i \in 1 .. n, NEW j \in 1 .. n, i # j PROVE q[i] # q[j]
    OBVIOUS
  <2>1. q[i] \in Nat /\ q[j] \in Nat
    BY <1>2
  <2>2. q[i] < q[j] \/ q[j] < q[i]
    BY <1>1, <1>2 DEF Ascending
  <2>3. QED  BY <2>1, <2>2
<1>4. q \in Injection(1 .. n, b)
  BY <1>2, <1>3 DEF Injection, IsInjective
<1>5. Cardinality(1 .. n) = n
  BY <1>1, FS_Interval
<1>6. q \in Surjection(1 .. n, b)
  BY <1>4, <1>5, FS_Injection
<1>7. ToSet(q) = b
  BY <1>2, <1>6 DEF Surjection, ToSet
<1>8. q \in Seq(b)
  BY <1>1, <1>2
<1>9. QED  BY <1>2, <1>7, <1>8 DEF q

-----------------------------------------------------------------------------
\* A step of one server that commits nothing disturbs no other.

LEMMA OneServer ==
  ASSUME LifeInv, NEW s \in Servers,
         LifeTypes', UNCHANGED <<schema, recorded>>,
         \A t \in Servers \ {s} :
           /\ pc'[t] = pc[t] /\ todo'[t] = todo[t] /\ build'[t] = build[t]
           /\ applied'[t] = applied[t] /\ server'[t] = server[t] /\ worker'[t] = worker[t],
         AtHand(s)', HoldsKey(s)', Covered(s)', OpenFirst(s)'
  PROVE  LifeInv'
<1>1. AppliedExactlyOnce'
  BY DEF LifeInv, AppliedExactlyOnce
<1>2. \A t \in Servers \ {s} : AtHand(t)' /\ Covered(t)' /\ OpenFirst(t)'
  BY DEF LifeInv, AtHand, Covered, OpenFirst
<1>3. \A t \in Servers \ {s} : HoldsKey(t)'
  BY DEF LifeInv, HoldsKey, Version
<1>4. QED  BY <1>1, <1>2, <1>3 DEF LifeInv

LEMMA StartStep ==
  ASSUME LifeInv, NEW s \in Servers, StartServer(s)
  PROVE  LifeInv'
<1>1. PICK b \in Builds :
        /\ pc[s] = "down"
        /\ build' = [build EXCEPT ![s] = b]
        /\ todo' = [todo EXCEPT ![s] = loadMigrations(b)]
        /\ pc' = [pc EXCEPT ![s] = "query"]
        /\ UNCHANGED <<schema, recorded, applied, signalled, server, worker>>
  BY DEF StartServer, Start, lifeVars
<1>2. b \subseteq Versions /\ loadMigrations(b) \in Seq(Versions) /\ ToSet(loadMigrations(b)) = b
  <2>1. b \subseteq Versions /\ loadMigrations(b) \in Seq(b) /\ ToSet(loadMigrations(b)) = b
    BY MigrationsAssumption, LoadSorts DEF Versions
  <2>2. QED  BY <2>1
<1>3. LifeTypes'
  BY <1>1, <1>2 DEF LifeInv, LifeTypes
<1>4. AtHand(s)' /\ HoldsKey(s)' /\ Covered(s)' /\ OpenFirst(s)'
  BY <1>1, <1>2 DEF LifeInv, LifeTypes, AtHand, HoldsKey, Covered, OpenFirst
<1>5. QED  BY <1>1, <1>3, <1>4, OneServer DEF LifeInv, LifeTypes

LEMMA MigrateStep ==
  ASSUME LifeInv, NEW s \in Servers, Migrating(s)
  PROVE  LifeInv'
<1> USE DEF LifeInv
<1>0. UNCHANGED <<signalled, server, worker>> /\ OpenFirst(s)
  BY DEF Migrating, lifeVars
<1>1. CASE QueryApplied(s)
  <2>1. /\ pc[s] = "query" /\ pc' = [pc EXCEPT ![s] = "next"]
        /\ applied' = [applied EXCEPT ![s] = recorded]
        /\ UNCHANGED <<schema, recorded, build, todo>>
    BY <1>1 DEF QueryApplied
  <2>2. LifeTypes'
    BY <1>0, <2>1 DEF LifeTypes
  <2>3. AtHand(s)' /\ HoldsKey(s)' /\ Covered(s)' /\ OpenFirst(s)'
    BY <1>0, <2>1 DEF LifeTypes, AtHand, HoldsKey, Covered, OpenFirst
  <2>4. QED  BY <1>0, <2>1, <2>2, <2>3, OneServer DEF LifeTypes
<1>2. CASE Skip(s)
  <2>1. /\ pc[s] = "next" /\ todo[s] # <<>> /\ Head(todo[s]) \in applied[s]
        /\ todo' = [todo EXCEPT ![s] = Tail(todo[s])]
        /\ UNCHANGED <<schema, recorded, build, applied, pc>>
    BY <1>2 DEF Skip, Version
  <2>2. Tail(todo[s]) \in Seq(Versions) /\ ToSet(todo[s]) = {Head(todo[s])} \cup ToSet(Tail(todo[s]))
    BY <2>1, TailSet DEF LifeTypes
  <2>3. LifeTypes'
    BY <1>0, <2>1, <2>2 DEF LifeTypes
  <2>4. AtHand(s)' /\ HoldsKey(s)' /\ OpenFirst(s)'
    BY <1>0, <2>1 DEF AtHand, HoldsKey, OpenFirst
  <2>5. Covered(s)'
    BY <2>1, <2>2 DEF LifeTypes, Covered
  <2>6. QED  BY <1>0, <2>1, <2>3, <2>4, <2>5, OneServer DEF LifeTypes
<1>3. CASE Apply(s)
  <2>1. /\ pc[s] = "next" /\ todo[s] # <<>> /\ pc' = [pc EXCEPT ![s] = "record"]
        /\ UNCHANGED <<schema, recorded, build, applied, todo>>
    BY <1>3 DEF Apply
  <2>2. LifeTypes'
    BY <1>0, <2>1 DEF LifeTypes
  <2>3. AtHand(s)' /\ HoldsKey(s)' /\ Covered(s)' /\ OpenFirst(s)'
    BY <1>0, <2>1 DEF LifeTypes, AtHand, HoldsKey, Covered, OpenFirst
  <2>4. QED  BY <1>0, <2>1, <2>2, <2>3, OneServer DEF LifeTypes
<1>4. CASE Record(s)
  <2>1. /\ pc[s] = "record" /\ pc' = [pc EXCEPT ![s] = "commit"]
        /\ Version(s) \notin recorded
        /\ \A t \in Servers \ {s} : pc[t] = "commit" => Version(t) # Version(s)
        /\ UNCHANGED <<schema, recorded, build, applied, todo>>
    BY <1>4 DEF Record, Waits
  <2>2. LifeTypes'
    BY <1>0, <2>1 DEF LifeTypes
  <2>3. AtHand(s)' /\ Covered(s)' /\ OpenFirst(s)'
    BY <1>0, <2>1 DEF LifeTypes, AtHand, Covered, OpenFirst
  <2>4. HoldsKey(s)'
    BY <2>1 DEF LifeTypes, HoldsKey, Version
  <2>5. QED  BY <1>0, <2>1, <2>2, <2>3, <2>4, OneServer DEF LifeTypes
<1>5. CASE Commit(s)
  <2> DEFINE v == Version(s)
  <2>1. /\ pc[s] = "commit" /\ pc' = [pc EXCEPT ![s] = "next"]
        /\ schema' = Append(schema, v) /\ recorded' = recorded \cup {v}
        /\ todo' = [todo EXCEPT ![s] = Tail(todo[s])]
        /\ UNCHANGED <<build, applied>>
    BY <1>5 DEF Commit
  <2>2. todo[s] # <<>> /\ v \notin recorded
        /\ \A t \in Servers \ {s} : pc[t] = "commit" => Version(t) # v
    BY <2>1 DEF AtHand, HoldsKey
  <2>3. /\ v \in Versions /\ Tail(todo[s]) \in Seq(Versions)
        /\ ToSet(todo[s]) = {v} \cup ToSet(Tail(todo[s]))
    BY <2>2, TailSet DEF LifeTypes, Version
  <2>4. LifeTypes'
    <3>1. schema' \in Seq(Versions) /\ recorded' \subseteq Versions
      BY <2>1, <2>3 DEF LifeTypes
    <3>2. QED  BY <1>0, <2>1, <2>3, <3>1 DEF LifeTypes
  <2>5. AppliedExactlyOnce'
    BY <2>1, <2>2, <2>3, AppendedSet DEF LifeTypes, AppliedExactlyOnce
  <2>6. \A t \in Servers \ {s} : pc'[t] = pc[t] /\ todo'[t] = todo[t]
    BY <2>1 DEF LifeTypes
  <2>7. AtHand(s)' /\ HoldsKey(s)' /\ OpenFirst(s)'
    BY <1>0, <2>1 DEF LifeTypes, AtHand, HoldsKey, OpenFirst
  <2>8. Covered(s)'
    BY <2>1, <2>3 DEF LifeTypes, Covered
  <2>9. ASSUME NEW t \in Servers \ {s}
        PROVE  AtHand(t)' /\ HoldsKey(t)' /\ Covered(t)' /\ OpenFirst(t)'
    <3>1. AtHand(t)' /\ OpenFirst(t)'
      BY <1>0, <2>6 DEF AtHand, OpenFirst
    <3>2. HoldsKey(t)'
      BY <2>1, <2>2, <2>6 DEF LifeTypes, HoldsKey, Version
    <3>3. Covered(t)'
      BY <2>1, <2>6 DEF Covered
    <3>4. QED  BY <3>1, <3>2, <3>3
  <2>10. QED  BY <2>4, <2>5, <2>7, <2>8, <2>9
<1>6. QED  BY <1>1, <1>2, <1>3, <1>4, <1>5 DEF Migrating, migrate

\* However a process ends, its transaction is undone and nothing of it is left.
LEMMA EndStep ==
  ASSUME LifeInv, NEW s \in Servers, Ends(s), Gone(s)
  PROVE  LifeInv'
<1>1. /\ pc' = [pc EXCEPT ![s] = "down"] /\ build' = [build EXCEPT ![s] = {}]
      /\ applied' = [applied EXCEPT ![s] = {}] /\ todo' = [todo EXCEPT ![s] = <<>>]
      /\ server' = [server EXCEPT ![s] = "off"] /\ worker' = [worker EXCEPT ![s] = Nobody]
      /\ UNCHANGED <<schema, recorded>>
  BY DEF Ends, Gone
<1>2. Nobody \in [Workers -> {"none", "busy", "statement"}]
  BY DEF Nobody
<1>3. LifeTypes'
  BY <1>1, <1>2 DEF LifeInv, LifeTypes
<1>4. AtHand(s)' /\ HoldsKey(s)' /\ Covered(s)' /\ OpenFirst(s)'
  BY <1>1 DEF LifeInv, LifeTypes, AtHand, HoldsKey, Covered, OpenFirst
<1>5. QED  BY <1>1, <1>3, <1>4, OneServer DEF LifeInv, LifeTypes

LEMMA ListenStep ==
  ASSUME LifeInv, NEW s \in Servers, Listen(s)
  PROVE  LifeInv'
<1>1. /\ pc[s] = "next" /\ todo[s] = <<>> /\ pc' = [pc EXCEPT ![s] = "serving"]
      /\ server' = [server EXCEPT ![s] = "open"]
      /\ worker' = [worker EXCEPT ![s].poller = "busy"]
      /\ UNCHANGED <<schema, recorded, build, applied, todo>>
  BY DEF Listen, Serve
<1>2. LifeTypes'
  BY <1>1 DEF LifeInv, LifeTypes, Workers
<1>3. build[s] \subseteq recorded
  BY <1>1 DEF LifeInv, Covered, ToSet
<1>4. AtHand(s)' /\ HoldsKey(s)' /\ Covered(s)' /\ OpenFirst(s)'
  BY <1>1, <1>3 DEF LifeInv, LifeTypes, AtHand, HoldsKey, Covered, OpenFirst
<1>5. QED  BY <1>1, <1>2, <1>4, OneServer DEF LifeInv, LifeTypes

\* What a serving process does with its port, its poller and its requests.
LEMMA ServingStep ==
  ASSUME LifeInv, NEW s \in Servers,
         \/ ListenFails(s) \/ Shutdown(s) \/ Tick(s) \/ Request(s) \/ Signal(s)
         \/ \E w \in Workers : Acquire(s, w) \/ Release(s, w) \/ Done(s, w)
  PROVE  LifeInv'
<1> USE DEF LifeInv
<1>1. UNCHANGED <<schema, recorded, build, applied, todo, pc>>
  BY DEF ListenFails, Shutdown, Tick, Request, Signal, Acquire, Release, Done, vars
<1>2. CASE Signal(s)
  <2>1. UNCHANGED <<server, worker>>
    BY <1>2 DEF Signal
  <2>2. QED
    BY <1>1, <2>1 DEF LifeTypes, AppliedExactlyOnce, AtHand, HoldsKey, Covered, OpenFirst, Version
<1>3. CASE ListenFails(s) \/ Shutdown(s)
  <2>1. server[s] = "open" /\ server' = [server EXCEPT ![s] = "closing"] /\ UNCHANGED worker
    BY <1>3 DEF ListenFails, Shutdown
  <2>2. LifeTypes'
    BY <1>1, <2>1 DEF LifeTypes
  <2>3. AtHand(s)' /\ HoldsKey(s)' /\ Covered(s)' /\ OpenFirst(s)'
    BY <1>1, <2>1 DEF AtHand, HoldsKey, Covered, OpenFirst, Version
  <2>4. QED  BY <1>1, <2>1, <2>2, <2>3, OneServer DEF LifeTypes
<1>4. CASE \/ Tick(s) \/ Request(s)
           \/ \E w \in Workers : Acquire(s, w) \/ Release(s, w) \/ Done(s, w)
  <2>1. PICK w \in Workers, x \in {"none", "busy", "statement"} :
          worker' = [worker EXCEPT ![s][w] = x] /\ UNCHANGED server
    BY <1>4 DEF Tick, Request, Acquire, Release, Done, Workers
  <2>2. pc[s] = "serving"
    <3>1. CASE Tick(s)
      BY <3>1 DEF Tick
    <3>2. CASE Request(s)
      BY <3>2 DEF Request, OpenFirst
    <3>3. CASE \E y \in Workers : Acquire(s, y) \/ Release(s, y) \/ Done(s, y)
      BY <3>3 DEF Acquire, Release, Done, OpenFirst, Nobody
    <3>4. QED  BY <1>4, <3>1, <3>2, <3>3
  <2>3. LifeTypes'
    BY <1>1, <2>1 DEF LifeTypes
  <2>4. AtHand(s)' /\ HoldsKey(s)' /\ Covered(s)' /\ OpenFirst(s)'
    BY <1>1, <2>2 DEF AtHand, HoldsKey, Covered, OpenFirst, Version
  <2>5. QED  BY <1>1, <2>1, <2>3, <2>4, OneServer DEF LifeTypes
<1>5. QED  BY <1>2, <1>3, <1>4

LEMMA LifeStart == LifeInit => LifeInv
<1> SUFFICES ASSUME LifeInit PROVE LifeInv
  OBVIOUS
<1>1. LifeTypes
  BY DEF LifeInit, Init, LifeTypes, Nobody
<1>2. AppliedExactlyOnce
  BY DEF LifeInit, Init, AppliedExactlyOnce, IsInjective, ToSet
<1>3. \A s \in Servers : AtHand(s) /\ HoldsKey(s) /\ Covered(s) /\ OpenFirst(s)
  BY DEF LifeInit, Init, AtHand, HoldsKey, Covered, OpenFirst
<1>4. QED  BY <1>1, <1>2, <1>3 DEF LifeInv

LEMMA LifeStep ==
  ASSUME LifeInv, [LifeNext]_allVars
  PROVE  LifeInv'
<1>1. CASE UNCHANGED allVars
  BY <1>1 DEF allVars, vars, lifeVars, LifeInv, LifeTypes, AppliedExactlyOnce, AtHand, HoldsKey,
              Covered, OpenFirst, Version
<1>2. ASSUME NEW s \in Servers, OpenFails(s) \/ Exit(s) \/ Crash(s) PROVE LifeInv'
  BY <1>2, EndStep DEF OpenFails, Exit, Crash, RecordFails, Stop
<1>3. QED
  BY <1>1, <1>2, StartStep, MigrateStep, ListenStep, ServingStep DEF LifeNext, run

-----------------------------------------------------------------------------
\* What LifeTypeOK says beyond the types that the invariant has.

LifeKinds ==
  /\ build \in [Servers -> Builds \cup {{}}]
  /\ \A s \in Servers : Ascending(todo[s])
  /\ fails \in 0 .. MaxFails
  /\ signalled \subseteq {s \in Servers : pc[s] # "down"}

LEMMA TailAscends ==
  ASSUME NEW q \in Seq(Versions), q # <<>>, Ascending(q)
  PROVE  Ascending(Tail(q))
<1>1. /\ Len(q) \in Nat \ {0} /\ DOMAIN q = 1 .. Len(q)
      /\ DOMAIN Tail(q) = 1 .. (Len(q) - 1)
      /\ \A i \in 1 .. (Len(q) - 1) : Tail(q)[i] = q[i + 1]
  OBVIOUS
<1>2. SUFFICES ASSUME NEW i \in 1 .. (Len(q) - 1), NEW j \in 1 .. (Len(q) - 1), i < j
               PROVE  Tail(q)[i] < Tail(q)[j]
  BY <1>1 DEF Ascending
<1>3. i + 1 \in DOMAIN q /\ j + 1 \in DOMAIN q /\ i + 1 < j + 1
  BY <1>1, <1>2
<1>4. q[i + 1] < q[j + 1]
  BY <1>3 DEF Ascending
<1>5. QED  BY <1>1, <1>4

LEMMA KindsStart == LifeInit => LifeKinds
  BY MigrationsAssumption DEF LifeInit, Init, LifeKinds, Ascending

LEMMA KindsStep ==
  ASSUME LifeInv, LifeKinds, [LifeNext]_allVars
  PROVE  LifeKinds'
<1> USE DEF LifeKinds
<1>0. LifeTypes /\ MaxFails \in Nat
  BY MigrationsAssumption DEF LifeInv
<1>1. CASE UNCHANGED allVars
  BY <1>1 DEF allVars, vars, lifeVars
<1>2. ASSUME NEW s \in Servers, StartServer(s) PROVE LifeKinds'
  <2>1. PICK b \in Builds :
          /\ build' = [build EXCEPT ![s] = b]
          /\ todo' = [todo EXCEPT ![s] = loadMigrations(b)]
          /\ pc' = [pc EXCEPT ![s] = "query"]
          /\ UNCHANGED <<fails, signalled>>
    BY <1>2 DEF StartServer, Start, lifeVars
  <2>2. Ascending(loadMigrations(b))
    <3>1. b \subseteq Nat /\ IsFiniteSet(b)
      BY MigrationsAssumption
    <3>2. QED  BY <3>1, LoadSorts
  <2>3. \A t \in Servers : Ascending(todo[t])'
    BY <1>0, <2>1, <2>2 DEF LifeTypes
  <2>4. QED  BY <1>0, <2>1, <2>3 DEF LifeTypes
<1>3. ASSUME NEW s \in Servers, Migrating(s) PROVE LifeKinds'
  <2>1. UNCHANGED <<build, fails, signalled>> /\ pc[s] # "down"
        /\ \/ \E x \in {"next", "record", "commit"} : pc' = [pc EXCEPT ![s] = x]
           \/ pc' = pc
    BY <1>3 DEF Migrating, migrate, QueryApplied, Skip, Apply, Record, Commit, lifeVars
  <2>2. CASE UNCHANGED todo
    BY <1>0, <2>1, <2>2 DEF LifeTypes
  <2>3. CASE todo[s] # <<>> /\ todo' = [todo EXCEPT ![s] = Tail(todo[s])]
    <3>1. Ascending(Tail(todo[s]))
      BY <1>0, <2>3, TailAscends DEF LifeTypes
    <3>2. \A t \in Servers : Ascending(todo[t])'
      BY <1>0, <2>3, <3>1 DEF LifeTypes
    <3>3. QED  BY <1>0, <2>1, <3>2 DEF LifeTypes
  <2>4. pc[s] = "commit" => todo[s] # <<>>
    BY DEF LifeInv, AtHand
  <2>5. \/ UNCHANGED todo
        \/ todo[s] # <<>> /\ todo' = [todo EXCEPT ![s] = Tail(todo[s])]
    <3>1. CASE QueryApplied(s) \/ Apply(s) \/ Record(s)
      BY <3>1 DEF QueryApplied, Apply, Record
    <3>2. CASE Skip(s)
      BY <3>2 DEF Skip
    <3>3. CASE Commit(s)
      BY <2>4, <3>3 DEF Commit
    <3>4. QED  BY <1>3, <3>1, <3>2, <3>3 DEF Migrating, migrate
  <2>6. QED  BY <2>2, <2>3, <2>5
<1>4. ASSUME NEW s \in Servers, OpenFails(s) \/ Exit(s) \/ Crash(s) PROVE LifeKinds'
  <2>1. /\ pc' = [pc EXCEPT ![s] = "down"] /\ build' = [build EXCEPT ![s] = {}]
        /\ todo' = [todo EXCEPT ![s] = <<>>] /\ signalled' = signalled \ {s}
    BY <1>4 DEF OpenFails, Exit, Crash, RecordFails, Stop, Ends, Gone
  <2>2. fails' \in 0 .. MaxFails
    BY <1>0, <1>4 DEF OpenFails, Exit, Crash, RecordFails, Stop
  <2>3. Ascending(<<>>)
    BY DEF Ascending
  <2>4. \A t \in Servers : Ascending(todo[t])'
    BY <1>0, <2>1, <2>3 DEF LifeTypes
  <2>5. build' \in [Servers -> Builds \cup {{}}]
    BY <2>1
  <2>6. signalled' \subseteq {t \in Servers : pc'[t] # "down"}
    BY <1>0, <2>1 DEF LifeTypes
  <2>7. QED  BY <2>2, <2>4, <2>5, <2>6
<1>5. ASSUME NEW s \in Servers, Listen(s) PROVE LifeKinds'
  BY <1>0, <1>5 DEF Listen, Serve, LifeTypes
<1>6. ASSUME NEW s \in Servers,
             \/ ListenFails(s) \/ Shutdown(s) \/ Tick(s) \/ Request(s) \/ Signal(s)
             \/ \E w \in Workers : Acquire(s, w) \/ Release(s, w) \/ Done(s, w)
      PROVE  LifeKinds'
  <2>1. UNCHANGED <<build, todo, pc>>
    BY <1>6 DEF ListenFails, Shutdown, Tick, Request, Signal, Acquire, Release, Done, vars
  <2>2. fails' \in 0 .. MaxFails
    BY <1>0, <1>6
    DEF ListenFails, Shutdown, Tick, Request, Signal, Acquire, Release, Done, vars
  <2>3. \/ signalled' = signalled
        \/ pc[s] # "down" /\ signalled' = signalled \cup {s}
    BY <1>6 DEF ListenFails, Shutdown, Tick, Request, Signal, Acquire, Release, Done
  <2>4. \A t \in Servers : Ascending(todo[t])'
    BY <2>1
  <2>5. build' \in [Servers -> Builds \cup {{}}]
    BY <2>1
  <2>6. signalled' \subseteq {t \in Servers : pc'[t] # "down"}
    <3>1. \A t \in signalled' : t \in Servers /\ pc[t] # "down"
      BY <2>3
    <3>2. QED  BY <2>1, <3>1
  <2>7. QED  BY <2>2, <2>4, <2>5, <2>6
<1>7. QED
  BY <1>1, <1>2, <1>3, <1>4, <1>5, <1>6 DEF LifeNext, run

\* The state of a server's life is well formed: its build is one of those there are, what
\* it has read is recorded, what is ahead of it ascends, and a signal needs a process.
THEOREM LifeTypeCorrect == LifeSpec => []LifeTypeOK
<1>1. LifeInit => LifeInv /\ LifeKinds
  BY LifeStart, KindsStart
<1>2. LifeInv /\ LifeKinds /\ [LifeNext]_allVars => (LifeInv /\ LifeKinds)'
  BY LifeStep, KindsStep
<1>3. LifeInv /\ LifeKinds => LifeTypeOK
  BY DEF LifeInv, LifeTypes, LifeKinds, LifeTypeOK, TypeOK, Covered, Versions
<1>4. QED  BY <1>1, <1>2, <1>3, PTL DEF LifeSpec

\* However many servers start together on one database, whatever they were built with
\* and wherever they stop, no migration takes effect twice.
THEOREM MigratesOnce == LifeSpec => []AppliedExactlyOnce
<1>1. LifeSpec => []LifeInv
  BY LifeStart, LifeStep, PTL DEF LifeSpec
<1>2. LifeInv => AppliedExactlyOnce
  BY DEF LifeInv
<1>3. QED  BY <1>1, <1>2, PTL

\* A server polls and answers only when every migration of its build has taken effect,
\* also when others applied them or were stopped in between.
THEOREM ServesItsSchema == LifeSpec => []WorksOnItsSchema
<1>1. LifeSpec => []LifeInv
  BY LifeStart, LifeStep, PTL DEF LifeSpec
<1>2. LifeInv => WorksOnItsSchema
  BY DEF LifeInv, Covered, OpenFirst, AppliedExactlyOnce, WorksOnItsSchema
<1>3. QED  BY <1>1, <1>2, PTL
=============================================================================
