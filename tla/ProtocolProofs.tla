--------------------------- MODULE ProtocolProofs ---------------------------
(***************************************************************************)
(* Lemmas about the history log of Protocol: the types of hashes and       *)
(* entries, and what chaining new entries onto a log preserves.            *)
(***************************************************************************)
EXTENDS Protocol, SequenceTheorems, WellFoundedInduction, TLAPS

\* A function on 1..n with values in S is a sequence of length n (the arrays of
\* the Go code are sequences here).
LEMMA SeqByIndex ==
  ASSUME NEW S, NEW n \in Nat, NEW f \in [1 .. n -> S]
  PROVE  f \in Seq(S) /\ Len(f) = n
<1>1. f \in Seq(S)
  BY SeqDef
<1>2. QED  BY <1>1, LenProperties

\* The hash of an entry is a digest, and so is the head of a log (history.Hash).
LEMMA HashType ==
  /\ \A e \in Entries : Hash(e) \in Digests
  /\ \A h \in Seq(Entries) : HeadHash(h) \in Digests
<1>1. ASSUME NEW e \in Entries
      PROVE  Hash(e) \in Digests
  <2>1. e.prev \in Seq(Signed) /\ [data |-> e.data, signer |-> e.signer] \in Signed
    BY DEF Entries, Digests, Signed
  <2>2. QED  BY <2>1, AppendProperties DEF Hash, Digests
<1>2. ASSUME NEW h \in Seq(Entries)
      PROVE  HeadHash(h) \in Digests
  <2>1. CASE h = <<>>
    BY <2>1, EmptySeq DEF HeadHash, Digests
  <2>2. CASE h # <<>>
    <3>1. Len(h) \in 1 .. Len(h)
      BY <2>2, EmptySeq
    <3>2. h[Len(h)] \in Entries
      BY <3>1, ElementOfSeq
    <3>3. QED  BY <1>1, <2>2, <3>2 DEF HeadHash
  <2>3. QED  BY <2>1, <2>2
<1>3. QED  BY <1>1, <1>2

\* The payloads that chaining cs under the key k adds, without their hashes.
SignedBy(cs, k) == [j \in DOMAIN cs |-> [data |-> cs[j], signer |-> k]]

\* The entries that chaining cs under the key k onto h adds.
NewEntries(h, cs, k) ==
  [j \in DOMAIN cs |-> [data |-> cs[j], signer |-> k,
                        prev |-> HeadHash(h) \o SubSeq(SignedBy(cs, k), 1, j - 1)]]

LEMMA NewEntriesType ==
  ASSUME NEW h \in Seq(Entries), NEW cs \in Seq(Changes), NEW k \in Keys
  PROVE  /\ SignedBy(cs, k) \in Seq(Signed)
         /\ Len(SignedBy(cs, k)) = Len(cs)
         /\ NewEntries(h, cs, k) \in Seq(Entries)
         /\ Len(NewEntries(h, cs, k)) = Len(cs)
         /\ Chain(h, cs, k) = h \o NewEntries(h, cs, k)
<1>1. DOMAIN cs = 1 .. Len(cs) /\ Len(cs) \in Nat
  BY LenProperties
<1>2. \A j \in 1 .. Len(cs) : cs[j] \in Changes
  BY ElementOfSeq
<1>3. SignedBy(cs, k) \in [1 .. Len(cs) -> Signed]
  BY <1>1, <1>2 DEF SignedBy, Signed
<1>4. SignedBy(cs, k) \in Seq(Signed) /\ Len(SignedBy(cs, k)) = Len(cs)
  BY <1>1, <1>3, SeqByIndex
<1>5. ASSUME NEW j \in 1 .. Len(cs)
      PROVE  HeadHash(h) \o SubSeq(SignedBy(cs, k), 1, j - 1) \in Digests
  <2>1. \A i \in 1 .. j - 1 : SignedBy(cs, k)[i] \in Signed
    BY <1>1, <1>4, ElementOfSeq
  <2>2. SubSeq(SignedBy(cs, k), 1, j - 1) \in Seq(Signed)
    BY <1>1, <2>1, SubSeqProperties
  <2>3. QED  BY <2>2, HashType, ConcatProperties DEF Digests
<1>6. NewEntries(h, cs, k) \in [1 .. Len(cs) -> Entries]
  BY <1>1, <1>2, <1>5 DEF NewEntries, Entries
<1>7. NewEntries(h, cs, k) \in Seq(Entries) /\ Len(NewEntries(h, cs, k)) = Len(cs)
  BY <1>1, <1>6, SeqByIndex
<1>8. Chain(h, cs, k) = h \o NewEntries(h, cs, k)
  BY DEF Chain, NewEntries, SignedBy
<1>9. QED  BY <1>4, <1>7, <1>8

\* Chaining changes onto a log gives a log that keeps every old entry in its
\* place and adds one entry per change (generate.go:96-116, rotate.go:92).
LEMMA ChainType ==
  ASSUME NEW h \in Seq(Entries), NEW cs \in Seq(Changes), NEW k \in Keys
  PROVE  /\ Chain(h, cs, k) \in Seq(Entries)
         /\ Len(Chain(h, cs, k)) = Len(h) + Len(cs)
         /\ \A i \in 1 .. Len(h) : Chain(h, cs, k)[i] = h[i]
         /\ \A j \in 1 .. Len(cs) :
              Chain(h, cs, k)[Len(h) + j] =
                [data |-> cs[j], signer |-> k,
                 prev |-> HeadHash(h) \o SubSeq(SignedBy(cs, k), 1, j - 1)]
<1>1. Len(h) \in Nat /\ Len(cs) \in Nat /\ DOMAIN cs = 1 .. Len(cs)
  BY LenProperties
<1> DEFINE new == NewEntries(h, cs, k)
<1>2. /\ new \in Seq(Entries) /\ Len(new) = Len(cs)
      /\ Chain(h, cs, k) = h \o new
  BY NewEntriesType
<1>3. \A j \in 1 .. Len(cs) :
        new[j] = [data |-> cs[j], signer |-> k,
                  prev |-> HeadHash(h) \o SubSeq(SignedBy(cs, k), 1, j - 1)]
  BY <1>1 DEF NewEntries
<1> HIDE DEF new
<1>4. /\ h \o new \in Seq(Entries)
      /\ Len(h \o new) = Len(h) + Len(new)
      /\ \A i \in 1 .. Len(h) + Len(new) :
           (h \o new)[i] = IF i <= Len(h) THEN h[i] ELSE new[i - Len(h)]
  BY <1>2, ConcatProperties
<1>5. \A j \in 1 .. Len(cs) : (h \o new)[Len(h) + j] = new[j]
  BY <1>1, <1>2, <1>4
<1>6. \A i \in 1 .. Len(h) : (h \o new)[i] = h[i]
  BY <1>1, <1>2, <1>4
<1>7. QED  BY <1>2, <1>3, <1>4, <1>5, <1>6

\* The hash of the j-th new entry commits to the first j payloads.
LEMMA HashOfNewEntry ==
  ASSUME NEW h \in Seq(Entries), NEW cs \in Seq(Changes), NEW k \in Keys,
         NEW j \in 1 .. Len(cs)
  PROVE  Hash(Chain(h, cs, k)[Len(h) + j]) = HeadHash(h) \o SubSeq(SignedBy(cs, k), 1, j)
<1> DEFINE s == SignedBy(cs, k)
<1>1. s \in Seq(Signed) /\ Len(s) = Len(cs) /\ HeadHash(h) \in Seq(Signed) /\ Len(cs) \in Nat
  BY NewEntriesType, HashType, LenProperties DEF Digests
<1>2. s[j] = [data |-> cs[j], signer |-> k] /\ s[j] \in Signed
  BY <1>1, LenProperties, ElementOfSeq DEF SignedBy
<1> HIDE DEF s
<1>3. \A i \in 1 .. j : s[i] \in Signed
  BY <1>1, ElementOfSeq
<1>4. SubSeq(s, 1, j - 1) \in Seq(Signed) /\ SubSeq(s, 1, j) \in Seq(Signed)
  BY <1>1, <1>3, SubSeqProperties
<1>5. SubSeq(s, 1, j) = Append(SubSeq(s, 1, j - 1), s[j])
  BY <1>1, <1>3, SubSeqRecursiveSecond
<1>6. Append(HeadHash(h) \o SubSeq(s, 1, j - 1), s[j])
        = HeadHash(h) \o Append(SubSeq(s, 1, j - 1), s[j])
  <2> DEFINE d == HeadHash(h)
             q == SubSeq(s, 1, j - 1)
             e == s[j]
  <2>1. d \in Seq(Signed) /\ q \in Seq(Signed) /\ e \in Signed /\ d \o q \in Seq(Signed)
    BY <1>1, <1>2, <1>4, ConcatProperties
  <2> HIDE DEF d, q, e
  <2>2. <<e>> \in Seq(Signed)
    BY <2>1
  <2>3. Append(d \o q, e) = (d \o q) \o <<e>> /\ Append(q, e) = q \o <<e>>
    BY <2>1, AppendIsConcat
  <2>4. (d \o q) \o <<e>> = d \o (q \o <<e>>)
    BY <2>1, <2>2, ConcatAssociative
  <2>5. QED  BY <2>3, <2>4 DEF d, q, e
<1>7. Hash(Chain(h, cs, k)[Len(h) + j]) = Append(HeadHash(h) \o SubSeq(s, 1, j - 1), s[j])
  <2>1. Chain(h, cs, k)[Len(h) + j] =
          [data |-> cs[j], signer |-> k, prev |-> HeadHash(h) \o SubSeq(s, 1, j - 1)]
    BY ChainType DEF s
  <2>2. QED  BY <1>2, <2>1 DEF Hash
<1>8. QED  BY <1>5, <1>6, <1>7 DEF s

\* Chaining keeps the chain unbroken (history.VerifyChain).
LEMMA ChainVerifies ==
  ASSUME NEW h \in Seq(Entries), NEW cs \in Seq(Changes), NEW k \in Keys, VerifyChain(h)
  PROVE  VerifyChain(Chain(h, cs, k))
<1> DEFINE g == Chain(h, cs, k)
           s == SignedBy(cs, k)
<1>1. /\ Len(h) \in Nat /\ Len(cs) \in Nat /\ DOMAIN h = 1 .. Len(h)
      /\ DOMAIN g = 1 .. Len(h) + Len(cs)
      /\ s \in Seq(Signed) /\ Len(s) = Len(cs)
      /\ HeadHash(h) \in Seq(Signed)
  BY LenProperties, ChainType, NewEntriesType, HashType DEF Digests
<1>2. /\ \A i \in 1 .. Len(h) : g[i] = h[i]
      /\ \A j \in 1 .. Len(cs) : g[Len(h) + j].prev = HeadHash(h) \o SubSeq(s, 1, j - 1)
      /\ \A j \in 1 .. Len(cs) : Hash(g[Len(h) + j]) = HeadHash(h) \o SubSeq(s, 1, j)
  <2>1. \A i \in 1 .. Len(h) : g[i] = h[i]
    BY ChainType
  <2>2. ASSUME NEW j \in 1 .. Len(cs)
        PROVE  g[Len(h) + j].prev = HeadHash(h) \o SubSeq(s, 1, j - 1)
    <3>1. g[Len(h) + j] = [data |-> cs[j], signer |-> k,
                           prev |-> HeadHash(h) \o SubSeq(s, 1, j - 1)]
      BY ChainType
    <3>2. QED  BY <3>1
  <2>3. ASSUME NEW j \in 1 .. Len(cs)
        PROVE  Hash(g[Len(h) + j]) = HeadHash(h) \o SubSeq(s, 1, j)
    BY HashOfNewEntry
  <2>4. QED  BY <2>1, <2>2, <2>3
<1>3. g[Len(h) + 1].prev = HeadHash(h) \/ Len(cs) = 0
  <2>1. SubSeq(s, 1, 1 - 1) = <<>>
    BY <1>1, SubSeqEmpty
  <2>2. HeadHash(h) \o <<>> = HeadHash(h)
    BY <1>1, ConcatEmptySeq
  <2>3. CASE Len(cs) # 0
    <3>1. 1 \in 1 .. Len(cs)
      BY <1>1, <2>3
    <3>2. g[Len(h) + 1].prev = HeadHash(h) \o SubSeq(s, 1, 1 - 1)
      BY <1>2, <3>1
    <3>3. QED  BY <2>1, <2>2, <3>2
  <2>4. QED  BY <2>3
<1> HIDE DEF g, s
<1>4. SUFFICES ASSUME NEW i \in 1 .. Len(h) + Len(cs)
               PROVE  g[i].prev = IF i = 1 THEN <<>> ELSE Hash(g[i - 1])
  BY <1>1 DEF VerifyChain, g
<1>len. Len(h) \in Nat /\ Len(cs) \in Nat
  BY <1>1
<1>5. CASE i <= Len(h)
  <2>1. i \in 1 .. Len(h) /\ (i # 1 => i - 1 \in 1 .. Len(h))
    BY <1>len, <1>5
  <2>2. g[i] = h[i] /\ (i # 1 => g[i - 1] = h[i - 1])
    BY <1>2, <2>1
  <2>3. QED  BY <1>1, <2>1, <2>2 DEF VerifyChain
<1>6. CASE i = Len(h) + 1
  <2>1. g[i].prev = HeadHash(h)
    BY <1>1, <1>3, <1>6
  <2>2. CASE Len(h) = 0
    BY <1>6, <2>1, <2>2, EmptySeq DEF HeadHash
  <2>3. CASE Len(h) # 0
    <3>1. h # <<>> /\ g[i - 1] = h[Len(h)]
      BY <1>1, <1>2, <1>6, <2>3, EmptySeq
    <3>2. QED  BY <1>1, <1>6, <2>1, <2>3, <3>1 DEF HeadHash
  <2>4. QED  BY <2>2, <2>3
<1>7. CASE i > Len(h) + 1
  <2>1. PICK j \in 2 .. Len(cs) : i = Len(h) + j
    <3>1. i - Len(h) \in 2 .. Len(cs) /\ i = Len(h) + (i - Len(h))
      BY <1>len, <1>7
    <3>2. QED  BY <3>1
  <2>2. j - 1 \in 1 .. Len(cs) /\ i - 1 = Len(h) + (j - 1) /\ i # 1
    BY <1>len, <2>1
  <2>3. g[i].prev = HeadHash(h) \o SubSeq(s, 1, j - 1)
    BY <1>2, <2>1
  <2>4. Hash(g[i - 1]) = HeadHash(h) \o SubSeq(s, 1, j - 1)
    BY <1>2, <2>2
  <2>5. QED  BY <2>2, <2>3, <2>4
<1>8. i <= Len(h) \/ i = Len(h) + 1 \/ i > Len(h) + 1
  BY <1>len
<1>9. QED  BY <1>5, <1>6, <1>7, <1>8
-----------------------------------------------------------------------------
\* Greatest and least numbers, by which the validator's walk is followed.

LEMMA LeastNumber ==
  ASSUME NEW T, T \subseteq Nat, T # {}
  PROVE  \E m \in T : \A i \in T : m <= i
<1> DEFINE R == OpToRel(<, Nat)
<1>1. IsWellFoundedOn(R, Nat)
  BY NatLessThanWellFounded
<1>2. \A i, j \in Nat : i < j => <<i, j>> \in R
  BY DEF OpToRel
<1> HIDE DEF R
<1>3. PICK m \in T : \A i \in T : ~(<<i, m>> \in R)
  BY <1>1, WFMin
<1>4. ASSUME NEW i \in T PROVE m <= i
  <2>1. ~(i < m)
    BY <1>2, <1>3
  <2>2. i \in Nat /\ m \in Nat
    OBVIOUS
  <2>3. QED  BY <2>1, <2>2
<1>5. QED  BY <1>4

LEMMA GreatestNumber ==
  ASSUME NEW n \in Nat, NEW T, T \subseteq 0 .. n, T # {}
  PROVE  \E m \in T : \A i \in T : i <= m
<1> DEFINE U == {j \in Nat : n - j \in T}
<1>1. PICK i \in T : TRUE
  OBVIOUS
<1>2. n - i \in U
  <2>1. i \in 0 .. n
    OBVIOUS
  <2>2. n - i \in Nat /\ n - (n - i) = i
    BY <2>1
  <2>3. QED  BY <2>2
<1>3. PICK u \in U : \A v \in U : u <= v
  <2>1. U \subseteq Nat /\ U # {}
    BY <1>2
  <2> HIDE DEF U
  <2> QED  BY <2>1, LeastNumber
<1>4. ASSUME NEW j \in T PROVE j <= n - u
  <2>1. j \in 0 .. n
    OBVIOUS
  <2>2. n - j \in Nat /\ n - (n - j) = j
    BY <2>1
  <2>3. n - j \in U
    BY <2>2
  <2>4. u <= n - j /\ u \in Nat
    BY <1>3, <2>3
  <2>5. QED  BY <2>1, <2>4
<1>5. QED  BY <1>3, <1>4

-----------------------------------------------------------------------------
\* The validator's walk over the keys (validate.checkKeyRotationChain).

\* The walk over h accepts every signature and ends at the key k.
OwnedBy(h, k) ==
  /\ \A i \in DOMAIN h :
       IF i \in Rotations(h)
         THEN h[i].data.old = KeyBefore(h, k, i) /\ h[i].signer = h[i].data.old
         ELSE h[i].signer = KeyBefore(h, k, i)
  /\ KeyBefore(h, k, Len(h) + 1) = k

LEMMA EmptyIsOwned ==
  ASSUME NEW k
  PROVE  OwnedBy(<<>>, k)
BY EmptySeq DEF OwnedBy, KeyBefore, InitialKey, Rotations

\* What the CHOOSEs of the walk find.
LEMMA FirstIs ==
  ASSUME NEW S, S \subseteq Nat, NEW f, IsFirst(f, S)
  PROVE  (CHOOSE i \in S : IsFirst(i, S)) = f
<1>1. \A i \in S : IsFirst(i, S) => i = f
  BY DEF IsFirst
<1>2. QED  BY <1>1 DEF IsFirst

LEMMA LastIs ==
  ASSUME NEW S, S \subseteq Nat, NEW l \in S, \A i \in S : i <= l
  PROVE  (CHOOSE j \in S : \A i \in S : i <= j) = l
<1>1. \A j \in S : (\A i \in S : i <= j) => j = l
  OBVIOUS
<1>2. QED  BY <1>1

\* Before a place up to which two logs agree, the walk has come to the same key, if it
\* has started with the same.
LEMMA SameKeyBefore ==
  ASSUME NEW h \in Seq(Entries), NEW g \in Seq(Entries), NEW n \in Nat,
         n <= Len(h), n <= Len(g), \A i \in 1 .. n : g[i] = h[i],
         NEW k, NEW l, InitialKey(g, l) = InitialKey(h, k),
         NEW i \in 1 .. n + 1
  PROVE  KeyBefore(g, l, i) = KeyBefore(h, k, i)
<1> DEFINE S == {j \in Rotations(h) : j < i}
<1>1. /\ DOMAIN h = 1 .. Len(h) /\ DOMAIN g = 1 .. Len(g)
      /\ Len(h) \in Nat /\ Len(g) \in Nat
  BY LenProperties
<1>2. S \subseteq 1 .. n
  BY <1>1 DEF Rotations
<1>3. {j \in Rotations(g) : j < i} = S
  BY <1>1 DEF Rotations
<1>4. CASE S = {}
  BY <1>3, <1>4 DEF KeyBefore
<1>5. CASE S # {}
  <2>1. PICK m \in S : \A j \in S : j <= m
    <3>1. S \subseteq 0 .. n
      BY <1>2
    <3> HIDE DEF S
    <3>2. QED  BY <1>5, <3>1, GreatestNumber
  <2>2. (CHOOSE j \in S : \A j2 \in S : j2 <= j) = m
    <3>1. S \subseteq Nat
      BY <1>2
    <3> HIDE DEF S
    <3>2. QED  BY <2>1, <3>1, LastIs
  <2>3. g[m] = h[m]
    BY <1>2
  <2>4. KeyBefore(h, k, i) = h[m].data.new /\ KeyBefore(g, l, i) = g[m].data.new
    <3>1. KeyBefore(h, k, i) = h[CHOOSE j \in S : \A j2 \in S : j2 <= j].data.new
      BY <1>5 DEF KeyBefore
    <3>2. KeyBefore(g, l, i) = g[CHOOSE j \in S : \A j2 \in S : j2 <= j].data.new
      BY <1>3, <1>5 DEF KeyBefore
    <3>3. QED  BY <2>2, <3>1, <3>2
  <2>5. QED  BY <2>3, <2>4
<1>6. QED  BY <1>4, <1>5

\* Changes of the source that the owner signs leave the log its own (generate.go:96-116).
LEMMA ChainOwned ==
  ASSUME NEW h \in Seq(Entries), NEW cs \in Seq(SourceChanges), NEW k \in Keys, OwnedBy(h, k)
  PROVE  OwnedBy(Chain(h, cs, k), k)
<1> DEFINE g == Chain(h, cs, k)
<1>1. cs \in Seq(Changes)
  BY DEF Changes
<1>2. /\ g \in Seq(Entries) /\ Len(g) = Len(h) + Len(cs)
      /\ \A i \in 1 .. Len(h) : g[i] = h[i]
      /\ \A j \in 1 .. Len(cs) : g[Len(h) + j].data = cs[j] /\ g[Len(h) + j].signer = k
  <2>1. /\ g \in Seq(Entries) /\ Len(g) = Len(h) + Len(cs)
        /\ \A i \in 1 .. Len(h) : g[i] = h[i]
    BY <1>1, ChainType
  <2>2. ASSUME NEW j \in 1 .. Len(cs)
        PROVE  g[Len(h) + j].data = cs[j] /\ g[Len(h) + j].signer = k
    <3>1. g[Len(h) + j] = [data |-> cs[j], signer |-> k,
                           prev |-> HeadHash(h) \o SubSeq(SignedBy(cs, k), 1, j - 1)]
      BY <1>1, ChainType
    <3>2. QED  BY <3>1
  <2>3. QED  BY <2>1, <2>2
<1>3. /\ Len(h) \in Nat /\ Len(cs) \in Nat /\ DOMAIN h = 1 .. Len(h)
      /\ DOMAIN g = 1 .. Len(h) + Len(cs) /\ Len(g) \in Nat
  BY <1>2, LenProperties
<1> HIDE DEF g
<1>4. \A j \in 1 .. Len(cs) : cs[j].type # "key_rotated"
  <2>1. \A j \in 1 .. Len(cs) : cs[j] \in SourceChanges
    BY ElementOfSeq
  <2>2. \A c \in SourceChanges : c.type # "key_rotated"
    BY DEF SourceChanges, CatalogChanges, IdentityUpdated, SplitChanged, ReleaseAdded,
           ReleaseUpdated, ReleaseRemoved
  <2>3. QED  BY <2>1, <2>2
<1>5. ASSUME NEW i \in DOMAIN g, i > Len(h)
      PROVE  i \notin Rotations(g) /\ g[i].signer = k
  <2>1. i - Len(h) \in 1 .. Len(cs) /\ i = Len(h) + (i - Len(h))
    BY <1>3, <1>5
  <2>2. g[i].data = cs[i - Len(h)] /\ g[i].signer = k
    BY <1>2, <2>1
  <2>3. QED  BY <1>4, <2>1, <2>2 DEF Rotations
<1>6. Rotations(g) = Rotations(h) /\ Rotations(h) \subseteq 1 .. Len(h)
  BY <1>2, <1>3, <1>5 DEF Rotations
<1>7. InitialKey(g, k) = InitialKey(h, k)
  <2>1. CASE Rotations(h) # {}
    <3>1. PICK f \in Rotations(h) : \A i \in Rotations(h) : f <= i
      BY <1>6, <2>1, LeastNumber
    <3>2. (CHOOSE i \in Rotations(h) : IsFirst(i, Rotations(h))) = f
      BY <1>6, <3>1, FirstIs DEF IsFirst
    <3>3. g[f] = h[f]
      BY <1>2, <1>6
    <3>4. /\ InitialKey(h, k) = h[CHOOSE i \in Rotations(h) : IsFirst(i, Rotations(h))].data.old
          /\ InitialKey(g, k) = g[CHOOSE i \in Rotations(h) : IsFirst(i, Rotations(h))].data.old
      BY <1>6, <2>1 DEF InitialKey
    <3>5. QED  BY <3>2, <3>3, <3>4
  <2>2. QED  BY <1>6, <2>1 DEF InitialKey
<1>8. ASSUME NEW i \in 1 .. Len(h) + 1 PROVE KeyBefore(g, k, i) = KeyBefore(h, k, i)
  <2>1. /\ Len(h) <= Len(h) /\ Len(h) <= Len(g) /\ Len(h) \in Nat /\ g \in Seq(Entries)
        /\ \A j \in 1 .. Len(h) : g[j] = h[j]
    BY <1>2, <1>3
  <2>2. QED  BY <1>7, <2>1, SameKeyBefore
<1>9. ASSUME NEW i \in Nat, i > Len(h)
      PROVE  KeyBefore(g, k, i) = k
  <2>1. {j \in Rotations(g) : j < i} = {j \in Rotations(g) : j < Len(h) + 1}
    BY <1>3, <1>6, <1>9
  <2> DEFINE F(S) == IF S = {} THEN InitialKey(g, k)
                     ELSE g[CHOOSE j \in S : \A l \in S : l <= j].data.new
  <2>2. KeyBefore(g, k, i) = KeyBefore(g, k, Len(h) + 1)
    <3>1. \A n : KeyBefore(g, k, n) = F({j \in Rotations(g) : j < n})
      BY DEF KeyBefore
    <3> HIDE DEF F
    <3>2. QED  BY <2>1, <3>1
  <2>3. Len(h) + 1 \in 1 .. Len(h) + 1
    BY <1>3
  <2>4. KeyBefore(g, k, Len(h) + 1) = KeyBefore(h, k, Len(h) + 1)
    BY <1>8, <2>3
  <2>5. QED  BY <2>2, <2>4 DEF OwnedBy
<1>10. ASSUME NEW i \in DOMAIN g
       PROVE  IF i \in Rotations(g)
                THEN g[i].data.old = KeyBefore(g, k, i) /\ g[i].signer = g[i].data.old
                ELSE g[i].signer = KeyBefore(g, k, i)
  <2>1. CASE i <= Len(h)
    <3>1. i \in 1 .. Len(h)
      BY <1>3, <2>1
    <3>2. g[i] = h[i] /\ KeyBefore(g, k, i) = KeyBefore(h, k, i)
      BY <1>2, <1>3, <1>8, <3>1
    <3>3. QED  BY <1>3, <1>6, <3>1, <3>2 DEF OwnedBy
  <2>2. CASE i > Len(h)
    BY <1>3, <1>5, <1>9, <2>2
  <2>3. QED  BY <1>3, <2>1, <2>2
<1>11. KeyBefore(g, k, Len(g) + 1) = k
  BY <1>2, <1>3, <1>9
<1>12. QED  BY <1>10, <1>11 DEF OwnedBy, g

\* A rotation that the owner signs makes the log the new key's (rotate.go:80-92).
LEMMA RotationOwned ==
  ASSUME NEW h \in Seq(Entries), NEW k \in Keys, NEW n \in Keys, OwnedBy(h, k)
  PROVE  OwnedBy(Chain(h, <<[type |-> "key_rotated", old |-> k, new |-> n]>>, k), n)
<1> DEFINE c == [type |-> "key_rotated", old |-> k, new |-> n]
           g == Chain(h, <<c>>, k)
           r == Len(h) + 1
<1>1. c \in Changes /\ <<c>> \in Seq(Changes) /\ Len(<<c>>) = 1 /\ <<c>>[1] = c
  BY DEF Changes, KeyRotated
<1>2. c.type = "key_rotated" /\ c.old = k /\ c.new = n
  OBVIOUS
<1>3. /\ g \in Seq(Entries) /\ Len(g) = r
      /\ \A i \in 1 .. Len(h) : g[i] = h[i]
      /\ g[r].data = c /\ g[r].signer = k
  <2> HIDE DEF c
  <2>1. /\ g \in Seq(Entries) /\ Len(g) = r
        /\ \A i \in 1 .. Len(h) : g[i] = h[i]
    BY <1>1, ChainType
  <2>a. 1 \in 1 .. Len(<<c>>)
    BY <1>1
  <2>2. g[Len(h) + 1] = [data |-> <<c>>[1], signer |-> k,
                         prev |-> HeadHash(h) \o SubSeq(SignedBy(<<c>>, k), 1, 1 - 1)]
    BY <1>1, <2>a, ChainType
  <2>3. QED  BY <1>1, <2>1, <2>2
<1>4. /\ Len(h) \in Nat /\ r \in Nat /\ DOMAIN h = 1 .. Len(h) /\ DOMAIN g = 1 .. r
  BY <1>3, LenProperties
<1> HIDE DEF g, c
<1>5. /\ Rotations(g) = Rotations(h) \cup {r} /\ Rotations(h) \subseteq 1 .. Len(h)
  BY <1>2, <1>3, <1>4 DEF Rotations
<1>6. InitialKey(g, n) = InitialKey(h, k)
  <2>1. CASE Rotations(h) = {}
    <3>1. IsFirst(r, Rotations(g)) /\ Rotations(g) \subseteq Nat
      BY <1>4, <1>5, <2>1 DEF IsFirst
    <3>2. (CHOOSE i \in Rotations(g) : IsFirst(i, Rotations(g))) = r
      BY <3>1, FirstIs
    <3>3. QED  BY <1>2, <1>3, <1>5, <2>1, <3>2 DEF InitialKey
  <2>2. CASE Rotations(h) # {}
    <3>1. PICK f \in Rotations(h) : \A i \in Rotations(h) : f <= i
      BY <1>5, <2>2, LeastNumber
    <3>2. /\ IsFirst(f, Rotations(h)) /\ IsFirst(f, Rotations(g))
          /\ Rotations(h) \subseteq Nat /\ Rotations(g) \subseteq Nat
      BY <1>4, <1>5, <3>1 DEF IsFirst
    <3>3. /\ (CHOOSE i \in Rotations(h) : IsFirst(i, Rotations(h))) = f
          /\ (CHOOSE i \in Rotations(g) : IsFirst(i, Rotations(g))) = f
      BY <3>2, FirstIs
    <3>4. g[f] = h[f]
      BY <1>3, <1>5
    <3>5. /\ InitialKey(h, k) = h[CHOOSE i \in Rotations(h) : IsFirst(i, Rotations(h))].data.old
          /\ InitialKey(g, n) = g[CHOOSE i \in Rotations(g) : IsFirst(i, Rotations(g))].data.old
      BY <1>5, <2>2 DEF InitialKey
    <3>6. QED  BY <3>3, <3>4, <3>5
  <2>3. QED  BY <2>1, <2>2
<1>7. \A i \in 1 .. Len(h) + 1 : KeyBefore(g, n, i) = KeyBefore(h, k, i)
  BY <1>3, <1>4, <1>6, SameKeyBefore
<1>8. KeyBefore(g, n, r) = k
  BY <1>4, <1>7 DEF OwnedBy
<1>9. KeyBefore(g, n, Len(g) + 1) = n
  <2> DEFINE S == {j \in Rotations(g) : j < Len(g) + 1}
  <2>1. r \in S /\ S \subseteq Nat /\ \A i \in S : i <= r
    BY <1>3, <1>4, <1>5
  <2>2. KeyBefore(g, n, Len(g) + 1) = g[CHOOSE j \in S : \A l \in S : l <= j].data.new
    BY <2>1 DEF KeyBefore
  <2> HIDE DEF S
  <2>3. (CHOOSE j \in S : \A l \in S : l <= j) = r
    BY <2>1, LastIs
  <2>4. QED  BY <1>2, <1>3, <2>2, <2>3
<1>10. ASSUME NEW i \in DOMAIN g
       PROVE  IF i \in Rotations(g)
                THEN g[i].data.old = KeyBefore(g, n, i) /\ g[i].signer = g[i].data.old
                ELSE g[i].signer = KeyBefore(g, n, i)
  <2>1. CASE i <= Len(h)
    <3>1. i \in 1 .. Len(h)
      BY <1>4, <2>1
    <3>2. g[i] = h[i] /\ KeyBefore(g, n, i) = KeyBefore(h, k, i)
      BY <1>3, <1>4, <1>7, <3>1
    <3>3. i \in Rotations(g) <=> i \in Rotations(h)
      BY <1>4, <1>5, <3>1
    <3>4. QED  BY <1>4, <3>1, <3>2, <3>3 DEF OwnedBy
  <2>2. CASE i = r
    BY <1>2, <1>3, <1>5, <1>8, <2>2
  <2>3. QED  BY <1>4, <2>1, <2>2
<1>11. QED  BY <1>9, <1>10 DEF OwnedBy, g, c
=============================================================================
