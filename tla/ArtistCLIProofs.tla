--------------------------- MODULE ArtistCLIProofs ---------------------------
(***************************************************************************)
(* Theorems about ArtistCLI, for any sets of URLs, keys, albums and        *)
(* contents, any number of edits and any faults.                           *)
(***************************************************************************)
EXTENDS ArtistCLI, ProtocolProofs, FiniteSetTheorems

-----------------------------------------------------------------------------
\* What diff returns.

\* The image of a finite set under a function is finite.
LEMMA FiniteImage ==
  ASSUME NEW S, IsFiniteSet(S), NEW f, DOMAIN f = S
  PROVE  IsFiniteSet({f[x] : x \in S})
<1> DEFINE T == {f[x] : x \in S}
           g == [x \in S |-> f[x]]
<1>1. g \in Surjection(S, T)
  BY DEF Surjection
<1>2. QED  BY <1>1, FS_Surjection

LEMMA DiffType ==
  ASSUME NEW m \in Manifests \cup {NoFile}, NEW s \in Sources
  PROVE  diff(m, s) \subseteq SourceChanges
<1>1. OldAlbums(m) \subseteq Albums /\ Listed(s.catalog) \subseteq Albums
  <2>1. CASE m = NoFile
    BY <2>1 DEF OldAlbums, Listed, Sources
  <2>2. CASE m \in Manifests
    BY <2>2 DEF OldAlbums, Listed, Sources, Manifests
  <2>3. QED  BY <2>1, <2>2
<1>2. m # NoFile => m \in Manifests
  OBVIOUS
<1>3. \A a \in OldAlbums(m) : m.catalog[a].version \in Nat
  BY <1>2 DEF OldAlbums, Listed, Manifests, PublishedAlbum
<1>4. IdentityChanges(m, s) \cup LabelChanges(m, s) \subseteq SourceChanges
  BY DEF IdentityChanges, LabelChanges, SourceChanges
<1>5. AddedAlbums(m, s) \subseteq ReleaseAdded
  BY <1>1 DEF AddedAlbums, ReleaseAdded
<1>6. UpdatedAlbums(m, s) \subseteq ReleaseUpdated
  BY <1>1, <1>3 DEF UpdatedAlbums, ReleaseUpdated, AlbumVersion
<1>7. RemovedAlbums(m, s) \subseteq ReleaseRemoved
  BY <1>1, <1>3 DEF RemovedAlbums, ReleaseRemoved
<1>8. QED  BY <1>4, <1>5, <1>6, <1>7 DEF diff, SourceChanges, CatalogChanges

LEMMA DiffFinite ==
  ASSUME NEW m \in Manifests \cup {NoFile}, NEW s \in Sources
  PROVE  IsFiniteSet(diff(m, s))
<1>1. /\ IsFiniteSet(Albums)
      /\ OldAlbums(m) \subseteq Albums /\ Listed(s.catalog) \subseteq Albums
  <2>1. CASE m = NoFile
    BY <2>1, CLIAssumption DEF OldAlbums, Listed, Sources
  <2>2. CASE m \in Manifests
    BY <2>2, CLIAssumption DEF OldAlbums, Listed, Sources, Manifests
  <2>3. QED  BY <2>1, <2>2
<1>2. IsFiniteSet(AddedAlbums(m, s))
  <2> DEFINE S == Listed(s.catalog) \ OldAlbums(m)
             f == [a \in S |-> [type |-> "release_added", album |-> a]]
  <2>1. IsFiniteSet(S)
    BY <1>1, FS_Subset
  <2>2. AddedAlbums(m, s) = {f[a] : a \in S}
    BY DEF AddedAlbums
  <2>3. DOMAIN f = S
    OBVIOUS
  <2> HIDE DEF S, f
  <2>4. QED  BY <2>1, <2>2, <2>3, FiniteImage
<1>3. IsFiniteSet(UpdatedAlbums(m, s))
  <2> DEFINE S == {b \in OldAlbums(m) \cap Listed(s.catalog) :
                      m.catalog[b].content # s.catalog[b]}
             f == [a \in S |-> [type |-> "release_updated", album |-> a,
                                old |-> m.catalog[a].version, new |-> AlbumVersion(m, s, a)]]
  <2>1. IsFiniteSet(S)
    BY <1>1, FS_Subset
  <2>2. UpdatedAlbums(m, s) = {f[a] : a \in S}
    BY DEF UpdatedAlbums
  <2>3. DOMAIN f = S
    OBVIOUS
  <2> HIDE DEF S, f
  <2>4. QED  BY <2>1, <2>2, <2>3, FiniteImage
<1>4. IsFiniteSet(RemovedAlbums(m, s))
  <2> DEFINE S == OldAlbums(m) \ Listed(s.catalog)
             f == [a \in S |-> [type |-> "release_removed", album |-> a,
                                version |-> m.catalog[a].version]]
  <2>1. IsFiniteSet(S)
    BY <1>1, FS_Subset
  <2>2. RemovedAlbums(m, s) = {f[a] : a \in S}
    BY DEF RemovedAlbums
  <2>3. DOMAIN f = S
    OBVIOUS
  <2> HIDE DEF S, f
  <2>4. QED  BY <2>1, <2>2, <2>3, FiniteImage
<1>5. IsFiniteSet(IdentityChanges(m, s))
  <2> DEFINE T == {[type |-> "identity_updated", old |-> m.profile, new |-> s.profile]}
  <2>1. IdentityChanges(m, s) \subseteq T
    BY DEF IdentityChanges, IdentityUpdated
  <2>2. IsFiniteSet(T)
    BY FS_Singleton
  <2>3. QED  BY <2>1, <2>2, FS_Subset
<1>6. IsFiniteSet(LabelChanges(m, s))
  <2> DEFINE T == {[type |-> "split_changed", old |-> m.label, new |-> s.label]}
  <2>1. LabelChanges(m, s) \subseteq T
    BY DEF LabelChanges, SplitChanged
  <2>2. IsFiniteSet(T)
    BY FS_Singleton
  <2>3. QED  BY <2>1, <2>2, FS_Subset
<1>7. IsFiniteSet(IF m = NoFile THEN {} ELSE IdentityChanges(m, s) \cup LabelChanges(m, s))
  BY <1>5, <1>6, FS_EmptySet, FS_Union
<1>8. QED  BY <1>2, <1>3, <1>4, <1>7, FS_Union DEF diff

\* The changes that generate signs are a sequence of changes of the source, in
\* whichever of the possible orders (generate.diff).
LEMMA DiffOrdersType ==
  ASSUME NEW m \in Manifests \cup {NoFile}, NEW s \in Sources, NEW cs \in DiffOrders(m, s)
  PROVE  cs \in Seq(SourceChanges) /\ cs \in Seq(Changes)
<1>1. Cardinality(diff(m, s)) \in Nat
  BY DiffFinite, FS_CardinalityType
<1>2. cs \in [1 .. Cardinality(diff(m, s)) -> diff(m, s)]
  BY DEF DiffOrders, SetToSeqs
<1>3. /\ cs \in [1 .. Cardinality(diff(m, s)) -> SourceChanges]
      /\ cs \in [1 .. Cardinality(diff(m, s)) -> Changes]
  BY <1>2, DiffType DEF Changes
<1>4. QED  BY <1>1, <1>3, SeqByIndex

\* The manifest that generate builds has the shape of a manifest (generate.go:131-157).
LEMMA GeneratedManifestType ==
  ASSUME NEW m \in Manifests \cup {NoFile}, NEW s \in Sources, NEW k \in Keys,
         NEW h \in Seq(Entries)
  PROVE  GeneratedManifest(m, s, k, h) \in Manifests
<1>1. m # NoFile => m \in Manifests
  OBVIOUS
<1>2. \A a \in OldAlbums(m) : m.catalog[a].version \in Nat
  BY <1>1 DEF OldAlbums, Listed, Manifests, PublishedAlbum
<1>3. \A a \in Albums : AlbumVersion(m, s, a) \in Nat
  BY <1>2 DEF AlbumVersion
<1> DEFINE c == [a \in Albums |->
                  IF s.catalog[a] = Unlisted THEN Unlisted
                  ELSE [content |-> s.catalog[a], version |-> AlbumVersion(m, s, a)]]
<1>4. c \in [Albums -> PublishedAlbum \cup {Unlisted}]
  BY <1>3 DEF Sources, PublishedAlbum
<1>5. HeadHash(h) \in Digests
  BY HashType
<1> HIDE DEF c
<1>6. [url |-> s.url, type |-> s.type, key |-> k, profile |-> s.profile, label |-> s.label,
       extra |-> s.extra, catalog |-> c, head |-> HeadHash(h), signer |-> k] \in Manifests
  BY <1>4, <1>5 DEF Sources, Manifests
<1>7. QED  BY <1>6 DEF GeneratedManifest, c

-----------------------------------------------------------------------------
\* Type correctness.

\* What a running command holds: its key from the start, the new manifest and
\* log from Build or Rotate on.  TypeOK alone is not inductive: Build signs with
\* the key in memory, and TypeOK admits that there is none.
WorkOK ==
  /\ pc # "idle" => work.url \in Urls /\ work.key \in Keys
  /\ Saving \/ (pc # "idle" /\ cmd = "rotate") =>
       work.manifest \in Manifests /\ work.history \in Seq(Entries)

TypeInv == TypeOK /\ WorkOK

LEMMA TypeInit == Init => TypeInv
<1> SUFFICES ASSUME Init PROVE TypeInv
  OBVIOUS
<1>1. TypeOK
  BY CLIAssumption DEF Init, TypeOK, FileOf, NoWork
<1>2. WorkOK
  BY DEF Init, WorkOK, Saving
<1>3. QED  BY <1>1, <1>2 DEF TypeInv

\* What a readable file holds.
LEMMA ReadableType ==
  ASSUME TypeOK
  PROVE  /\ Readable(manifestFile) => manifestFile \in Manifests
         /\ Readable(historyFile) => historyFile \in Seq(Entries)
  BY DEF TypeOK, FileOf, Readable

\* The log and the manifest that generate builds are a log and a manifest.
LEMMA BuildType ==
  ASSUME TypeInv, Build
  PROVE  /\ work'.manifest \in Manifests /\ work'.history \in Seq(Entries)
         /\ work'.url = work.url /\ work'.key = work.key
         /\ work' \in [url : Urls \cup {NoFile}, key : Keys \cup {NoFile},
                       manifest : Manifests \cup {NoFile}, history : Seq(Entries) \cup {NoFile}]
<1>1. work.key \in Keys /\ source \in Sources
  BY DEF TypeInv, WorkOK, TypeOK, Build
<1>2. manifestFile \in Manifests \cup {NoFile} /\ PreviousHistory \in Seq(Entries)
  <2>1. CASE manifestFile = NoFile
    BY <2>1, EmptySeq DEF PreviousHistory
  <2>2. CASE manifestFile # NoFile
    BY <2>2, ReadableType DEF TypeInv, Build, CannotLoad, PreviousHistory
  <2>3. QED  BY <2>1, <2>2
<1>3. PICK cs \in DiffOrders(manifestFile, source) :
        work' = [work EXCEPT
                   !.manifest = GeneratedManifest(manifestFile, source, work.key,
                                                  Chain(PreviousHistory, cs, work.key)),
                   !.history = Chain(PreviousHistory, cs, work.key)]
  BY DEF Build
<1> DEFINE h == Chain(PreviousHistory, cs, work.key)
           m == GeneratedManifest(manifestFile, source, work.key, h)
<1>4. cs \in Seq(Changes)
  BY <1>1, <1>2, DiffOrdersType
<1>5. h \in Seq(Entries)
  BY <1>1, <1>2, <1>4, ChainType
<1>6. m \in Manifests
  BY <1>1, <1>2, <1>5, GeneratedManifestType
<1> HIDE DEF h, m
<1>7. work' = [work EXCEPT !.manifest = m, !.history = h]
  BY <1>3 DEF h, m
<1>8. QED  BY <1>5, <1>6, <1>7 DEF TypeInv, TypeOK

\* The log and the manifest that a rotation builds are a log and a manifest.
LEMMA RotateType ==
  ASSUME TypeInv, Rotate
  PROVE  /\ work' \in [url : Urls, key : Keys, manifest : Manifests, history : Seq(Entries)]
         /\ issued' \subseteq Keys
<1>1. manifestFile \in Manifests /\ historyFile \in Seq(Entries) /\ issued \subseteq Keys
  BY ReadableType DEF Rotate, CanRotate, TypeInv, TypeOK
<1> DEFINE rotated(k) == [type |-> "key_rotated", old |-> manifestFile.key, new |-> k]
           h(k) == Chain(historyFile, <<rotated(k)>>, manifestFile.key)
           m(k) == [manifestFile EXCEPT !.key = k, !.head = HeadHash(h(k)), !.signer = k]
<1>2. PICK k \in Keys :
        /\ issued' = issued \cup {k}
        /\ work' = [url |-> manifestFile.url, key |-> k, manifest |-> m(k), history |-> h(k)]
  BY DEF Rotate, Begin
<1>3. manifestFile.key \in Keys /\ manifestFile.url \in Urls
  BY <1>1 DEF Manifests
<1>4. rotated(k) \in Changes
  BY <1>3 DEF Changes, KeyRotated
<1>5. <<rotated(k)>> \in Seq(Changes)
  BY <1>4
<1> HIDE DEF rotated
<1>6. h(k) \in Seq(Entries)
  BY <1>1, <1>3, <1>5, ChainType
<1> HIDE DEF h
<1>7. HeadHash(h(k)) \in Digests
  BY <1>6, HashType
<1>8. m(k) \in Manifests
  BY <1>1, <1>7 DEF Manifests
<1> HIDE DEF m
<1>9. QED  BY <1>1, <1>2, <1>3, <1>6, <1>8

LEMMA TypeStep == TypeInv /\ [Next]_vars => TypeInv'
<1> SUFFICES ASSUME TypeInv, [Next]_vars PROVE TypeInv'
  OBVIOUS
<1> USE DEF TypeInv, TypeOK, WorkOK, Saving, FileOf, files
<1>1. ASSUME NEW u \in Urls, Keygen(u) PROVE TypeInv'
  BY <1>1, CLIAssumption DEF Keygen, FreshKey, Begin, NoWork
<1>2. ASSUME NEW c \in {"keygen", "generate", "rotate"}, Refuse(c) PROVE TypeInv'
  BY <1>2, CLIAssumption DEF Refuse, Return, NoWork
<1>3. CASE GenerateWithKey
  <2>1. source.url \in Urls /\ keyFile[Slug[source.url]] \in Keys
    BY <1>3 DEF GenerateWithKey, Sources
  <2>2. QED  BY <1>3, <2>1, CLIAssumption DEF GenerateWithKey, Begin, NoWork
<1>4. CASE GenerateNewKey
  <2>1. source.url \in Urls
    BY DEF Sources
  <2>2. QED  BY <1>4, <2>1, CLIAssumption DEF GenerateNewKey, FreshKey, Begin, NoWork
<1>5. CASE Build
  <2>1. /\ pc = "load" /\ pc' = "saveManifest"
        /\ UNCHANGED <<source, files, cmd, exit, issued, edits, incidents>>
    BY <1>5 DEF Build
  <2>2. QED  BY <1>5, <2>1, BuildType
<1>6. CASE BuildRefused
  BY <1>6 DEF BuildRefused, Return, NoWork
<1>7. CASE Rotate
  <2>1. /\ cmd' = "rotate" /\ pc' = "saveKey" /\ exit' = "none"
        /\ UNCHANGED <<source, files, edits, incidents>>
    BY <1>7 DEF Rotate, Begin
  <2>2. QED  BY <1>7, <2>1, RotateType
<1>8. CASE TruncateKey
  BY <1>8 DEF TruncateKey
<1>9. CASE FillKey
  <2>1. /\ keyFile' \in [Slugs -> Keys \cup {NoFile, Torn}]
        /\ UNCHANGED <<source, manifestFile, historyFile, cmd, issued, edits, incidents>>
    BY <1>9 DEF FillKey
  <2>2. CASE cmd = "keygen" /\ Return("ok")
    BY <2>1, <2>2 DEF Return, NoWork
  <2>3. CASE cmd = "generate" /\ pc' = "load" /\ UNCHANGED <<work, exit>>
    BY <1>9, <2>1, <2>3 DEF FillKey
  <2>4. CASE cmd = "rotate" /\ pc' = "saveManifest" /\ UNCHANGED <<work, exit>>
    BY <1>9, <2>1, <2>4 DEF FillKey
  <2>5. QED  BY <1>9, <2>2, <2>3, <2>4 DEF FillKey
<1>10. CASE TruncateManifest
  BY <1>10 DEF TruncateManifest
<1>11. CASE FillManifest
  BY <1>11 DEF FillManifest
<1>12. CASE TruncateHistory
  BY <1>12 DEF TruncateHistory
<1>13. CASE FillHistory
  BY <1>13 DEF FillHistory, Return, NoWork
<1>14. ASSUME NEW s \in Sources, EditSource(s) PROVE TypeInv'
  BY <1>14, CLIAssumption DEF EditSource
<1>15. ASSUME NEW f \in Slugs, LoseKey(f) PROVE TypeInv'
  BY <1>15 DEF LoseKey, Incident
<1>16. CASE Crash
  BY <1>16 DEF Crash, Incident, Return, NoWork
<1>17. CASE LoseManifest
  BY <1>17 DEF LoseManifest, Incident
<1>18. CASE UNCHANGED vars
  BY <1>18 DEF vars
<1>19. QED
  BY <1>1, <1>2, <1>3, <1>4, <1>5, <1>6, <1>7, <1>8, <1>9, <1>10, <1>11, <1>12,
     <1>13, <1>14, <1>15, <1>16, <1>17, <1>18
     DEF Next, Command, Write, Environment, KeygenRefused, GenerateRefused, RotateRefused

\* Every variable keeps its type, whatever the faults (ArtistCLI!TypeOK).
THEOREM TypeCorrect == Spec => []TypeOK
<1>1. TypeInv => TypeOK
  BY DEF TypeInv
<1>2. QED  BY <1>1, TypeInit, TypeStep, PTL DEF Spec

-----------------------------------------------------------------------------
\* The logs on the disk and in memory are sound.

\* Chaining keeps a log sound if the rotations among the new entries are signed
\* by the key they retire.
LEMMA ChainSound ==
  ASSUME NEW h \in Seq(Entries), NEW cs \in Seq(Changes), NEW k \in Keys,
         SoundLog(h),
         \A j \in 1 .. Len(cs) : cs[j].type = "key_rotated" => cs[j].old = k
  PROVE  SoundLog(Chain(h, cs, k))
<1> DEFINE g == Chain(h, cs, k)
<1>1. VerifyChain(g)
  BY ChainVerifies DEF SoundLog
<1>2. /\ Len(h) \in Nat /\ Len(cs) \in Nat
      /\ DOMAIN h = 1 .. Len(h) /\ DOMAIN g = 1 .. Len(h) + Len(cs)
  BY ChainType, LenProperties
<1>3. \A i \in 1 .. Len(h) : g[i] = h[i]
  BY ChainType
<1>4. ASSUME NEW j \in 1 .. Len(cs)
      PROVE  g[Len(h) + j].data = cs[j] /\ g[Len(h) + j].signer = k
  <2>1. g[Len(h) + j] = [data |-> cs[j], signer |-> k,
                         prev |-> HeadHash(h) \o SubSeq(SignedBy(cs, k), 1, j - 1)]
    BY ChainType
  <2>2. QED  BY <2>1
<1> HIDE DEF g
<1>5. ASSUME NEW i \in Rotations(g)
      PROVE  g[i].signer = g[i].data.old
  <2>1. i \in 1 .. Len(h) + Len(cs) /\ g[i].data.type = "key_rotated"
    BY <1>2 DEF Rotations
  <2>2. CASE i \in 1 .. Len(h)
    BY <1>2, <1>3, <2>1, <2>2 DEF SoundLog, Rotations
  <2>3. CASE i \notin 1 .. Len(h)
    <3>1. Len(h) \in Nat /\ Len(cs) \in Nat /\ i \in 1 .. Len(h) + Len(cs)
      BY <1>2, <2>1
    <3>2. i - Len(h) \in 1 .. Len(cs) /\ i = Len(h) + (i - Len(h))
      BY <2>3, <3>1
    <3>3. PICK j \in 1 .. Len(cs) : i = Len(h) + j
      BY <3>2
    <3>4. QED  BY <1>4, <2>1, <3>3
  <2>4. QED  BY <2>2, <2>3
<1>6. QED  BY <1>1, <1>5 DEF SoundLog, g

LEMMA EmptyLogSound == SoundLog(<<>>)
  BY DEF SoundLog, VerifyChain, Rotations

\* The inductive form of ReadableLogIsChain: the log that a command holds in
\* memory, and is going to write, is sound as well.
LogInv == ReadableLogIsChain /\ (work.history # NoFile => SoundLog(work.history))

LEMMA LogInit == Init => LogInv
  BY DEF Init, LogInv, ReadableLogIsChain, Readable, NoWork

LEMMA BuildSound ==
  ASSUME TypeInv, LogInv, Build
  PROVE  SoundLog(work'.history)
<1>1. work.key \in Keys /\ source \in Sources
  BY DEF TypeInv, WorkOK, TypeOK, Build
<1>2. /\ manifestFile \in Manifests \cup {NoFile}
      /\ PreviousHistory \in Seq(Entries) /\ SoundLog(PreviousHistory)
  <2>1. CASE manifestFile = NoFile
    BY <2>1, EmptySeq, EmptyLogSound DEF PreviousHistory
  <2>2. CASE manifestFile # NoFile
    BY <2>2, ReadableType
       DEF TypeInv, Build, CannotLoad, PreviousHistory, LogInv, ReadableLogIsChain
  <2>3. QED  BY <2>1, <2>2
<1>3. PICK cs \in DiffOrders(manifestFile, source) :
        work' = [work EXCEPT
                   !.manifest = GeneratedManifest(manifestFile, source, work.key,
                                                  Chain(PreviousHistory, cs, work.key)),
                   !.history = Chain(PreviousHistory, cs, work.key)]
  BY DEF Build
<1>4. cs \in Seq(SourceChanges) /\ cs \in Seq(Changes)
  BY <1>1, <1>2, DiffOrdersType
<1>5. \A j \in 1 .. Len(cs) : cs[j].type # "key_rotated"
  <2>1. \A c \in SourceChanges : c.type # "key_rotated"
    BY DEF SourceChanges, IdentityUpdated, SplitChanged, CatalogChanges,
           ReleaseAdded, ReleaseUpdated, ReleaseRemoved
  <2>2. QED  BY <1>4, <2>1, ElementOfSeq
<1>6. SoundLog(Chain(PreviousHistory, cs, work.key))
  BY <1>1, <1>2, <1>4, <1>5, ChainSound
<1>7. work'.history = Chain(PreviousHistory, cs, work.key)
  BY <1>3 DEF TypeInv, TypeOK
<1>8. QED  BY <1>6, <1>7

LEMMA RotateSound ==
  ASSUME TypeInv, LogInv, Rotate
  PROVE  SoundLog(work'.history)
<1>1. manifestFile \in Manifests /\ historyFile \in Seq(Entries) /\ SoundLog(historyFile)
  BY ReadableType DEF Rotate, CanRotate, TypeInv, LogInv, ReadableLogIsChain
<1>2. manifestFile.key \in Keys
  BY <1>1 DEF Manifests
<1>3. PICK k \in Keys :
        work'.history =
          Chain(historyFile, <<[type |-> "key_rotated", old |-> manifestFile.key, new |-> k]>>,
                manifestFile.key)
  BY DEF Rotate, Begin
<1> DEFINE rotated == [type |-> "key_rotated", old |-> manifestFile.key, new |-> k]
<1>4. rotated \in Changes /\ rotated.old = manifestFile.key
  BY <1>2 DEF Changes, KeyRotated
<1> HIDE DEF rotated
<1> DEFINE cs == <<rotated>>
<1>5. cs \in Seq(Changes) /\ \A j \in 1 .. Len(cs) : cs[j] = rotated
  BY <1>4
<1> HIDE DEF cs
<1>6. SoundLog(Chain(historyFile, cs, manifestFile.key))
  BY <1>1, <1>2, <1>4, <1>5, ChainSound
<1>7. QED  BY <1>3, <1>6 DEF rotated, cs

LEMMA LogStep == TypeInv /\ LogInv /\ [Next]_vars => LogInv'
<1> SUFFICES ASSUME TypeInv, LogInv, [Next]_vars PROVE LogInv'
  OBVIOUS
<1> USE DEF LogInv, ReadableLogIsChain, Readable, files
<1>1. CASE Build
  BY <1>1, BuildSound DEF Build
<1>2. CASE Rotate
  BY <1>2, RotateSound DEF Rotate, Begin
<1>3. CASE FillHistory
  BY <1>3 DEF FillHistory, Return, NoWork, TypeInv, WorkOK, Saving
<1>4. CASE TruncateHistory
  BY <1>4 DEF TruncateHistory
<1>5. ASSUME NEW u \in Urls, Keygen(u) PROVE LogInv'
  BY <1>5 DEF Keygen, Begin, NoWork
<1>6. ASSUME NEW c \in {"keygen", "generate", "rotate"}, Refuse(c) PROVE LogInv'
  BY <1>6 DEF Refuse, Return, NoWork
<1>7. CASE GenerateWithKey \/ GenerateNewKey
  BY <1>7 DEF GenerateWithKey, GenerateNewKey, Begin, NoWork
<1>8. CASE BuildRefused \/ Crash
  BY <1>8 DEF BuildRefused, Crash, Return, NoWork
<1>9. CASE FillKey
  BY <1>9 DEF FillKey, Return, NoWork
<1>10. CASE TruncateKey \/ TruncateManifest \/ FillManifest
  BY <1>10 DEF TruncateKey, TruncateManifest, FillManifest
<1>11. ASSUME NEW s \in Sources, EditSource(s) PROVE LogInv'
  BY <1>11 DEF EditSource
<1>12. ASSUME NEW f \in Slugs, LoseKey(f) PROVE LogInv'
  BY <1>12 DEF LoseKey
<1>13. CASE LoseManifest
  BY <1>13 DEF LoseManifest
<1>14. CASE UNCHANGED vars
  BY <1>14 DEF vars
<1>15. QED
  BY <1>1, <1>2, <1>3, <1>4, <1>5, <1>6, <1>7, <1>8, <1>9, <1>10, <1>11, <1>12,
     <1>13, <1>14
     DEF Next, Command, Write, Environment, KeygenRefused, GenerateRefused, RotateRefused

\* A log that can be read is an unbroken chain whose rotations are signed by the
\* keys they retire, after any crashes and losses (ArtistCLI!ReadableLogIsChain).
THEOREM LogIsChain == Spec => []ReadableLogIsChain
<1>1. LogInv => ReadableLogIsChain
  BY DEF LogInv
<1>2. QED  BY <1>1, TypeInit, TypeStep, LogInit, LogStep, PTL DEF Spec

-----------------------------------------------------------------------------
\* A command that reports success has bound its two files to each other.

Bound(m, h) == CheckSignature(m) /\ m.head = HeadHash(h)

\* The inductive form of SuccessBindsPair: the pair is bound in memory before the
\* first of its files is written, and the manifest is on the disk before the log.
BindInv ==
  /\ Saving \/ (pc # "idle" /\ cmd = "rotate") => Bound(work.manifest, work.history)
  /\ pc \in {"saveHistory", "fillHistory"} => manifestFile = work.manifest
  /\ Succeeded => AtRest /\ Bound(manifestFile, historyFile)

LEMMA BindInit == Init => BindInv
  BY DEF Init, BindInv, Saving, Succeeded

LEMMA BuildBinds ==
  ASSUME TypeInv, Build
  PROVE  Bound(work'.manifest, work'.history)
<1>1. PICK cs \in DiffOrders(manifestFile, source) :
        work' = [work EXCEPT
                   !.manifest = GeneratedManifest(manifestFile, source, work.key,
                                                  Chain(PreviousHistory, cs, work.key)),
                   !.history = Chain(PreviousHistory, cs, work.key)]
  BY DEF Build
<1> DEFINE h == Chain(PreviousHistory, cs, work.key)
           m == GeneratedManifest(manifestFile, source, work.key, h)
<1>2. m.key = work.key /\ m.signer = work.key /\ m.head = HeadHash(h)
  BY DEF GeneratedManifest
<1> HIDE DEF h, m
<1>3. work' = [work EXCEPT !.manifest = m, !.history = h]
  BY <1>1 DEF h, m
<1>4. QED  BY <1>2, <1>3 DEF TypeInv, TypeOK, Bound, CheckSignature

LEMMA RotateBinds ==
  ASSUME TypeInv, Rotate
  PROVE  Bound(work'.manifest, work'.history)
<1>1. manifestFile \in Manifests
  BY ReadableType DEF Rotate, CanRotate, TypeInv
<1>2. PICK k, h :
        work' = [url |-> manifestFile.url, key |-> k,
                 manifest |-> [manifestFile EXCEPT !.key = k, !.head = HeadHash(h), !.signer = k],
                 history |-> h]
  BY DEF Rotate, Begin
<1>3. QED  BY <1>1, <1>2 DEF Manifests, Bound, CheckSignature

\* What is readable: every value of the right type.
LEMMA TypedIsReadable ==
  /\ \A m \in Manifests : Readable(m)
  /\ \A h \in Seq(Entries) : Readable(h)
  BY CLIAssumption DEF Readable

LEMMA BindStep == TypeInv /\ BindInv /\ [Next]_vars => BindInv'
<1> SUFFICES ASSUME TypeInv, BindInv, [Next]_vars PROVE BindInv'
  OBVIOUS
<1> USE DEF BindInv, Succeeded, AtRest, Saving, files
<1>1. CASE Build
  BY <1>1, BuildBinds DEF Build
<1>2. CASE Rotate
  BY <1>2, RotateBinds DEF Rotate, Begin
<1>3. CASE FillHistory
  BY <1>3, TypedIsReadable DEF FillHistory, Return, TypeInv, WorkOK
<1>4. CASE TruncateHistory
  BY <1>4 DEF TruncateHistory
<1>5. CASE FillManifest
  BY <1>5 DEF FillManifest
<1>6. CASE TruncateManifest
  BY <1>6 DEF TruncateManifest
<1>7. CASE FillKey
  BY <1>7 DEF FillKey, Return
<1>8. CASE TruncateKey
  BY <1>8 DEF TruncateKey
<1>9. ASSUME NEW u \in Urls, Keygen(u) PROVE BindInv'
  BY <1>9 DEF Keygen, Begin
<1>10. ASSUME NEW c \in {"keygen", "generate", "rotate"}, Refuse(c) PROVE BindInv'
  BY <1>10 DEF Refuse, Return
<1>11. CASE GenerateWithKey \/ GenerateNewKey
  BY <1>11 DEF GenerateWithKey, GenerateNewKey, Begin
<1>12. CASE BuildRefused \/ Crash
  BY <1>12 DEF BuildRefused, Crash, Return
<1>13. ASSUME NEW s \in Sources, EditSource(s) PROVE BindInv'
  BY <1>13 DEF EditSource
<1>14. ASSUME NEW f \in Slugs, LoseKey(f) PROVE BindInv'
  BY <1>14 DEF LoseKey
<1>15. CASE LoseManifest
  BY <1>15 DEF LoseManifest
<1>16. CASE UNCHANGED vars
  BY <1>16 DEF vars
<1>17. QED
  BY <1>1, <1>2, <1>3, <1>4, <1>5, <1>6, <1>7, <1>8, <1>9, <1>10, <1>11, <1>12,
     <1>13, <1>14, <1>15, <1>16
     DEF Next, Command, Write, Environment, KeygenRefused, GenerateRefused, RotateRefused

\* generate and keygen --rotate report success only over a manifest that is
\* signed under its own key and bound to the log beside it, after any crashes and
\* losses (ArtistCLI!SuccessBindsPair).
THEOREM SuccessIsBound == Spec => []SuccessBindsPair
<1>1. LogInv /\ BindInv => SuccessBindsPair
  BY DEF LogInv, ReadableLogIsChain, SoundLog, BindInv, Bound, SuccessBindsPair, AtRest
<1>2. QED  BY <1>1, TypeInit, TypeStep, LogInit, LogStep, BindInit, BindStep, PTL DEF Spec

-----------------------------------------------------------------------------
\* The log on the disk is only extended.

LEMMA ChainExtends ==
  ASSUME NEW h \in Seq(Entries), NEW cs \in Seq(Changes), NEW k \in Keys
  PROVE  IsPrefix(h, Chain(h, cs, k))
<1> DEFINE g == Chain(h, cs, k)
<1>1. /\ g \in Seq(Entries) /\ Len(g) = Len(h) + Len(cs)
      /\ Len(h) \in Nat /\ Len(cs) \in Nat
      /\ \A i \in 1 .. Len(h) : g[i] = h[i]
  BY ChainType, LenProperties
<1> HIDE DEF g
<1>2. Len(h) <= Len(g)
  BY <1>1
<1>3. SubSeq(h, 1, Len(h)) = SubSeq(g, 1, Len(h))
  BY <1>1
<1>4. QED  BY <1>2, <1>3 DEF IsPrefix, g

\* The inductive form of LogOnlyGrows: no manifest, no log; and a log in memory
\* extends the one that it is going to replace.
Growing ==
  /\ manifestFile = NoFile => historyFile = NoFile
  /\ pc \in {"fillManifest", "saveHistory", "fillHistory"} => manifestFile # NoFile
  /\ Saving \/ (pc # "idle" /\ cmd = "rotate") =>
       (Readable(historyFile) => IsPrefix(historyFile, work.history))

GrowInv == "manifestLoss" \notin incidents => Growing

LEMMA GrowInit == Init => GrowInv
  BY DEF Init, GrowInv, Growing, Saving

LEMMA BuildExtends ==
  ASSUME TypeInv, Growing, Build, Readable(historyFile)
  PROVE  IsPrefix(historyFile, work'.history)
<1>1. work.key \in Keys /\ source \in Sources
  BY DEF TypeInv, WorkOK, TypeOK, Build
<1>2. /\ manifestFile \in Manifests \cup {NoFile}
      /\ PreviousHistory = historyFile /\ historyFile \in Seq(Entries)
  BY ReadableType DEF TypeInv, Build, CannotLoad, PreviousHistory, Growing, Readable
<1>3. PICK cs \in DiffOrders(manifestFile, source) :
        work' = [work EXCEPT
                   !.manifest = GeneratedManifest(manifestFile, source, work.key,
                                                  Chain(PreviousHistory, cs, work.key)),
                   !.history = Chain(PreviousHistory, cs, work.key)]
  BY DEF Build
<1>4. cs \in Seq(Changes)
  BY <1>1, <1>2, DiffOrdersType
<1>5. work'.history = Chain(historyFile, cs, work.key)
  BY <1>2, <1>3 DEF TypeInv, TypeOK
<1>6. QED  BY <1>1, <1>2, <1>4, <1>5, ChainExtends

LEMMA RotateExtends ==
  ASSUME TypeInv, Rotate
  PROVE  IsPrefix(historyFile, work'.history)
<1>1. manifestFile \in Manifests /\ historyFile \in Seq(Entries)
  BY ReadableType DEF Rotate, CanRotate, TypeInv
<1>2. manifestFile.key \in Keys
  BY <1>1 DEF Manifests
<1>3. PICK k \in Keys :
        work'.history =
          Chain(historyFile, <<[type |-> "key_rotated", old |-> manifestFile.key, new |-> k]>>,
                manifestFile.key)
  BY DEF Rotate, Begin
<1> DEFINE rotated == [type |-> "key_rotated", old |-> manifestFile.key, new |-> k]
           cs == <<rotated>>
<1>4. rotated \in Changes
  BY <1>2 DEF Changes, KeyRotated
<1> HIDE DEF rotated
<1>5. cs \in Seq(Changes)
  BY <1>4
<1> HIDE DEF cs
<1>6. IsPrefix(historyFile, Chain(historyFile, cs, manifestFile.key))
  BY <1>1, <1>2, <1>5, ChainExtends
<1>7. QED  BY <1>3, <1>6 DEF rotated, cs

LEMMA IncidentsStay == [Next]_vars => incidents \subseteq incidents'
BY DEF Next, Command, Write, Environment, vars, Keygen, KeygenRefused, Refuse, Begin,
       GenerateWithKey, GenerateNewKey, GenerateRefused, Build, BuildRefused, Rotate,
       RotateRefused, TruncateKey, FillKey, TruncateManifest, FillManifest,
       TruncateHistory, FillHistory, EditSource, LoseKey, LoseManifest, Crash, Incident

LEMMA GrowStep == TypeInv /\ GrowInv /\ [Next]_vars => GrowInv'
<1> SUFFICES ASSUME TypeInv, GrowInv, [Next]_vars, "manifestLoss" \notin incidents'
             PROVE  Growing'
  BY DEF GrowInv
<1>0. Growing
  BY IncidentsStay DEF GrowInv
<1> USE <1>0 DEF Growing, Saving, files
<1>1. CASE Build
  BY <1>1, BuildExtends DEF Build
<1>2. CASE Rotate
  BY <1>2, RotateExtends DEF Rotate, Begin
<1>3. CASE FillHistory
  BY <1>3 DEF FillHistory, Return
<1>4. CASE TruncateHistory
  BY <1>4 DEF TruncateHistory, Readable
<1>5. CASE FillManifest
  BY <1>5, TypedIsReadable DEF FillManifest, TypeInv, WorkOK, Readable
<1>6. CASE TruncateManifest
  BY <1>6, CLIAssumption DEF TruncateManifest
<1>7. CASE FillKey
  BY <1>7 DEF FillKey, Return
<1>8. CASE TruncateKey
  BY <1>8 DEF TruncateKey
<1>9. ASSUME NEW u \in Urls, Keygen(u) PROVE Growing'
  BY <1>9 DEF Keygen, Begin
<1>10. ASSUME NEW c \in {"keygen", "generate", "rotate"}, Refuse(c) PROVE Growing'
  BY <1>10 DEF Refuse, Return
<1>11. CASE GenerateWithKey \/ GenerateNewKey
  BY <1>11 DEF GenerateWithKey, GenerateNewKey, Begin
<1>12. CASE BuildRefused \/ Crash
  BY <1>12 DEF BuildRefused, Crash, Return
<1>13. ASSUME NEW s \in Sources, EditSource(s) PROVE Growing'
  BY <1>13 DEF EditSource
<1>14. ASSUME NEW f \in Slugs, LoseKey(f) PROVE Growing'
  BY <1>14 DEF LoseKey
<1>15. ~LoseManifest
  BY DEF LoseManifest, Incident
<1>16. CASE UNCHANGED vars
  BY <1>16 DEF vars
<1>17. QED
  BY <1>1, <1>2, <1>3, <1>4, <1>5, <1>6, <1>7, <1>8, <1>9, <1>10, <1>11, <1>12,
     <1>13, <1>14, <1>15, <1>16
     DEF Next, Command, Write, Environment, KeygenRefused, GenerateRefused, RotateRefused

\* As long as nobody has removed manifest.json, a log is only ever replaced by one
\* that extends it, after any crashes and lost keys (ArtistCLI!LogOnlyGrows).
THEOREM LogGrows == Spec => []LogOnlyGrows
<1>1. GrowInv => LogOnlyGrows
  BY DEF GrowInv, Growing, LogOnlyGrows
<1>2. QED  BY <1>1, TypeInit, TypeStep, GrowInit, GrowStep, PTL DEF Spec
=============================================================================
