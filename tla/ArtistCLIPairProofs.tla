------------------------- MODULE ArtistCLIPairProofs -------------------------
(***************************************************************************)
(* Theorems about the pair of manifest and log that ArtistCLI keeps when   *)
(* nothing goes wrong: the validator accepts it, its key is at hand, the   *)
(* log accounts for the catalog, and the tool implements SignedLog.  For   *)
(* any sets of URLs, keys, albums and contents and any number of edits.    *)
(***************************************************************************)
EXTENDS ArtistCLIProofs

-----------------------------------------------------------------------------
\* The validator accepts the pair.

\* What the tool sees to in a manifest.
GoodFields(m) ==
  /\ m.type = "artist" => Listed(m.catalog) # {}
  /\ CheckImages(m) /\ CheckUniqueIDs(m) /\ CheckSignature(m)

\* A manifest and the log that it is bound to, which the validator rejects only for what
\* it finds in the source.
GoodPair(m, h) ==
  /\ m \in Manifests /\ h \in Seq(Entries)
  /\ GoodFields(m) /\ VerifyChain(h) /\ m.head = HeadHash(h) /\ OwnedBy(h, m.key)

Writing(c) == pc \in {"saveKey", "fillKey"} /\ cmd = c

\* The pair on the disk, as long as nobody rewrites it.
PairOnDisk ==
  ~Saving =>
    \/ manifestFile = NoFile /\ historyFile = NoFile
    \/ /\ GoodPair(manifestFile, historyFile) /\ manifestFile.url = source.url
       /\ keyFile[Slug[source.url]] = manifestFile.key \/ Writing("rotate")

\* The pair in memory, from where it is built on.
PairInMemory ==
  /\ Saving \/ Writing("rotate") =>
       GoodPair(work.manifest, work.history) /\ work.manifest.url = source.url
  /\ Saving => keyFile[Slug[source.url]] = work.manifest.key
  /\ Writing("rotate") => work.url = source.url /\ work.key = work.manifest.key

\* The key that is being written is not that of a pair, and generate has it before it
\* goes on.
KeyInHand ==
  /\ Writing("generate") => manifestFile = NoFile /\ work.url = source.url /\ validateSource(source)
  /\ Writing("keygen") /\ manifestFile # NoFile => Slug[work.url] # Slug[source.url]
  /\ pc = "load" =>
       /\ work.url = source.url /\ validateSource(source)
       /\ keyFile[Slug[source.url]] = work.key
  /\ pc # "idle" => cmd # "none"

CleanInv == incidents = {} => PairOnDisk /\ PairInMemory /\ KeyInHand

LEMMA GoodPairValidates ==
  ASSUME NEW m, NEW h, GoodPair(m, h)
  PROVE  Validates(m, h) <=> SourceInOrder(m)
<1>1. CheckHistory(m, h)
  BY DEF GoodPair, OwnedBy, CheckHistory, CheckKeyRotationChain
<1>2. CheckRequiredFields(m) <=>
        /\ m.extra \notin Fails["version"]
        /\ \A a \in Listed(m.catalog) : Tracks[ContentOf(m)[a]] # {}
  BY DEF GoodPair, GoodFields, CheckRequiredFields
<1>3. QED  BY <1>1, <1>2 DEF GoodPair, GoodFields, Validates, SourceInOrder

LEMMA UrlAtHand ==
  ASSUME TypeInv
  PROVE  /\ source.url \in Urls /\ Slug[source.url] \in Slugs
         /\ \A u \in Urls : Slug[u] \in Slugs
BY CLIAssumption DEF TypeInv, TypeOK, Sources, Slugs

LEMMA VersionType ==
  ASSUME NEW m \in Manifests \cup {NoFile}, NEW s \in Sources, NEW a \in Albums
  PROVE  AlbumVersion(m, s, a) \in Nat
<1>1. CASE a \notin OldAlbums(m)
  BY <1>1 DEF AlbumVersion
<1>2. CASE a \in OldAlbums(m)
  <2>1. m.catalog[a] \in PublishedAlbum
    BY <1>2 DEF OldAlbums, Listed, Manifests
  <2>2. QED  BY <2>1 DEF AlbumVersion, PublishedAlbum
<1>3. QED  BY <1>1, <1>2

\* The contents of the manifest that is built are those of the source.
LEMMA ContentKept ==
  ASSUME NEW p \in Manifests \cup {NoFile}, NEW s \in Sources, NEW m,
         m.catalog = [a \in Albums |->
                        IF s.catalog[a] = Unlisted THEN Unlisted
                        ELSE [content |-> s.catalog[a], version |-> AlbumVersion(p, s, a)]]
  PROVE  ContentOf(m) = s.catalog
<1>1. s.catalog \in [Albums -> Contents \cup {Unlisted}]
  BY DEF Sources
<1>2. ASSUME NEW a \in Albums, s.catalog[a] # Unlisted
      PROVE  m.catalog[a] # Unlisted /\ m.catalog[a].content = s.catalog[a]
  <2>1. m.catalog[a] = [content |-> s.catalog[a], version |-> AlbumVersion(p, s, a)]
    BY <1>2
  <2>2. m.catalog[a] \in PublishedAlbum
    BY <1>1, <1>2, <2>1, VersionType DEF PublishedAlbum
  <2>3. QED  BY <2>1, <2>2, UnlistedAssumption
<1>3. \A a \in Albums : ContentOf(m)[a] = s.catalog[a]
  BY <1>2 DEF ContentOf
<1>4. ContentOf(m) \in [Albums -> Contents \cup {Unlisted}]
  BY <1>1, <1>3 DEF ContentOf
<1>5. QED  BY <1>1, <1>3, <1>4

\* What generate builds from a good pair, or from none, is a good pair.
LEMMA BuildGood ==
  ASSUME TypeInv, Build, PairOnDisk, KeyInHand
  PROVE  /\ GoodPair(work'.manifest, work'.history)
         /\ work'.manifest.url = source.url /\ work'.manifest.key = work.key
<1>1. /\ pc = "load" /\ ~CannotLoad /\ validateSource(source)
      /\ keyFile[Slug[source.url]] = work.key /\ work.key \in Keys /\ source \in Sources
  BY DEF Build, KeyInHand, TypeInv, TypeOK, WorkOK
<1>2. PICK cs \in DiffOrders(manifestFile, source) :
        work' = [work EXCEPT
                   !.manifest = GeneratedManifest(manifestFile, source, work.key,
                                                  Chain(PreviousHistory, cs, work.key)),
                   !.history = Chain(PreviousHistory, cs, work.key)]
  BY DEF Build
<1> DEFINE h == Chain(PreviousHistory, cs, work.key)
           m == GeneratedManifest(manifestFile, source, work.key, h)
<1>3. work'.manifest = m /\ work'.history = h
  BY <1>2 DEF TypeInv, TypeOK
<1>4. /\ manifestFile \in Manifests \cup {NoFile} /\ PreviousHistory \in Seq(Entries)
      /\ VerifyChain(PreviousHistory) /\ OwnedBy(PreviousHistory, work.key)
  <2>1. CASE manifestFile = NoFile
    <3>1. PreviousHistory = <<>> /\ <<>> \in Seq(Entries)
      BY <2>1, EmptySeq DEF PreviousHistory
    <3>2. VerifyChain(<<>>)
      BY EmptyLogSound DEF SoundLog
    <3>3. QED  BY <2>1, <3>1, <3>2, EmptyIsOwned
  <2>2. CASE manifestFile # NoFile
    <3>1. GoodPair(manifestFile, historyFile) /\ manifestFile.key = work.key
      BY <1>1, <2>2 DEF PairOnDisk, Saving, Writing
    <3>2. QED  BY <2>2, <3>1 DEF GoodPair, PreviousHistory
  <2>3. QED  BY <2>1, <2>2
<1>5. cs \in Seq(SourceChanges) /\ cs \in Seq(Changes)
  BY <1>1, <1>4, DiffOrdersType
<1>6. h \in Seq(Entries) /\ VerifyChain(h) /\ OwnedBy(h, work.key)
  BY <1>1, <1>4, <1>5, ChainType, ChainVerifies, ChainOwned
<1> HIDE DEF h
<1>7. m \in Manifests
  BY <1>1, <1>4, <1>6, GeneratedManifestType
<1>8. /\ m.key = work.key /\ m.signer = work.key /\ m.head = HeadHash(h) /\ m.url = source.url
      /\ m.type = source.type
      /\ m.catalog = [a \in Albums |->
                        IF source.catalog[a] = Unlisted THEN Unlisted
                        ELSE [content |-> source.catalog[a],
                              version |-> AlbumVersion(manifestFile, source, a)]]
  BY DEF GeneratedManifest
<1>9. m.type = "artist" => Listed(m.catalog) # {}
  <2>1. ASSUME m.type = "artist" PROVE Listed(m.catalog) # {}
    <3>1. PICK a \in Listed(source.catalog) : TRUE
      BY <1>1, <1>8, <2>1 DEF validateSource
    <3>2. a \in Albums /\ source.catalog[a] # Unlisted
      BY <1>1, <3>1 DEF Listed, Sources
    <3>3. /\ m.catalog \in [Albums -> PublishedAlbum \cup {Unlisted}]
          /\ m.catalog[a] = [content |-> source.catalog[a],
                             version |-> AlbumVersion(manifestFile, source, a)]
      BY <1>7, <1>8, <3>2 DEF Manifests
    <3>4. m.catalog[a] \in PublishedAlbum
      <4>1. source.catalog[a] \in Contents
        BY <1>1, <3>2 DEF Sources
      <4>2. AlbumVersion(manifestFile, source, a) \in Nat
        BY <1>1, <1>4, <3>2, VersionType
      <4>3. QED  BY <3>3, <4>1, <4>2 DEF PublishedAlbum
    <3>5. m.catalog[a] # Unlisted
      BY <3>4, UnlistedAssumption
    <3>6. QED  BY <3>2, <3>3, <3>5 DEF Listed
  <2>2. QED  BY <2>1
<1>10. CheckImages(m) /\ CheckUniqueIDs(m)
  <2>1. Pictured(source.catalog) /\ UniqueTracks(source.catalog)
    BY <1>1 DEF validateSource
  <2>2. QED  BY <1>1, <1>4, <1>8, <2>1, ContentKept DEF CheckImages, CheckUniqueIDs
<1> HIDE DEF m
<1>11. QED  BY <1>3, <1>6, <1>7, <1>8, <1>9, <1>10 DEF GoodPair, GoodFields, CheckSignature

\* So is what a rotation builds from one.
LEMMA RotateGood ==
  ASSUME TypeInv, Rotate, PairOnDisk
  PROVE  /\ GoodPair(work'.manifest, work'.history)
         /\ work'.manifest.url = source.url
         /\ work'.url = source.url /\ work'.key = work'.manifest.key
<1>1. /\ manifestFile \in Manifests /\ historyFile \in Seq(Entries)
      /\ pc = "idle" /\ manifestFile # NoFile
  BY ReadableType DEF Rotate, CanRotate, Begin, TypeInv, Readable
<1>2. GoodPair(manifestFile, historyFile) /\ manifestFile.url = source.url
  BY <1>1 DEF PairOnDisk, Saving
<1> DEFINE c(k) == [type |-> "key_rotated", old |-> manifestFile.key, new |-> k]
           h(k) == Chain(historyFile, <<c(k)>>, manifestFile.key)
           m(k) == [manifestFile EXCEPT !.key = k, !.head = HeadHash(h(k)), !.signer = k]
<1>3. PICK k \in Keys :
        work' = [url |-> manifestFile.url, key |-> k, manifest |-> m(k), history |-> h(k)]
  BY DEF Rotate, Begin
<1>4. manifestFile.key \in Keys
  BY <1>1 DEF Manifests
<1>5. c(k) \in Changes
  BY <1>4 DEF Changes, KeyRotated
<1>6. OwnedBy(h(k), k)
  BY <1>1, <1>2, <1>4, RotationOwned DEF GoodPair
<1> HIDE DEF c
<1>7. <<c(k)>> \in Seq(Changes)
  BY <1>5
<1>8. h(k) \in Seq(Entries) /\ VerifyChain(h(k))
  BY <1>1, <1>2, <1>4, <1>7, ChainType, ChainVerifies DEF GoodPair
<1> HIDE DEF h
<1>9. HeadHash(h(k)) \in Digests
  BY <1>8, HashType
<1>10. /\ m(k) \in Manifests /\ m(k).key = k /\ m(k).signer = k /\ m(k).head = HeadHash(h(k))
       /\ m(k).url = manifestFile.url
       /\ m(k).type = manifestFile.type /\ m(k).catalog = manifestFile.catalog
  BY <1>1, <1>9 DEF Manifests
<1> HIDE DEF m
<1>11. GoodFields(m(k))
  BY <1>2, <1>10 DEF GoodPair, GoodFields, CheckImages, CheckUniqueIDs, ContentOf, CheckSignature
<1>12. GoodPair(m(k), h(k))
  BY <1>6, <1>8, <1>10, <1>11 DEF GoodPair
<1>13. QED  BY <1>2, <1>3, <1>10, <1>12

LEMMA CleanInit == Init => CleanInv
BY DEF Init, CleanInv, PairOnDisk, PairInMemory, KeyInHand, Saving, Writing

LEMMA CleanStep == TypeInv /\ BindInv /\ CleanInv /\ [Next]_vars => CleanInv'
<1> SUFFICES ASSUME TypeInv, BindInv, CleanInv, [Next]_vars, incidents' = {}
             PROVE  PairOnDisk' /\ PairInMemory' /\ KeyInHand'
  BY DEF CleanInv
<1> USE DEF PairOnDisk, PairInMemory, KeyInHand, Saving, Writing, files
<1>0. incidents = {} /\ PairOnDisk /\ PairInMemory /\ KeyInHand
  BY IncidentsStay DEF CleanInv
<1>u. source.url \in Urls /\ Slug[source.url] \in Slugs /\ \A u \in Urls : Slug[u] \in Slugs
  BY UrlAtHand
<1>n. manifestFile \in Manifests => manifestFile.key \in Keys
  BY DEF Manifests
<1>g. /\ UNCHANGED <<manifestFile, historyFile>> =>
           (GoodPair(manifestFile, historyFile)' <=> GoodPair(manifestFile, historyFile))
      /\ UNCHANGED work =>
           (GoodPair(work.manifest, work.history)' <=> GoodPair(work.manifest, work.history))
  BY DEF GoodPair, GoodFields, CheckSignature
<1>d. ~Saving /\ manifestFile = NoFile => historyFile = NoFile
  BY <1>0, CLIAssumption DEF GoodPair
<1>1. ASSUME NEW u \in Urls, Keygen(u) PROVE PairOnDisk' /\ PairInMemory' /\ KeyInHand'
  <2>1. /\ pc = "idle" /\ cmd' = "keygen" /\ pc' = "saveKey" /\ work'.url = u
        /\ keyFile[Slug[u]] = NoFile /\ UNCHANGED <<source, keyFile, manifestFile, historyFile>>
    BY <1>1 DEF Keygen, Begin, NoWork
  <2>2. manifestFile # NoFile => Slug[u] # Slug[source.url]
    BY <1>0, <1>n, <2>1, CLIAssumption DEF GoodPair
  <2>3. QED  BY <1>0, <2>1, <2>2
<1>2. ASSUME NEW c \in {"keygen", "generate", "rotate"}, Refuse(c)
      PROVE  PairOnDisk' /\ PairInMemory' /\ KeyInHand'
  BY <1>0, <1>2 DEF Refuse, Return
<1>3. CASE GenerateWithKey
  <2>1. /\ pc = "idle" /\ cmd' = "generate" /\ pc' = "load" /\ validateSource(source)
        /\ work'.url = source.url /\ work'.key = keyFile[Slug[source.url]]
        /\ UNCHANGED <<source, keyFile, manifestFile, historyFile>>
    BY <1>3 DEF GenerateWithKey, Begin, NoWork
  <2>2. validateSource(source)'
    BY <2>1 DEF validateSource, Listed
  <2>3. QED  BY <1>0, <2>1, <2>2
<1>4. CASE GenerateNewKey
  <2>1. /\ pc = "idle" /\ cmd' = "generate" /\ pc' = "saveKey" /\ validateSource(source)
        /\ work'.url = source.url /\ keyFile[Slug[source.url]] = NoFile
        /\ UNCHANGED <<source, keyFile, manifestFile, historyFile>>
    BY <1>4 DEF GenerateNewKey, Begin, NoWork
  <2>2. validateSource(source)'
    BY <2>1 DEF validateSource, Listed
  <2>3. manifestFile = NoFile
    BY <1>0, <1>n, <2>1, CLIAssumption DEF GoodPair
  <2>4. QED  BY <1>0, <2>1, <2>2, <2>3
<1>5. CASE Build
  <2>1. /\ pc = "load" /\ pc' = "saveManifest"
        /\ UNCHANGED <<source, keyFile, manifestFile, historyFile, cmd>>
    BY <1>5 DEF Build
  <2>2. /\ GoodPair(work'.manifest, work'.history)
        /\ work'.manifest.url = source.url /\ work'.manifest.key = work.key
    BY <1>0, <1>5, BuildGood
  <2>3. GoodPair(work.manifest, work.history)'
    BY <2>2 DEF GoodPair, GoodFields, CheckSignature
  <2>4. QED  BY <1>0, <2>1, <2>2, <2>3
<1>6. CASE BuildRefused
  BY <1>0, <1>6 DEF BuildRefused, Return
<1>7. CASE Rotate
  <2>1. /\ pc = "idle" /\ cmd' = "rotate" /\ pc' = "saveKey"
        /\ UNCHANGED <<source, keyFile, manifestFile, historyFile>>
    BY <1>7 DEF Rotate, Begin
  <2>2. /\ GoodPair(work'.manifest, work'.history)
        /\ work'.manifest.url = source.url
        /\ work'.url = source.url /\ work'.key = work'.manifest.key
    BY <1>0, <1>7, RotateGood
  <2>3. GoodPair(work.manifest, work.history)'
    BY <2>2 DEF GoodPair, GoodFields, CheckSignature
  <2>4. QED  BY <1>0, <2>1, <2>2, <2>3
<1>8. CASE TruncateKey
  <2>1. /\ pc = "saveKey" /\ pc' = "fillKey" /\ keyFile' = [keyFile EXCEPT ![Slug[work.url]] = Torn]
        /\ UNCHANGED <<source, manifestFile, historyFile, cmd, work>>
    BY <1>8 DEF TruncateKey
  <2>2. validateSource(source)' <=> validateSource(source)
    BY <2>1 DEF validateSource, Listed
  <2>3. cmd = "keygen" /\ manifestFile # NoFile => keyFile'[Slug[source.url]] = keyFile[Slug[source.url]]
    BY <1>0, <1>u, <2>1 DEF TypeInv, TypeOK
  <2>4. cmd \in {"keygen", "generate", "rotate"}
    BY <1>0, <2>1 DEF TypeInv, TypeOK
  <2>5. PairOnDisk'
    <3>1. CASE manifestFile = NoFile
      BY <1>0, <1>d, <2>1, <3>1
    <3>2. CASE manifestFile # NoFile /\ cmd = "keygen"
      BY <1>0, <1>g, <2>1, <2>3, <3>2
    <3>3. CASE manifestFile # NoFile /\ cmd = "rotate"
      BY <1>0, <1>g, <2>1, <3>3
    <3>4. QED  BY <1>0, <2>1, <2>4, <3>1, <3>2, <3>3
  <2>6. PairInMemory'
    BY <1>0, <1>g, <2>1, <2>4
  <2>7. KeyInHand'
    BY <1>0, <2>1, <2>2, <2>4
  <2>8. QED  BY <2>5, <2>6, <2>7
<1>9. CASE FillKey
  <2>1. /\ pc = "fillKey" /\ keyFile' = [keyFile EXCEPT ![Slug[work.url]] = work.key]
        /\ UNCHANGED <<source, manifestFile, historyFile, cmd>>
        /\ keyFile \in [Slugs -> FileOf(Keys)]
    BY <1>9 DEF FillKey, TypeInv, TypeOK
  <2>2. validateSource(source)' <=> validateSource(source)
    BY <2>1 DEF validateSource, Listed
  <2>3. CASE cmd = "keygen" /\ Return("ok")
    <3>1. manifestFile # NoFile => keyFile'[Slug[source.url]] = keyFile[Slug[source.url]]
      BY <1>0, <1>u, <2>1, <2>3
    <3>2. PairOnDisk'
      <4>1. CASE manifestFile = NoFile
        BY <1>0, <1>d, <2>1, <2>3, <4>1 DEF Return
      <4>2. CASE manifestFile # NoFile
        BY <1>0, <1>g, <2>1, <2>3, <3>1, <4>2 DEF Return
      <4>3. QED  BY <4>1, <4>2
    <3>3. PairInMemory' /\ KeyInHand'
      BY <2>3 DEF Return
    <3>4. QED  BY <3>2, <3>3
  <2>4. CASE cmd = "generate" /\ pc' = "load" /\ UNCHANGED <<work, exit>>
    <3>1. keyFile'[Slug[source.url]] = work.key
      BY <1>0, <1>u, <2>1, <2>4
    <3>2. PairOnDisk'
      BY <1>0, <1>d, <2>1, <2>4
    <3>3. PairInMemory' /\ KeyInHand'
      BY <1>0, <2>1, <2>2, <2>4, <3>1
    <3>4. QED  BY <3>2, <3>3
  <2>5. CASE cmd = "rotate" /\ pc' = "saveManifest" /\ UNCHANGED <<work, exit>>
    <3>1. keyFile'[Slug[source.url]] = work.key
      BY <1>0, <1>u, <2>1, <2>5
    <3>2. QED  BY <1>0, <2>1, <2>5, <3>1
  <2>6. QED  BY <1>9, <2>3, <2>4, <2>5 DEF FillKey
<1>10. CASE TruncateManifest
  BY <1>0, <1>10 DEF TruncateManifest
<1>11. CASE FillManifest
  BY <1>0, <1>11 DEF FillManifest
<1>12. CASE TruncateHistory
  BY <1>0, <1>12 DEF TruncateHistory
<1>13. CASE FillHistory
  BY <1>0, <1>13 DEF FillHistory, Return, BindInv
<1>14. ASSUME NEW s \in Sources, EditSource(s) PROVE PairOnDisk' /\ PairInMemory' /\ KeyInHand'
  BY <1>0, <1>14 DEF EditSource
<1>15. ASSUME NEW f \in Slugs, LoseKey(f) PROVE FALSE
  BY <1>15 DEF LoseKey, Incident
<1>16. ASSUME Crash PROVE FALSE
  BY <1>16 DEF Crash, Incident
<1>17. ASSUME LoseManifest PROVE FALSE
  BY <1>17 DEF LoseManifest, Incident
<1>18. CASE UNCHANGED vars
  <2>1. validateSource(source)' <=> validateSource(source)
    BY <1>18 DEF vars, validateSource, Listed
  <2>2. QED  BY <1>0, <1>18, <2>1 DEF vars
<1>19. QED
  BY <1>1, <1>2, <1>3, <1>4, <1>5, <1>6, <1>7, <1>8, <1>9, <1>10, <1>11, <1>12,
     <1>13, <1>14, <1>15, <1>16, <1>17, <1>18
     DEF Next, Command, Write, Environment, KeygenRefused, GenerateRefused, RotateRefused

\* A tool that is left to finish and keeps its key and its URL writes only pairs that the
\* shared validator accepts: generate.Run, generate.Rotate and their refusals against
\* validateBytes.
THEOREM PairIsValid == Spec => []CleanPairValid
<1>1. TypeInv /\ CleanInv => CleanPairValid
  BY GoodPairValidates DEF CleanInv, PairOnDisk, CleanPairValid, AtRest, Readable, Saving
<1>2. QED
  BY <1>1, TypeInit, TypeStep, BindInit, BindStep, CleanInit, CleanStep, PTL DEF Spec

\* ... and holds the key that the manifest names, so that the next keygen --rotate is not
\* refused (rotate.go's comparison of the loaded key with identity.publicKey).
THEOREM KeyIsAtHand == Spec => []KeyInStore
<1>1. TypeInv /\ CleanInv => KeyInStore
  BY DEF CleanInv, PairOnDisk, KeyInStore, AtRest, Readable, Saving, Writing
<1>2. QED
  BY <1>1, TypeInit, TypeStep, BindInit, BindStep, CleanInit, CleanStep, PTL DEF Spec
-----------------------------------------------------------------------------
\* The tool implements the abstract log.

\* What SignedLog takes from Protocol is what the tool takes from it.
LEMMA SameProtocol ==
  /\ Log!SourceChanges = SourceChanges
  /\ \A h, cs, k : Log!Chain(h, cs, k) = Chain(h, cs, k)
BY DEF Log!SourceChanges, SourceChanges, Log!CatalogChanges, CatalogChanges,
       Log!IdentityUpdated, IdentityUpdated, Log!SplitChanged, SplitChanged,
       Log!ReleaseAdded, ReleaseAdded, Log!ReleaseUpdated, ReleaseUpdated,
       Log!ReleaseRemoved, ReleaseRemoved, Log!Chain, Chain, Log!HeadHash, HeadHash,
       Log!Hash, Hash

\* Without faults there are no incidents; a command holds no manifest before it has
\* built one; and every key in use has been issued.
Quiet == Faults = {} /\ incidents = {}

MemoryInv ==
  /\ ~(Saving \/ Writing("rotate")) => work.manifest = NoFile /\ work.history = NoFile
  /\ \A f \in Slugs : keyFile[f] \in issued \cup {NoFile, Torn}
  /\ work.key \in issued \cup {NoFile}

LEMMA QuietStep == Quiet /\ [Next]_vars => Quiet'
BY DEF Quiet, Next, Command, Write, Environment, vars, Keygen, KeygenRefused, Refuse, Begin,
       GenerateWithKey, GenerateNewKey, GenerateRefused, Build, BuildRefused, Rotate,
       RotateRefused, TruncateKey, FillKey, TruncateManifest, FillManifest,
       TruncateHistory, FillHistory, EditSource, LoseKey, LoseManifest, Crash, Incident

LEMMA MemoryInit == Init => MemoryInv
BY DEF Init, MemoryInv, NoWork

LEMMA MemoryStep == TypeInv /\ MemoryInv /\ [Next]_vars => MemoryInv'
<1> SUFFICES ASSUME TypeInv, MemoryInv, [Next]_vars PROVE MemoryInv'
  OBVIOUS
<1> USE DEF MemoryInv, Saving, Writing, files
<1>t. /\ keyFile \in [Slugs -> FileOf(Keys)]
      /\ work \in [url : Urls \cup {NoFile}, key : Keys \cup {NoFile},
                   manifest : Manifests \cup {NoFile}, history : Seq(Entries) \cup {NoFile}]
  BY DEF TypeInv, TypeOK
<1>1. ASSUME NEW u \in Urls, Keygen(u) PROVE MemoryInv'
  BY <1>1 DEF Keygen, Begin, NoWork
<1>2. ASSUME NEW c \in {"keygen", "generate", "rotate"}, Refuse(c) PROVE MemoryInv'
  BY <1>2 DEF Refuse, Return, NoWork
<1>3. CASE GenerateWithKey
  <2>1. keyFile[Slug[source.url]] \in issued
    BY <1>3, UrlAtHand, CLIAssumption DEF GenerateWithKey
  <2>2. QED  BY <1>3, <2>1 DEF GenerateWithKey, Begin, NoWork
<1>4. CASE GenerateNewKey
  BY <1>4 DEF GenerateNewKey, Begin, NoWork
<1>5. CASE Build
  BY <1>5, <1>t, BuildType DEF Build
<1>6. CASE BuildRefused \/ Crash
  BY <1>6 DEF BuildRefused, Crash, Return, NoWork
<1>7. CASE Rotate
  BY <1>7 DEF Rotate, Begin
<1>8. CASE TruncateKey
  BY <1>8, <1>t DEF TruncateKey
<1>9. CASE FillKey
  BY <1>9, <1>t DEF FillKey, Return, NoWork
<1>10. CASE TruncateManifest \/ FillManifest \/ TruncateHistory
  BY <1>10 DEF TruncateManifest, FillManifest, TruncateHistory
<1>11. CASE FillHistory
  BY <1>11 DEF FillHistory, Return, NoWork
<1>12. ASSUME NEW s \in Sources, EditSource(s) PROVE MemoryInv'
  BY <1>12 DEF EditSource
<1>13. ASSUME NEW f \in Slugs, LoseKey(f) PROVE MemoryInv'
  BY <1>13, <1>t DEF LoseKey
<1>14. CASE LoseManifest
  BY <1>14 DEF LoseManifest
<1>15. CASE UNCHANGED vars
  BY <1>15 DEF vars
<1>16. QED
  BY <1>1, <1>2, <1>3, <1>4, <1>5, <1>6, <1>7, <1>8, <1>9, <1>10, <1>11, <1>12,
     <1>13, <1>14, <1>15
     DEF Next, Command, Write, Environment, KeygenRefused, GenerateRefused, RotateRefused

\* The abstract log and its owner, where the tool has them.
LogNow ==
  IF work.history # NoFile THEN work.history
  ELSE IF historyFile = NoFile THEN <<>> ELSE historyFile

OwnerNow ==
  IF work.manifest # NoFile THEN work.manifest.key
  ELSE IF manifestFile = NoFile THEN NoFile ELSE manifestFile.key

\* The payloads of what has been chained on are the changes themselves.
LEMMA AddedIs ==
  ASSUME NEW h \in Seq(Entries), NEW cs \in Seq(Changes), NEW k \in Keys
  PROVE  LET g == Chain(h, cs, k) IN [j \in 1 .. Len(g) - Len(h) |-> g[Len(h) + j].data] = cs
<1> DEFINE g == Chain(h, cs, k)
           added == [j \in 1 .. Len(g) - Len(h) |-> g[Len(h) + j].data]
<1>1. Len(g) = Len(h) + Len(cs) /\ Len(h) \in Nat /\ Len(cs) \in Nat
  BY ChainType, LenProperties
<1>2. \A j \in 1 .. Len(cs) : g[Len(h) + j].data = cs[j]
  <2>1. TAKE j \in 1 .. Len(cs)
  <2>2. g[Len(h) + j] = [data |-> cs[j], signer |-> k,
                         prev |-> HeadHash(h) \o SubSeq(SignedBy(cs, k), 1, j - 1)]
    BY ChainType
  <2>3. QED  BY <2>2
<1> HIDE DEF g
<1>3. Len(g) - Len(h) = Len(cs)
  BY <1>1
<1>4. added = [j \in 1 .. Len(cs) |-> cs[j]]
  BY <1>2, <1>3
<1>5. cs = [j \in 1 .. Len(cs) |-> cs[j]]
  BY SeqDef, LenProperties
<1>6. QED  BY <1>4, <1>5 DEF g

\* generate records the changes of the source.
LEMMA BuildRecords ==
  ASSUME TypeInv, MemoryInv, Build, PairOnDisk, KeyInHand
  PROVE  Log!Record(work.key)
<1>1. /\ pc = "load" /\ ~CannotLoad /\ work.key \in Keys /\ source \in Sources
      /\ work.manifest = NoFile /\ work.history = NoFile
      /\ UNCHANGED <<manifestFile, historyFile>>
      /\ keyFile[Slug[source.url]] = work.key
  BY DEF Build, KeyInHand, TypeInv, TypeOK, WorkOK, MemoryInv, Saving, Writing, files
<1>2. PICK cs \in DiffOrders(manifestFile, source) :
        work' = [work EXCEPT
                   !.manifest = GeneratedManifest(manifestFile, source, work.key,
                                                  Chain(PreviousHistory, cs, work.key)),
                   !.history = Chain(PreviousHistory, cs, work.key)]
  BY DEF Build
<1>3. /\ manifestFile \in Manifests \cup {NoFile}
      /\ LogNow \in Seq(Entries) /\ PreviousHistory = LogNow
      /\ OwnerNow \in {NoFile, work.key}
  <2>1. CASE manifestFile = NoFile
    <3>1. historyFile = NoFile
      BY <1>1, <2>1, CLIAssumption DEF PairOnDisk, Saving, GoodPair
    <3>2. QED  BY <1>1, <2>1, <3>1, EmptySeq DEF LogNow, OwnerNow, PreviousHistory
  <2>2. CASE manifestFile # NoFile
    <3>1. GoodPair(manifestFile, historyFile) /\ manifestFile.key = work.key
      BY <1>1, <2>2 DEF PairOnDisk, Saving, Writing
    <3>2. historyFile # NoFile
      BY <3>1, CLIAssumption DEF GoodPair
    <3>3. QED  BY <1>1, <2>2, <3>1, <3>2 DEF GoodPair, LogNow, OwnerNow, PreviousHistory
  <2>3. QED  BY <2>1, <2>2
<1>4. cs \in Seq(SourceChanges) /\ cs \in Seq(Changes)
  BY <1>1, <1>3, DiffOrdersType
<1>5. /\ work'.history = Chain(LogNow, cs, work.key) /\ work'.history \in Seq(Entries)
      /\ work'.manifest \in Manifests /\ work'.manifest.key = work.key
  BY <1>2, <1>3, BuildType, BuildGood DEF TypeInv, TypeOK
<1>6. LogNow' = Chain(LogNow, cs, work.key) /\ OwnerNow' = work.key
  BY <1>5, CLIAssumption DEF LogNow, OwnerNow
<1>7. Log!Added = cs
  <2>1. Log!Added = [j \in 1 .. Len(LogNow') - Len(LogNow) |-> LogNow'[Len(LogNow) + j].data]
    BY DEF Log!Added, LogNow
  <2>2. QED  BY <1>1, <1>3, <1>4, <1>6, <2>1, AddedIs
<1>8. QED  BY <1>3, <1>4, <1>6, <1>7, SameProtocol DEF Log!Record, LogNow, OwnerNow

\* keygen --rotate hands the log over.
LEMMA RotateHandsOver ==
  ASSUME TypeInv, MemoryInv, Rotate, PairOnDisk
  PROVE  \E k \in Keys : Log!HandOver(k)
<1>1. /\ manifestFile \in Manifests /\ historyFile \in Seq(Entries) /\ manifestFile.key \in Keys
      /\ pc = "idle" /\ work.manifest = NoFile /\ work.history = NoFile
      /\ manifestFile.key \in issued
  <2>1. manifestFile \in Manifests /\ historyFile \in Seq(Entries) /\ pc = "idle"
    BY ReadableType DEF Rotate, CanRotate, Begin, TypeInv
  <2>2. keyFile[Slug[manifestFile.url]] = manifestFile.key /\ manifestFile.key \in Keys
        /\ Slug[manifestFile.url] \in Slugs
    BY <2>1, UrlAtHand DEF Rotate, CanRotate, Manifests
  <2>3. QED  BY <2>1, <2>2, CLIAssumption DEF MemoryInv, Saving, Writing
<1> DEFINE c(k) == [type |-> "key_rotated", old |-> manifestFile.key, new |-> k]
<1>2. PICK k \in Keys :
        /\ k \notin issued
        /\ work'.history = Chain(historyFile, <<c(k)>>, manifestFile.key)
        /\ work'.manifest.key = k
  <2> DEFINE h(k) == Chain(historyFile, <<c(k)>>, manifestFile.key)
  <2>1. PICK k \in Keys :
          /\ k \notin issued
          /\ work' = [url |-> manifestFile.url, key |-> k,
                      manifest |-> [manifestFile EXCEPT !.key = k, !.head = HeadHash(h(k)),
                                                        !.signer = k],
                      history |-> h(k)]
    BY DEF Rotate, Begin, FreshKey
  <2> HIDE DEF c, h
  <2>2. [manifestFile EXCEPT !.key = k, !.head = HeadHash(h(k)), !.signer = k].key = k
    BY <1>1 DEF Manifests
  <2>3. work'.history = h(k) /\ work'.manifest.key = k
    BY <2>1, <2>2
  <2>4. QED  BY <2>1, <2>3 DEF h
<1>3. work'.manifest # NoFile /\ work'.history # NoFile
  BY RotateType, CLIAssumption
<1>4. /\ LogNow = historyFile /\ OwnerNow = manifestFile.key
      /\ LogNow' = Chain(LogNow, <<c(k)>>, OwnerNow) /\ OwnerNow' = k
  BY <1>1, <1>2, <1>3, CLIAssumption DEF LogNow, OwnerNow
<1>5. Log!HandOver(k)
  BY <1>1, <1>2, <1>4, SameProtocol DEF Log!HandOver, LogNow, OwnerNow
<1>6. QED  BY <1>5

\* Every step is a step of SignedLog, or none.
LEMMA RefineStep ==
  TypeInv /\ BindInv /\ CleanInv /\ MemoryInv /\ Quiet /\ Quiet' /\ [Next]_vars
    => [Log!Next]_(Log!vars)
<1> SUFFICES ASSUME TypeInv, BindInv, CleanInv, MemoryInv, Quiet, Quiet', [Next]_vars
             PROVE  Log!Next \/ (UNCHANGED LogNow /\ UNCHANGED OwnerNow)
  BY DEF Log!vars, LogNow, OwnerNow
<1>0. PairOnDisk /\ PairInMemory /\ KeyInHand
  BY DEF CleanInv, Quiet
<1>1. CASE Build
  <2>1. work.key \in Keys
    BY <1>1 DEF Build, TypeInv, WorkOK
  <2>2. QED  BY <1>0, <1>1, <2>1, BuildRecords DEF Log!Next
<1>2. CASE Rotate
  BY <1>0, <1>2, RotateHandsOver DEF Log!Next
<1>m. Saving => work.manifest # NoFile /\ work.history # NoFile
  BY CLIAssumption DEF TypeInv, WorkOK
<1>n. pc = "idle" \/ pc = "load" => work.manifest = NoFile /\ work.history = NoFile
  BY DEF MemoryInv, Saving, Writing
<1> USE DEF LogNow, OwnerNow, NoWork, files
<1>3. ASSUME NEW u \in Urls, Keygen(u) PROVE UNCHANGED LogNow /\ UNCHANGED OwnerNow
  BY <1>3, <1>n DEF Keygen, Begin
<1>4. ASSUME NEW c \in {"keygen", "generate", "rotate"}, Refuse(c)
      PROVE  UNCHANGED LogNow /\ UNCHANGED OwnerNow
  BY <1>4, <1>n DEF Refuse, Return
<1>5. CASE GenerateWithKey \/ GenerateNewKey
  <2>1. /\ pc = "idle" /\ UNCHANGED <<manifestFile, historyFile>>
        /\ work'.manifest = NoFile /\ work'.history = NoFile
    BY <1>5 DEF GenerateWithKey, GenerateNewKey, Begin
  <2>2. QED  BY <1>n, <2>1
<1>6. CASE BuildRefused
  BY <1>6, <1>n DEF BuildRefused, Return
<1>7. CASE TruncateKey
  BY <1>7 DEF TruncateKey
<1>8. CASE FillKey
  <2>1. UNCHANGED <<manifestFile, historyFile>> /\ pc = "fillKey"
    BY <1>8 DEF FillKey
  <2>2. CASE cmd = "keygen" /\ Return("ok")
    <3>1. work.manifest = NoFile /\ work.history = NoFile
      BY <2>1, <2>2 DEF MemoryInv, Saving, Writing
    <3>2. QED  BY <2>1, <2>2, <3>1 DEF Return
  <2>3. CASE UNCHANGED work
    BY <2>1, <2>3
  <2>4. QED  BY <1>8, <2>2, <2>3 DEF FillKey
<1>9. CASE TruncateManifest \/ FillManifest \/ TruncateHistory
  BY <1>9, <1>m DEF TruncateManifest, FillManifest, TruncateHistory, Saving
<1>10. CASE FillHistory
  <2>1. /\ historyFile' = work.history /\ UNCHANGED manifestFile /\ manifestFile = work.manifest
        /\ work'.manifest = NoFile /\ work'.history = NoFile
    BY <1>10 DEF FillHistory, Return, BindInv
  <2>2. work.manifest # NoFile /\ work.history # NoFile
    BY <1>10, <1>m DEF FillHistory, Saving
  <2>3. QED  BY <2>1, <2>2
<1>11. ASSUME NEW s \in Sources, EditSource(s) PROVE UNCHANGED LogNow /\ UNCHANGED OwnerNow
  BY <1>11 DEF EditSource
<1>12. ASSUME (\E f \in Slugs : LoseKey(f)) \/ Crash \/ LoseManifest PROVE FALSE
  BY <1>12 DEF LoseKey, Crash, LoseManifest, Incident, Quiet
<1>13. CASE UNCHANGED vars
  BY <1>13 DEF vars
<1>14. QED
  BY <1>1, <1>2, <1>3, <1>4, <1>5, <1>6, <1>7, <1>8, <1>9, <1>10, <1>11, <1>12, <1>13
     DEF Next, Command, Write, Environment, KeygenRefused, GenerateRefused, RotateRefused

\* When nothing goes wrong, the files and the memory of the tool are a log that only its
\* owner extends, and that changes hands only with an entry signed by the old owner: every
\* command of generate.go and rotate.go takes effect in one step of SignedLog.
THEOREM ToolImplementsLog == Faults = {} /\ Spec => ImplementsSignedLog
<1>1. Faults = {} /\ Init => Quiet
  BY DEF Init, Quiet
<1>2. Init => Log!Init
  BY DEF Init, Log!Init, NoWork
<1>3. QED
  BY <1>1, <1>2, QuietStep, RefineStep, MemoryInit, MemoryStep, TypeInit, TypeStep,
     BindInit, BindStep, CleanInit, CleanStep, PTL
     DEF Spec, ImplementsSignedLog, Log!Spec

-----------------------------------------------------------------------------
\* The log accounts for the catalog.

\* The version of its album after the change c of the catalog.
VersionAfter(c) ==
  IF c.type = "release_removed" THEN 0 ELSE IF c.type = "release_added" THEN 1 ELSE c.new

\* The last entry about an album tells its version.
LEMMA LastLogged ==
  ASSUME NEW h \in Seq(Entries), NEW a, NEW i \in Mentions(h, a),
         \A j \in Mentions(h, a) : j <= i
  PROVE  LoggedVersion(h, a) = VersionAfter(h[i].data)
<1> DEFINE S == Mentions(h, a)
<1>1. S \subseteq Nat /\ S # {} /\ i \in S /\ \A j \in S : j <= i
  BY LenProperties DEF Mentions
<1>2. LoggedVersion(h, a) = VersionAfter(h[CHOOSE l \in S : \A j \in S : j <= l].data)
  BY <1>1 DEF LoggedVersion, VersionAfter
<1> HIDE DEF S
<1>3. QED  BY <1>1, <1>2, LastIs

LEMMA NeverLogged ==
  ASSUME NEW h, NEW a, Mentions(h, a) = {}
  PROVE  LoggedVersion(h, a) = 0
BY DEF LoggedVersion

\* Entries that are not about an album leave its version.
LEMMA SameLogged ==
  ASSUME NEW h \in Seq(Entries), NEW g \in Seq(Entries), Len(h) <= Len(g),
         \A i \in 1 .. Len(h) : g[i] = h[i],
         NEW a, \A i \in Len(h) + 1 .. Len(g) : i \notin Mentions(g, a)
  PROVE  LoggedVersion(g, a) = LoggedVersion(h, a)
<1>1. /\ DOMAIN h = 1 .. Len(h) /\ DOMAIN g = 1 .. Len(g)
      /\ Len(h) \in Nat /\ Len(g) \in Nat
  BY LenProperties
<1>2. Mentions(g, a) = Mentions(h, a) /\ Mentions(h, a) \subseteq 1 .. Len(h)
  BY <1>1 DEF Mentions
<1>3. CASE Mentions(h, a) = {}
  BY <1>2, <1>3, NeverLogged
<1>4. CASE Mentions(h, a) # {}
  <2>1. PICK i \in Mentions(h, a) : \A j \in Mentions(h, a) : j <= i
    <3>1. Mentions(h, a) \subseteq 0 .. Len(h)
      BY <1>1, <1>2
    <3>2. QED  BY <1>1, <1>4, <3>1, GreatestNumber
  <2>2. g[i] = h[i]
    BY <1>2
  <2>3. /\ LoggedVersion(h, a) = VersionAfter(h[i].data)
        /\ LoggedVersion(g, a) = VersionAfter(g[i].data)
    BY <1>2, <2>1, LastLogged
  <2>4. QED  BY <2>2, <2>3
<1>5. QED  BY <1>3, <1>4

\* The entries before place i.
LEMMA BeforeType ==
  ASSUME NEW h \in Seq(Entries), NEW i \in 1 .. Len(h) + 1
  PROVE  /\ SubSeq(h, 1, i - 1) \in Seq(Entries) /\ Len(SubSeq(h, 1, i - 1)) = i - 1
         /\ \A j \in 1 .. i - 1 : SubSeq(h, 1, i - 1)[j] = h[j]
<1>1. Len(h) \in Nat /\ i - 1 \in Nat /\ i - 1 <= Len(h)
  BY LenProperties
<1>2. \A j \in 1 .. i - 1 : h[j] \in Entries
  BY <1>1, ElementOfSeq
<1>3. QED  BY <1>1, <1>2, SubSeqProperties

\* Where two logs agree, so do the versions before each entry.
LEMMA SameBefore ==
  ASSUME NEW h \in Seq(Entries), NEW g \in Seq(Entries), Len(h) <= Len(g),
         \A i \in 1 .. Len(h) : g[i] = h[i], NEW i \in 1 .. Len(h), NEW a
  PROVE  LoggedVersion(SubSeq(g, 1, i - 1), a) = LoggedVersion(SubSeq(h, 1, i - 1), a)
<1>1. Len(h) \in Nat /\ Len(g) \in Nat /\ i \in 1 .. Len(h) + 1 /\ i \in 1 .. Len(g) + 1
      /\ i - 1 \in 0 .. Len(h)
  BY LenProperties
<1> DEFINE u == SubSeq(h, 1, i - 1)
           v == SubSeq(g, 1, i - 1)
<1>2. /\ u \in Seq(Entries) /\ v \in Seq(Entries) /\ Len(u) = i - 1 /\ Len(v) = i - 1
      /\ \A j \in 1 .. i - 1 : u[j] = h[j] /\ v[j] = g[j]
  BY <1>1, BeforeType
<1> HIDE DEF u, v
<1>3. \A j \in 1 .. Len(u) : v[j] = u[j]
  BY <1>1, <1>2
<1>4. Len(u) <= Len(v) /\ \A j \in Len(u) + 1 .. Len(v) : j \notin Mentions(v, a)
  BY <1>1, <1>2
<1>5. QED  BY <1>2, <1>3, <1>4, SameLogged DEF u, v

\* The changes of one sequence that are about an album.
About(cs, a) == {j \in DOMAIN cs : cs[j] \in CatalogChanges /\ cs[j].album = a}

\* What chaining on changes does to the version of an album, of which they speak at most
\* once, and what the version is before the change that speaks of it.
LEMMA ChainLogged ==
  ASSUME NEW h \in Seq(Entries), NEW cs \in Seq(Changes), NEW k \in Keys, NEW a
  PROVE  LET g == Chain(h, cs, k) IN
         /\ About(cs, a) = {} => LoggedVersion(g, a) = LoggedVersion(h, a)
         /\ \A j \in About(cs, a) : About(cs, a) = {j} =>
              /\ LoggedVersion(g, a) = VersionAfter(cs[j])
              /\ LoggedVersion(SubSeq(g, 1, (Len(h) + j) - 1), a) = LoggedVersion(h, a)
<1> DEFINE g == Chain(h, cs, k)
<1>1. /\ g \in Seq(Entries) /\ Len(g) = Len(h) + Len(cs)
      /\ \A i \in 1 .. Len(h) : g[i] = h[i]
      /\ \A j \in 1 .. Len(cs) : g[Len(h) + j].data = cs[j]
  <2>1. /\ g \in Seq(Entries) /\ Len(g) = Len(h) + Len(cs)
        /\ \A i \in 1 .. Len(h) : g[i] = h[i]
    BY ChainType
  <2>2. ASSUME NEW j \in 1 .. Len(cs) PROVE g[Len(h) + j].data = cs[j]
    <3>1. g[Len(h) + j] = [data |-> cs[j], signer |-> k,
                           prev |-> HeadHash(h) \o SubSeq(SignedBy(cs, k), 1, j - 1)]
      BY ChainType
    <3>2. QED  BY <3>1
  <2>3. QED  BY <2>1, <2>2
<1>2. /\ Len(h) \in Nat /\ Len(cs) \in Nat /\ Len(g) \in Nat /\ DOMAIN cs = 1 .. Len(cs)
      /\ DOMAIN h = 1 .. Len(h) /\ DOMAIN g = 1 .. Len(h) + Len(cs)
  BY <1>1, LenProperties
<1> HIDE DEF g
<1>3. ASSUME NEW i \in Len(h) + 1 .. Len(g)
      PROVE  i \in Mentions(g, a) <=> i - Len(h) \in About(cs, a)
  <2>1. i - Len(h) \in 1 .. Len(cs) /\ i = Len(h) + (i - Len(h)) /\ i \in DOMAIN g
    BY <1>1, <1>2
  <2>2. g[i].data = cs[i - Len(h)]
    BY <1>1, <2>1
  <2>3. QED  BY <1>2, <2>1, <2>2 DEF Mentions, About
<1>4. ASSUME About(cs, a) = {} PROVE LoggedVersion(g, a) = LoggedVersion(h, a)
  <2>1. Len(h) <= Len(g) /\ \A i \in Len(h) + 1 .. Len(g) : i \notin Mentions(g, a)
    BY <1>1, <1>2, <1>3, <1>4
  <2>2. QED  BY <1>1, <2>1, SameLogged
<1>5. ASSUME NEW j \in About(cs, a), About(cs, a) = {j}
      PROVE  /\ LoggedVersion(g, a) = VersionAfter(cs[j])
             /\ LoggedVersion(SubSeq(g, 1, (Len(h) + j) - 1), a) = LoggedVersion(h, a)
  <2>1. j \in 1 .. Len(cs) /\ Len(h) + j \in Len(h) + 1 .. Len(g)
    BY <1>1, <1>2 DEF About
  <2>2. Len(h) + j \in Mentions(g, a)
    BY <1>2, <1>3, <2>1
  <2>3. \A i \in Mentions(g, a) : i <= Len(h) + j
    <3>1. TAKE i \in Mentions(g, a)
    <3>2. i \in 1 .. Len(g)
      BY <1>1, <1>2 DEF Mentions
    <3>3. CASE i > Len(h)
      <4>1. i \in Len(h) + 1 .. Len(g)
        BY <1>2, <3>2, <3>3
      <4>2. i - Len(h) = j
        BY <1>3, <1>5, <4>1
      <4>3. QED  BY <1>2, <3>2, <4>2
    <3>4. QED  BY <1>2, <2>1, <3>2, <3>3
  <2>4. LoggedVersion(g, a) = VersionAfter(cs[j])
    BY <1>1, <2>1, <2>2, <2>3, LastLogged
  <2> DEFINE n == Len(h) + j
             v == SubSeq(g, 1, n - 1)
  <2>5. n \in Nat /\ n \in Len(h) + 1 .. Len(g) /\ n - Len(h) = j
    BY <1>1, <1>2, <2>1
  <2> HIDE DEF n
  <2>6. v \in Seq(Entries) /\ Len(v) = n - 1 /\ \A i \in 1 .. n - 1 : v[i] = g[i]
    <3>1. n \in 1 .. Len(g) + 1
      BY <1>2, <2>5
    <3>2. QED  BY <1>1, <3>1, BeforeType
  <2> HIDE DEF v
  <2>7. Len(h) <= Len(v) /\ \A i \in 1 .. Len(h) : v[i] = h[i]
    BY <1>1, <1>2, <2>5, <2>6
  <2>8. \A i \in Len(h) + 1 .. Len(v) : i \notin Mentions(v, a)
    <3>1. TAKE i \in Len(h) + 1 .. Len(v)
    <3>2. /\ i \in 1 .. n - 1 /\ i \in Len(h) + 1 .. Len(g) /\ i \in DOMAIN g
          /\ i - Len(h) # j
      BY <1>1, <1>2, <2>5, <2>6
    <3>3. i \notin Mentions(g, a)
      BY <1>3, <1>5, <3>2
    <3>4. v[i] = g[i]
      BY <2>6, <3>2
    <3>5. QED  BY <3>2, <3>3, <3>4 DEF Mentions
  <2>9. LoggedVersion(v, a) = LoggedVersion(h, a)
    BY <2>6, <2>7, <2>8, SameLogged
  <2>10. QED  BY <2>4, <2>9 DEF v, n
<1>6. QED  BY <1>4, <1>5 DEF g

\* The change of the album a that diff finds, if it finds one: Changed.
Changed(m, s, a) ==
  \/ a \in OldAlbums(m) /\ a \notin Listed(s.catalog)
  \/ a \notin OldAlbums(m) /\ a \in Listed(s.catalog)
  \/ a \in OldAlbums(m) \cap Listed(s.catalog) /\ m.catalog[a].content # s.catalog[a]

ChangeOf(m, s, a) ==
  IF a \notin OldAlbums(m) THEN [type |-> "release_added", album |-> a]
  ELSE IF a \in Listed(s.catalog)
  THEN [type |-> "release_updated", album |-> a,
        old |-> m.catalog[a].version, new |-> AlbumVersion(m, s, a)]
  ELSE [type |-> "release_removed", album |-> a, version |-> m.catalog[a].version]

LEMMA OldAlbumType ==
  ASSUME NEW m \in Manifests \cup {NoFile}, NEW s \in Sources
  PROVE  /\ OldAlbums(m) \subseteq Albums /\ Listed(s.catalog) \subseteq Albums
         /\ \A a \in OldAlbums(m) : m.catalog[a].version \in Nat
<1>1. Listed(s.catalog) \subseteq Albums
  BY DEF Listed, Sources
<1>2. CASE m = NoFile
  BY <1>1, <1>2 DEF OldAlbums
<1>3. CASE m \in Manifests
  BY <1>1, <1>3 DEF OldAlbums, Listed, Manifests, PublishedAlbum
<1>4. QED  BY <1>2, <1>3

\* diff finds that change, and no other change of the album.
LEMMA DiffIs ==
  ASSUME NEW m \in Manifests \cup {NoFile}, NEW s \in Sources
  PROVE  /\ \A c \in diff(m, s) \cap CatalogChanges :
              c.album \in Albums /\ Changed(m, s, c.album) /\ c = ChangeOf(m, s, c.album)
         /\ \A a \in Albums : Changed(m, s, a) =>
              /\ ChangeOf(m, s, a) \in diff(m, s) \cap CatalogChanges
              /\ ChangeOf(m, s, a).album = a
<1>1. /\ OldAlbums(m) \subseteq Albums /\ Listed(s.catalog) \subseteq Albums
      /\ \A a \in OldAlbums(m) : m.catalog[a].version \in Nat
  BY OldAlbumType
<1>2. \A c \in IdentityChanges(m, s) \cup LabelChanges(m, s) : c \notin CatalogChanges
  BY DEF IdentityChanges, LabelChanges, IdentityUpdated, SplitChanged, CatalogChanges,
         ReleaseAdded, ReleaseUpdated, ReleaseRemoved
<1>3. ASSUME NEW c \in diff(m, s) \cap CatalogChanges
      PROVE  c.album \in Albums /\ Changed(m, s, c.album) /\ c = ChangeOf(m, s, c.album)
  <2>1. c \in AddedAlbums(m, s) \cup UpdatedAlbums(m, s) \cup RemovedAlbums(m, s)
    BY <1>2 DEF diff
  <2>2. CASE c \in AddedAlbums(m, s)
    BY <1>1, <2>2 DEF AddedAlbums, Changed, ChangeOf
  <2>3. CASE c \in UpdatedAlbums(m, s)
    BY <1>1, <2>3 DEF UpdatedAlbums, Changed, ChangeOf
  <2>4. CASE c \in RemovedAlbums(m, s)
    BY <1>1, <2>4 DEF RemovedAlbums, Changed, ChangeOf
  <2>5. QED  BY <2>1, <2>2, <2>3, <2>4
<1>4. ASSUME NEW a \in Albums, Changed(m, s, a)
      PROVE  /\ ChangeOf(m, s, a) \in diff(m, s) \cap CatalogChanges
             /\ ChangeOf(m, s, a).album = a
  <2>1. CASE a \notin OldAlbums(m)
    BY <1>4, <2>1 DEF Changed, ChangeOf, diff, AddedAlbums, CatalogChanges, ReleaseAdded
  <2>2. CASE a \in OldAlbums(m) /\ a \in Listed(s.catalog)
    <3>1. AlbumVersion(m, s, a) \in Nat
      BY <1>1, <2>2 DEF AlbumVersion
    <3>2. QED
      BY <1>1, <1>4, <2>2, <3>1
         DEF Changed, ChangeOf, diff, UpdatedAlbums, CatalogChanges, ReleaseUpdated
  <2>3. CASE a \in OldAlbums(m) /\ a \notin Listed(s.catalog)
    BY <1>1, <2>3 DEF ChangeOf, diff, RemovedAlbums, CatalogChanges, ReleaseRemoved
  <2>4. QED  BY <2>1, <2>2, <2>3
<1>5. QED  BY <1>3, <1>4

\* What generate writes down of a diff is all of it, each change once.
LEMMA OrdersAreDiff ==
  ASSUME NEW m \in Manifests \cup {NoFile}, NEW s \in Sources, NEW cs \in DiffOrders(m, s)
  PROVE  /\ \A j \in DOMAIN cs : cs[j] \in diff(m, s)
         /\ \A c \in diff(m, s) : \E j \in DOMAIN cs : cs[j] = c
         /\ \A i, j \in DOMAIN cs : cs[i] = cs[j] => i = j
<1> DEFINE D == diff(m, s)
           n == Cardinality(D)
<1>1. IsFiniteSet(D) /\ n \in Nat
  BY DiffFinite, FS_CardinalityType
<1>2. cs \in [1 .. n -> D] /\ \A i, j \in 1 .. n : i # j => cs[i] # cs[j]
  BY DEF DiffOrders, SetToSeqs
<1>3. Cardinality(1 .. n) = n
  BY <1>1, FS_Interval
<1> HIDE DEF D, n
<1>4. cs \in Injection(1 .. n, D)
  BY <1>2 DEF Injection, IsInjective
<1>5. cs \in Surjection(1 .. n, D)
  BY <1>1, <1>3, <1>4, FS_Injection DEF n
<1>6. \A c \in D : \E j \in 1 .. n : cs[j] = c
  BY <1>5 DEF Surjection
<1>7. QED  BY <1>2, <1>6 DEF D

\* The change c of the catalog starts from the version v of its album.
StartsFrom(c, v) ==
  CASE c.type = "release_added"   -> v = 0
    [] c.type = "release_updated" -> v = c.old /\ c.new = c.old + 1
    [] c.type = "release_removed" -> v = c.version /\ v > 0

\* Chaining on changes that start from what the log has come to, one for an album at most,
\* keeps a log replayable.
LEMMA ChainReplayable ==
  ASSUME NEW h \in Seq(Entries), NEW cs \in Seq(Changes), NEW k \in Keys, Replayable(h),
         \A j \in DOMAIN cs : cs[j] \in CatalogChanges =>
           /\ About(cs, cs[j].album) = {j}
           /\ StartsFrom(cs[j], LoggedVersion(h, cs[j].album))
  PROVE  Replayable(Chain(h, cs, k))
<1> DEFINE g == Chain(h, cs, k)
<1>1. /\ g \in Seq(Entries) /\ Len(g) = Len(h) + Len(cs)
      /\ \A i \in 1 .. Len(h) : g[i] = h[i]
      /\ \A j \in 1 .. Len(cs) : g[Len(h) + j].data = cs[j]
  <2>1. /\ g \in Seq(Entries) /\ Len(g) = Len(h) + Len(cs)
        /\ \A i \in 1 .. Len(h) : g[i] = h[i]
    BY ChainType
  <2>2. ASSUME NEW j \in 1 .. Len(cs) PROVE g[Len(h) + j].data = cs[j]
    <3>1. g[Len(h) + j] = [data |-> cs[j], signer |-> k,
                           prev |-> HeadHash(h) \o SubSeq(SignedBy(cs, k), 1, j - 1)]
      BY ChainType
    <3>2. QED  BY <3>1
  <2>3. QED  BY <2>1, <2>2
<1>2. /\ Len(h) \in Nat /\ Len(cs) \in Nat /\ Len(g) \in Nat /\ DOMAIN cs = 1 .. Len(cs)
      /\ DOMAIN h = 1 .. Len(h) /\ DOMAIN g = 1 .. Len(h) + Len(cs)
  BY <1>1, LenProperties
<1>3. \A j \in 1 .. Len(cs) : cs[j] \in CatalogChanges =>
        LoggedVersion(SubSeq(g, 1, (Len(h) + j) - 1), cs[j].album)
          = LoggedVersion(h, cs[j].album)
  <2>1. SUFFICES ASSUME NEW j \in 1 .. Len(cs), cs[j] \in CatalogChanges
                 PROVE  LoggedVersion(SubSeq(g, 1, (Len(h) + j) - 1), cs[j].album)
                          = LoggedVersion(h, cs[j].album)
    OBVIOUS
  <2>2. j \in About(cs, cs[j].album) /\ About(cs, cs[j].album) = {j}
    BY <1>2, <2>1 DEF About
  <2>3. QED  BY <2>2, ChainLogged
<1> HIDE DEF g
<1>4. SUFFICES ASSUME NEW i \in 1 .. Len(h) + Len(cs), g[i].data \in CatalogChanges
               PROVE  StartsFrom(g[i].data, LoggedVersion(SubSeq(g, 1, i - 1), g[i].data.album))
  BY <1>2 DEF Replayable, StartsFrom, g
<1>5. CASE i <= Len(h)
  <2>1. i \in 1 .. Len(h) /\ g[i] = h[i] /\ Len(h) <= Len(g)
    BY <1>1, <1>2, <1>5
  <2>2. StartsFrom(h[i].data, LoggedVersion(SubSeq(h, 1, i - 1), h[i].data.album))
    BY <1>2, <1>4, <2>1 DEF Replayable, StartsFrom
  <2>3. QED  BY <1>1, <2>1, <2>2, SameBefore
<1>6. CASE i > Len(h)
  <2>1. PICK j \in 1 .. Len(cs) : i = Len(h) + j
    <3>1. i - Len(h) \in 1 .. Len(cs) /\ i = Len(h) + (i - Len(h))
      BY <1>2, <1>6
    <3>2. QED  BY <3>1
  <2>2. g[i].data = cs[j]
    BY <1>1, <2>1
  <2>3. StartsFrom(cs[j], LoggedVersion(h, cs[j].album))
    BY <1>2, <1>4, <2>1, <2>2
  <2>4. LoggedVersion(SubSeq(g, 1, i - 1), cs[j].album) = LoggedVersion(h, cs[j].album)
    BY <1>3, <1>4, <2>1, <2>2
  <2>5. QED  BY <2>2, <2>3, <2>4
<1>7. QED  BY <1>2, <1>5, <1>6

\* The version of an album in a manifest, or in none.
OldVersion(m, a) == IF a \in OldAlbums(m) THEN m.catalog[a].version ELSE 0

\* The manifest m and the log h tell the same versions, which start from 1.
Fits(m, h) ==
  /\ m \in Manifests /\ h \in Seq(Entries)
  /\ Replayable(h) /\ Accounts(h, m)
  /\ \A a \in OldAlbums(m) : m.catalog[a].version > 0

LEMMA CatalogVersionIs ==
  ASSUME NEW m \in Manifests, NEW a \in Albums
  PROVE  CatalogVersion(m, a) = OldVersion(m, a)
BY CLIAssumption DEF CatalogVersion, OldVersion, OldAlbums, Listed, Manifests

\* What a change does to the version of its album.
LEMMA ChangeIs ==
  ASSUME NEW m \in Manifests \cup {NoFile}, NEW s \in Sources, NEW a \in Albums,
         \A b \in OldAlbums(m) : m.catalog[b].version > 0
  PROVE  LET new == IF a \in Listed(s.catalog) THEN AlbumVersion(m, s, a) ELSE 0 IN
         /\ Changed(m, s, a) => /\ StartsFrom(ChangeOf(m, s, a), OldVersion(m, a))
                                /\ VersionAfter(ChangeOf(m, s, a)) = new
         /\ ~Changed(m, s, a) => OldVersion(m, a) = new
         /\ a \in Listed(s.catalog) => AlbumVersion(m, s, a) > 0
<1>1. \A b \in OldAlbums(m) : m.catalog[b].version \in Nat
  BY OldAlbumType
<1>2. CASE a \notin OldAlbums(m)
  BY <1>2 DEF Changed, ChangeOf, StartsFrom, VersionAfter, OldVersion, AlbumVersion
<1>3. CASE a \in OldAlbums(m) /\ a \in Listed(s.catalog)
  BY <1>1, <1>3 DEF Changed, ChangeOf, StartsFrom, VersionAfter, OldVersion, AlbumVersion
<1>4. CASE a \in OldAlbums(m) /\ a \notin Listed(s.catalog)
  BY <1>1, <1>4 DEF Changed, ChangeOf, StartsFrom, VersionAfter, OldVersion
<1>5. QED  BY <1>2, <1>3, <1>4

\* The changes between a fitting pair, or none, and a source continue the log.
LEMMA DiffContinues ==
  ASSUME NEW m \in Manifests \cup {NoFile}, NEW s \in Sources, NEW cs \in DiffOrders(m, s),
         NEW h \in Seq(Entries), NEW k \in Keys,
         \A a \in Albums : LoggedVersion(h, a) = OldVersion(m, a),
         \A a \in OldAlbums(m) : m.catalog[a].version > 0, Replayable(h)
  PROVE  /\ Replayable(Chain(h, cs, k))
         /\ \A a \in Albums : LoggedVersion(Chain(h, cs, k), a)
                                = IF a \in Listed(s.catalog) THEN AlbumVersion(m, s, a) ELSE 0
<1>1. cs \in Seq(Changes)
  BY DiffOrdersType
<1>2. \A a \in Albums : \A j \in About(cs, a) :
        Changed(m, s, a) /\ cs[j] = ChangeOf(m, s, a) /\ About(cs, a) = {j}
  <2>1. ASSUME NEW a \in Albums, NEW j \in About(cs, a)
        PROVE  Changed(m, s, a) /\ cs[j] = ChangeOf(m, s, a)
    <3>1. j \in DOMAIN cs /\ cs[j] \in CatalogChanges /\ cs[j].album = a
      BY DEF About
    <3>2. cs[j] \in diff(m, s) \cap CatalogChanges
      BY <3>1, OrdersAreDiff
    <3>3. QED  BY <3>1, <3>2, DiffIs
  <2>2. ASSUME NEW a \in Albums, NEW i \in About(cs, a), NEW j \in About(cs, a) PROVE i = j
    <3>1. cs[i] = cs[j]
      BY <2>1
    <3>2. QED  BY <3>1, OrdersAreDiff DEF About
  <2>3. QED  BY <2>1, <2>2
<1>3. \A a \in Albums : Changed(m, s, a) => About(cs, a) # {}
  <2>1. SUFFICES ASSUME NEW a \in Albums, Changed(m, s, a) PROVE \E j \in DOMAIN cs : j \in About(cs, a)
    OBVIOUS
  <2>2. /\ ChangeOf(m, s, a) \in diff(m, s) /\ ChangeOf(m, s, a) \in CatalogChanges
        /\ ChangeOf(m, s, a).album = a
    BY <2>1, DiffIs
  <2>3. PICK j \in DOMAIN cs : cs[j] = ChangeOf(m, s, a)
    BY <2>2, OrdersAreDiff
  <2>4. QED  BY <2>2, <2>3 DEF About
<1>4. \A j \in DOMAIN cs : cs[j] \in CatalogChanges =>
        About(cs, cs[j].album) = {j} /\ StartsFrom(cs[j], LoggedVersion(h, cs[j].album))
  <2>1. SUFFICES ASSUME NEW j \in DOMAIN cs, cs[j] \in CatalogChanges
                 PROVE  /\ About(cs, cs[j].album) = {j}
                        /\ StartsFrom(cs[j], LoggedVersion(h, cs[j].album))
    OBVIOUS
  <2> DEFINE a == cs[j].album
  <2>2. a \in Albums /\ j \in About(cs, a)
    BY <2>1, OrdersAreDiff, DiffIs DEF About
  <2> HIDE DEF a
  <2>3. Changed(m, s, a) /\ cs[j] = ChangeOf(m, s, a) /\ About(cs, a) = {j}
    BY <1>2, <2>2
  <2>4. StartsFrom(ChangeOf(m, s, a), OldVersion(m, a))
    BY <2>2, <2>3, ChangeIs
  <2>5. QED  BY <2>2, <2>3, <2>4 DEF a
<1>5. Replayable(Chain(h, cs, k))
  BY <1>1, <1>4, ChainReplayable
<1>6. ASSUME NEW a \in Albums
      PROVE  LoggedVersion(Chain(h, cs, k), a)
               = IF a \in Listed(s.catalog) THEN AlbumVersion(m, s, a) ELSE 0
  <2>1. CASE Changed(m, s, a)
    <3>1. PICK j \in About(cs, a) : TRUE
      BY <1>3, <2>1
    <3>2. About(cs, a) = {j} /\ cs[j] = ChangeOf(m, s, a)
      BY <1>2, <3>1
    <3>3. LoggedVersion(Chain(h, cs, k), a) = VersionAfter(ChangeOf(m, s, a))
      BY <1>1, <3>1, <3>2, ChainLogged
    <3>4. QED  BY <2>1, <3>3, ChangeIs
  <2>2. CASE ~Changed(m, s, a)
    <3>1. About(cs, a) = {}
      BY <1>2, <2>2
    <3>2. LoggedVersion(Chain(h, cs, k), a) = LoggedVersion(h, a)
      BY <1>1, <3>1, ChainLogged
    <3>3. QED  BY <2>2, <3>2, ChangeIs
  <2>3. QED  BY <2>1, <2>2
<1>7. QED  BY <1>5, <1>6

LEMMA BuildFits ==
  ASSUME TypeInv, Build, manifestFile = NoFile \/ Fits(manifestFile, historyFile)
  PROVE  Fits(work'.manifest, work'.history)
<1>1. work.key \in Keys /\ source \in Sources
  BY DEF Build, TypeInv, TypeOK, WorkOK
<1>2. PICK cs \in DiffOrders(manifestFile, source) :
        work' = [work EXCEPT
                   !.manifest = GeneratedManifest(manifestFile, source, work.key,
                                                  Chain(PreviousHistory, cs, work.key)),
                   !.history = Chain(PreviousHistory, cs, work.key)]
  BY DEF Build
<1>3. /\ manifestFile \in Manifests \cup {NoFile} /\ PreviousHistory \in Seq(Entries)
      /\ \A a \in Albums : LoggedVersion(PreviousHistory, a) = OldVersion(manifestFile, a)
      /\ \A a \in OldAlbums(manifestFile) : manifestFile.catalog[a].version > 0
      /\ Replayable(PreviousHistory)
  <2>1. CASE manifestFile = NoFile
    <3>1. PreviousHistory = <<>> /\ <<>> \in Seq(Entries) /\ DOMAIN <<>> = {}
      BY <2>1, EmptySeq DEF PreviousHistory
    <3>2. Replayable(<<>>) /\ \A a : Mentions(<<>>, a) = {}
      BY <3>1 DEF Replayable, Mentions
    <3>3. OldAlbums(manifestFile) = {}
      BY <2>1 DEF OldAlbums
    <3>4. QED  BY <2>1, <3>1, <3>2, <3>3, NeverLogged DEF OldVersion
  <2>2. CASE manifestFile # NoFile
    <3>1. Fits(manifestFile, historyFile) /\ PreviousHistory = historyFile
      BY <2>2 DEF PreviousHistory
    <3>2. QED  BY <3>1, CatalogVersionIs DEF Fits, Accounts
  <2>3. QED  BY <2>1, <2>2
<1> DEFINE h == Chain(PreviousHistory, cs, work.key)
           m == GeneratedManifest(manifestFile, source, work.key, h)
<1>4. /\ Replayable(h)
      /\ \A a \in Albums : LoggedVersion(h, a)
                             = IF a \in Listed(source.catalog)
                               THEN AlbumVersion(manifestFile, source, a) ELSE 0
  BY <1>1, <1>3, DiffContinues
<1>5. /\ work'.manifest = m /\ work'.history = h
      /\ m \in Manifests /\ h \in Seq(Entries)
  BY <1>2, BuildType DEF TypeInv, TypeOK
<1>6. m.catalog = [a \in Albums |->
                     IF source.catalog[a] = Unlisted THEN Unlisted
                     ELSE [content |-> source.catalog[a],
                           version |-> AlbumVersion(manifestFile, source, a)]]
  BY DEF GeneratedManifest
<1> HIDE DEF h, m
<1>7. ASSUME NEW a \in Albums
      PROVE  /\ CatalogVersion(m, a) = IF a \in Listed(source.catalog)
                                       THEN AlbumVersion(manifestFile, source, a) ELSE 0
             /\ a \in OldAlbums(m) => m.catalog[a].version > 0
  <2>1. CASE a \in Listed(source.catalog)
    <3>1. /\ source.catalog[a] \in Contents
          /\ m.catalog[a] = [content |-> source.catalog[a],
                             version |-> AlbumVersion(manifestFile, source, a)]
      BY <1>1, <1>6, <2>1 DEF Listed, Sources
    <3>2. AlbumVersion(manifestFile, source, a) \in Nat /\ AlbumVersion(manifestFile, source, a) > 0
      BY <1>1, <1>3, <2>1, VersionType, ChangeIs
    <3>3. m.catalog[a] \in PublishedAlbum
      BY <3>1, <3>2 DEF PublishedAlbum
    <3>4. m.catalog[a] # Unlisted
      BY <3>3, UnlistedAssumption
    <3>5. m.catalog[a].version = AlbumVersion(manifestFile, source, a)
      BY <3>1
    <3>6. QED  BY <2>1, <3>2, <3>4, <3>5 DEF CatalogVersion
  <2>2. CASE a \notin Listed(source.catalog)
    <3>1. m.catalog[a] = Unlisted /\ DOMAIN m.catalog = Albums
      BY <1>1, <1>6, <2>2 DEF Listed, Sources
    <3>2. m # NoFile
      BY <1>5, CLIAssumption
    <3>3. QED  BY <2>2, <3>1, <3>2 DEF CatalogVersion, OldAlbums, Listed
  <2>3. QED  BY <2>1, <2>2
<1>8. OldAlbums(m) \subseteq Albums
  BY <1>5, CLIAssumption DEF OldAlbums, Listed, Manifests
<1>9. QED  BY <1>4, <1>5, <1>7, <1>8 DEF Fits, Accounts

\* A rotation is no change of the catalog.
LEMMA RotateFits ==
  ASSUME TypeInv, Rotate, manifestFile = NoFile \/ Fits(manifestFile, historyFile)
  PROVE  Fits(work'.manifest, work'.history)
<1>1. /\ manifestFile \in Manifests /\ historyFile \in Seq(Entries) /\ manifestFile.key \in Keys
      /\ Fits(manifestFile, historyFile)
  BY ReadableType DEF Rotate, CanRotate, Readable, TypeInv, Manifests
<1> DEFINE c(k) == [type |-> "key_rotated", old |-> manifestFile.key, new |-> k]
           h(k) == Chain(historyFile, <<c(k)>>, manifestFile.key)
           m(k) == [manifestFile EXCEPT !.key = k, !.head = HeadHash(h(k)), !.signer = k]
<1>2. PICK k \in Keys :
        work' = [url |-> manifestFile.url, key |-> k, manifest |-> m(k), history |-> h(k)]
  BY DEF Rotate, Begin
<1>3. m(k) \in Manifests /\ h(k) \in Seq(Entries) /\ m(k).catalog = manifestFile.catalog
  <2>1. work'.manifest \in Manifests /\ work'.history \in Seq(Entries)
    BY RotateType
  <2>2. work'.manifest = m(k) /\ work'.history = h(k)
    BY <1>2
  <2>3. m(k).catalog = manifestFile.catalog
    BY <1>1 DEF Manifests
  <2>4. QED  BY <2>1, <2>2, <2>3
<1>4. c(k) \in Changes /\ c(k) \notin CatalogChanges
  BY <1>1 DEF Changes, KeyRotated, CatalogChanges, ReleaseAdded, ReleaseUpdated, ReleaseRemoved
<1> DEFINE cs == <<c(k)>>
<1> HIDE DEF c
<1>5. /\ cs \in Seq(Changes) /\ \A j \in DOMAIN cs : cs[j] \notin CatalogChanges
      /\ \A a : About(cs, a) = {}
  BY <1>4 DEF About
<1> HIDE DEF cs
<1>6. Replayable(h(k)) /\ \A a \in Albums : LoggedVersion(h(k), a) = LoggedVersion(historyFile, a)
  <2>1. h(k) = Chain(historyFile, cs, manifestFile.key)
    BY DEF cs
  <2>2. Replayable(Chain(historyFile, cs, manifestFile.key))
    BY <1>1, <1>5, ChainReplayable DEF Fits
  <2>3. \A a \in Albums : LoggedVersion(Chain(historyFile, cs, manifestFile.key), a)
                            = LoggedVersion(historyFile, a)
    BY <1>1, <1>5, ChainLogged
  <2>4. QED  BY <2>1, <2>2, <2>3
<1>7. m(k) # NoFile /\ manifestFile # NoFile
  BY <1>1, <1>3, CLIAssumption
<1> HIDE DEF h, m
<1>8. OldAlbums(m(k)) = OldAlbums(manifestFile)
      /\ \A a \in Albums : CatalogVersion(m(k), a) = CatalogVersion(manifestFile, a)
  BY <1>3, <1>7 DEF OldAlbums, CatalogVersion
<1>9. Fits(m(k), h(k))
  BY <1>1, <1>3, <1>6, <1>8 DEF Fits, Accounts
<1>10. QED  BY <1>2, <1>9

\* The pair fits on the disk, as long as nobody rewrites it, and in memory from where it is
\* built on.  Lost keys and other URLs do not matter: they change who signs, not what.
AccountInv ==
  incidents \subseteq {"keyLoss", "urlChange"} =>
    /\ ~Saving => (manifestFile = NoFile /\ historyFile = NoFile)
                    \/ Fits(manifestFile, historyFile)
    /\ Saving \/ Writing("rotate") => Fits(work.manifest, work.history)

LEMMA AccountInit == Init => AccountInv
BY DEF Init, AccountInv, Saving, Writing

LEMMA AccountStep == TypeInv /\ BindInv /\ AccountInv /\ [Next]_vars => AccountInv'
<1> SUFFICES ASSUME TypeInv, BindInv, AccountInv, [Next]_vars,
                    incidents' \subseteq {"keyLoss", "urlChange"}
             PROVE  /\ ~Saving' => (manifestFile' = NoFile /\ historyFile' = NoFile)
                                     \/ Fits(manifestFile, historyFile)'
                    /\ (Saving \/ Writing("rotate"))' => Fits(work.manifest, work.history)'
  BY DEF AccountInv
<1> DEFINE OnDisk   == ~Saving => (manifestFile = NoFile /\ historyFile = NoFile)
                                    \/ Fits(manifestFile, historyFile)
           InMemory == Saving \/ Writing("rotate") => Fits(work.manifest, work.history)
<1>0. OnDisk /\ InMemory
  BY IncidentsStay DEF AccountInv
<1>p. /\ UNCHANGED <<manifestFile, historyFile>> =>
           (Fits(manifestFile, historyFile)' <=> Fits(manifestFile, historyFile))
      /\ UNCHANGED work => (Fits(work.manifest, work.history)' <=> Fits(work.manifest, work.history))
  BY DEF Fits, Accounts, Replayable, CatalogVersion, OldAlbums, Listed
<1> USE DEF Saving, Writing, files
<1>1. ASSUME NEW u \in Urls, Keygen(u) PROVE OnDisk' /\ InMemory'
  BY <1>0, <1>1, <1>p DEF Keygen, Begin
<1>2. ASSUME NEW c \in {"keygen", "generate", "rotate"}, Refuse(c) PROVE OnDisk' /\ InMemory'
  BY <1>0, <1>2, <1>p DEF Refuse, Return
<1>3. CASE GenerateWithKey \/ GenerateNewKey
  BY <1>0, <1>3, <1>p DEF GenerateWithKey, GenerateNewKey, Begin
<1>4. CASE Build
  <2>1. pc = "load" /\ pc' = "saveManifest" /\ UNCHANGED <<manifestFile, historyFile>>
    BY <1>4 DEF Build
  <2>2. Fits(work'.manifest, work'.history)
    BY <1>0, <1>4, <2>1, BuildFits
  <2>3. Fits(work.manifest, work.history)'
    BY <2>2 DEF Fits, Accounts, Replayable, CatalogVersion, OldAlbums, Listed
  <2>4. QED  BY <2>1, <2>3
<1>5. CASE BuildRefused
  BY <1>0, <1>5, <1>p DEF BuildRefused, Return
<1>6. CASE Rotate
  <2>1. /\ pc = "idle" /\ pc' = "saveKey" /\ UNCHANGED <<manifestFile, historyFile>>
    BY <1>6 DEF Rotate, Begin
  <2>2. Fits(work'.manifest, work'.history)
    BY <1>0, <1>6, <2>1, RotateFits
  <2>3. Fits(work.manifest, work.history)'
    BY <2>2 DEF Fits, Accounts, Replayable, CatalogVersion, OldAlbums, Listed
  <2>4. QED  BY <1>0, <1>p, <2>1, <2>3
<1>7. CASE TruncateKey
  BY <1>0, <1>7, <1>p DEF TruncateKey
<1>8. CASE FillKey
  <2>1. pc = "fillKey" /\ UNCHANGED <<manifestFile, historyFile, cmd>>
    BY <1>8 DEF FillKey
  <2>2. CASE cmd = "keygen" /\ Return("ok")
    BY <1>0, <1>p, <2>1, <2>2 DEF Return
  <2>3. CASE cmd = "generate" /\ pc' = "load" /\ UNCHANGED <<work, exit>>
    BY <1>0, <1>p, <2>1, <2>3
  <2>4. CASE cmd = "rotate" /\ pc' = "saveManifest" /\ UNCHANGED <<work, exit>>
    BY <1>0, <1>p, <2>1, <2>4
  <2>5. QED  BY <1>8, <2>2, <2>3, <2>4 DEF FillKey
<1>9. CASE TruncateManifest \/ FillManifest \/ TruncateHistory
  BY <1>0, <1>9, <1>p DEF TruncateManifest, FillManifest, TruncateHistory
<1>10. CASE FillHistory
  <2>1. /\ pc = "fillHistory" /\ pc' = "idle" /\ historyFile' = work.history
        /\ manifestFile' = work.manifest /\ Fits(work.manifest, work.history)
    BY <1>0, <1>10 DEF FillHistory, Return, BindInv
  <2>2. Fits(manifestFile, historyFile)'
    BY <2>1 DEF Fits, Accounts, Replayable, CatalogVersion, OldAlbums, Listed
  <2>3. QED  BY <2>1, <2>2
<1>11. ASSUME NEW s \in Sources, EditSource(s) PROVE OnDisk' /\ InMemory'
  BY <1>0, <1>11, <1>p DEF EditSource
<1>12. ASSUME NEW f \in Slugs, LoseKey(f) PROVE OnDisk' /\ InMemory'
  BY <1>0, <1>12, <1>p DEF LoseKey
<1>13. ASSUME Crash \/ LoseManifest PROVE FALSE
  BY <1>13 DEF Crash, LoseManifest, Incident
<1>14. CASE UNCHANGED vars
  BY <1>0, <1>14, <1>p DEF vars
<1>15. QED
  BY <1>1, <1>2, <1>3, <1>4, <1>5, <1>6, <1>7, <1>8, <1>9, <1>10, <1>11, <1>12, <1>13, <1>14
     DEF Next, Command, Write, Environment, KeygenRefused, GenerateRefused, RotateRefused

\* As long as no command dies half-way and no manifest is removed, the log beside the
\* manifest is a complete account of its catalog: replaying it yields the albums and their
\* versions, entry by entry (diff in generate.go), whoever has signed it.
THEOREM LogTellsCatalog == Spec => []LogAccountsForCatalog
<1>1. AccountInv => LogAccountsForCatalog
  BY DEF AccountInv, LogAccountsForCatalog, AtRest, Readable, Saving, Fits
<1>2. QED
  BY <1>1, TypeInit, TypeStep, BindInit, BindStep, AccountInit, AccountStep, PTL DEF Spec
=============================================================================
