------------------------------ MODULE ArtistCLI ------------------------------
(***************************************************************************)
(* endonend-artist-cli on one machine: the source file its user edits, the *)
(* key store, the signed manifest and its history log, and the commands    *)
(* generate (generate.Run), keygen and keygen --rotate (generate.Rotate).  *)
(*                                                                         *)
(* A command computes in memory and then writes its files one after the    *)
(* other with os.WriteFile, which truncates a file before it fills it.     *)
(* Each truncation and each fill is a step of its own, so that a command   *)
(* can die between any two of them and leave a torn file or a manifest     *)
(* that is ahead of its log.                                               *)
(***************************************************************************)
EXTENDS Protocol, SequencesExt

CONSTANTS
  Slug,      \* Slug[u]: the name of the key file of the URL u, which others may share
  NoFile,    \* the file does not exist
  Torn,      \* the file was truncated and not filled: it does not parse
  Faults,    \* what may go wrong in a run
  MaxEdits   \* bound: edits of the source file

FaultKinds == {"crash", "keyLoss", "manifestLoss", "urlChange"}

Slugs == {Slug[u] : u \in Urls}

ASSUME CLIAssumption ==
  /\ Slug \in [Urls -> Slugs]
  /\ Faults \subseteq FaultKinds
  /\ MaxEdits \in Nat
  /\ NoFile # Torn
  /\ IsFiniteSet(Albums)
  /\ {NoFile, Torn} \cap Keys = {}
  /\ {NoFile, Torn} \cap Manifests = {}
  /\ {NoFile, Torn} \cap Seq(Entries) = {}

VARIABLES
  source,        \* endonend.source.json
  keyFile,       \* the key store: one private key file per Slug
  manifestFile,  \* manifest.json
  historyFile,   \* history.json
  cmd,           \* the command running, or the last one that ran
  pc,            \* its next step
  work,          \* what it holds in memory: key, manifest, history
  exit,          \* the exit status of the last command
  issued,        \* keys GenerateKeypair has returned so far
  edits,         \* edits of the source file so far
  incidents      \* the faults that have happened

files == <<keyFile, manifestFile, historyFile>>
vars  == <<source, files, cmd, pc, work, exit, issued, edits, incidents>>

-----------------------------------------------------------------------------
Readable(f) == f \notin {NoFile, Torn}

Sources ==
  [url : Urls, type : {"artist", "label"}, profile : Profiles, label : Labels,
   extra : Extras, catalog : [Albums -> Contents \cup {Unlisted}]]

\* Of what the validator looks at: a catalog for an artist only, front covers, and
\* distinct ids.
validateSource(s) ==
  /\ s.type = "artist" <=> Listed(s.catalog) # {}
  /\ Pictured(s.catalog)
  /\ UniqueTracks(s.catalog)

NoWork == [url |-> NoFile, key |-> NoFile, manifest |-> NoFile, history |-> NoFile]

\* GenerateKeypair draws from rand.Reader: a key never comes up twice.
FreshKey(k) == k \in Keys \ issued

-----------------------------------------------------------------------------
\* diff: what the change from the manifest m (or NoFile) to the source s implies.

OldAlbums(m) == IF m = NoFile THEN {} ELSE Listed(m.catalog)

AlbumVersion(m, s, a) ==
  IF a \notin OldAlbums(m) THEN 1
  ELSE IF m.catalog[a].content = s.catalog[a] THEN m.catalog[a].version
  ELSE m.catalog[a].version + 1

IdentityChanges(m, s) ==
  {c \in IdentityUpdated : c.old = m.profile /\ c.new = s.profile /\ c.old # c.new}

LabelChanges(m, s) ==
  {c \in SplitChanged : c.old = m.label /\ c.new = s.label /\ c.old # c.new}

AddedAlbums(m, s) ==
  {[type |-> "release_added", album |-> a] : a \in Listed(s.catalog) \ OldAlbums(m)}

\* Mutant: the entry names the version before it is bumped.
UpdatedAlbumsUnbumped(m, s) ==
  {[type |-> "release_updated", album |-> a,
    old |-> m.catalog[a].version, new |-> m.catalog[a].version] :
     a \in {b \in OldAlbums(m) \cap Listed(s.catalog) : m.catalog[b].content # s.catalog[b]}}

UpdatedAlbums(m, s) ==
  {[type |-> "release_updated", album |-> a,
    old |-> m.catalog[a].version, new |-> AlbumVersion(m, s, a)] :
     a \in {b \in OldAlbums(m) \cap Listed(s.catalog) : m.catalog[b].content # s.catalog[b]}}

RemovedAlbums(m, s) ==
  {[type |-> "release_removed", album |-> a, version |-> m.catalog[a].version] :
     a \in OldAlbums(m) \ Listed(s.catalog)}

diff(m, s) ==
  (IF m = NoFile THEN {} ELSE IdentityChanges(m, s) \cup LabelChanges(m, s))
    \cup AddedAlbums(m, s) \cup UpdatedAlbums(m, s) \cup RemovedAlbums(m, s)

\* Identity first, then the label, the albums of the source in its order, and
\* the removed albums in the order of a Go map: any.
Rank(c) == CASE c.type = "identity_updated" -> 1
             [] c.type = "split_changed"    -> 2
             [] c.type = "release_removed"  -> 4
             [] OTHER                       -> 3

DiffOrders(m, s) ==
  {cs \in SetToSeqs(diff(m, s)) :
     \A i, j \in DOMAIN cs : i < j => Rank(cs[i]) <= Rank(cs[j])}

\* Mutant: the manifest is not signed.
GeneratedManifestUnsigned(m, s, k, h) ==
  [url |-> s.url, type |-> s.type, key |-> k, profile |-> s.profile, label |-> s.label,
   extra |-> s.extra,
   catalog |-> [a \in Albums |->
                  IF s.catalog[a] = Unlisted THEN Unlisted
                  ELSE [content |-> s.catalog[a], version |-> AlbumVersion(m, s, a)]],
   head |-> HeadHash(h), signer |-> NoFile]

\* Mutant: headHash is the last entry's previousHash instead of its hash.
GeneratedManifestBehind(m, s, k, h) ==
  [url |-> s.url, type |-> s.type, key |-> k, profile |-> s.profile, label |-> s.label,
   extra |-> s.extra,
   catalog |-> [a \in Albums |->
                  IF s.catalog[a] = Unlisted THEN Unlisted
                  ELSE [content |-> s.catalog[a], version |-> AlbumVersion(m, s, a)]],
   head |-> IF h = <<>> THEN <<>> ELSE h[Len(h)].prev, signer |-> k]

GeneratedManifest(m, s, k, h) ==
  [url |-> s.url, type |-> s.type, key |-> k, profile |-> s.profile, label |-> s.label,
   extra |-> s.extra,
   catalog |-> [a \in Albums |->
                  IF s.catalog[a] = Unlisted THEN Unlisted
                  ELSE [content |-> s.catalog[a], version |-> AlbumVersion(m, s, a)]],
   head |-> HeadHash(h), signer |-> k]

-----------------------------------------------------------------------------
Init ==
  /\ source \in {s \in Sources : validateSource(s)}
  /\ keyFile = [f \in Slugs |-> NoFile]
  /\ manifestFile = NoFile
  /\ historyFile = NoFile
  /\ cmd = "none"
  /\ pc = "idle"
  /\ work = NoWork
  /\ exit = "none"
  /\ issued = {}
  /\ edits = 0
  /\ incidents = {}

\* The user, or the menu, rewrites the source file.
EditSource(s) ==
  /\ pc = "idle"
  /\ edits < MaxEdits
  /\ s # source
  /\ s.url # source.url => "urlChange" \in Faults
  /\ source' = s
  /\ edits' = edits + 1
  /\ incidents' = incidents \cup (IF s.url # source.url THEN {"urlChange"} ELSE {})
  /\ UNCHANGED <<files, cmd, pc, work, exit, issued>>

\* The command c begins: it holds w in memory, and label is its next step.
Begin(c, w, label) ==
  /\ pc = "idle"
  /\ cmd' = c
  /\ pc' = label
  /\ work' = w
  /\ exit' = "none"
  /\ UNCHANGED <<source, files, edits, incidents>>

\* The running command returns with the exit status e.
Return(e) == pc' = "idle" /\ exit' = e /\ work' = NoWork

\* The command c returns an error before it has touched anything.
Refuse(c) ==
  /\ pc = "idle"
  /\ cmd' = c
  /\ Return("error")
  /\ UNCHANGED <<source, files, issued, edits, incidents>>

-----------------------------------------------------------------------------
\* keygen --url u

Keygen(u) ==
  /\ keyFile[Slug[u]] = NoFile
  /\ \E k \in Keys :
       /\ FreshKey(k)
       /\ issued' = issued \cup {k}
       /\ Begin("keygen", [NoWork EXCEPT !.url = u, !.key = k], "saveKey")

KeygenRefused(u) == keyFile[Slug[u]] # NoFile /\ Refuse("keygen")

-----------------------------------------------------------------------------
\* generate

\* The key of the source's identity is loaded...
GenerateWithKey ==
  /\ validateSource(source)
  /\ keyFile[Slug[source.url]] \in Keys
  /\ Begin("generate", [NoWork EXCEPT !.url = source.url, !.key = keyFile[Slug[source.url]]], "load")
  /\ UNCHANGED issued

\* ... or, when there is none, a new one is made without asking.
GenerateNewKey ==
  /\ validateSource(source)
  /\ keyFile[Slug[source.url]] = NoFile
  /\ \E k \in Keys :
       /\ FreshKey(k)
       /\ issued' = issued \cup {k}
       /\ Begin("generate", [NoWork EXCEPT !.url = source.url, !.key = k], "saveKey")

GenerateRefused ==
  /\ ~validateSource(source) \/ keyFile[Slug[source.url]] = Torn
  /\ Refuse("generate")

\* loadPrevious: a missing manifest starts a new log, whether or not there is a
\* history file; a manifest without a readable log is an error.
CannotLoad == manifestFile # NoFile /\ ~(Readable(manifestFile) /\ Readable(historyFile))

\* Mutant: another identity.url starts a log of its own over the old one.
PreviousHistoryOfUrl ==
  IF manifestFile = NoFile \/ manifestFile.url # source.url THEN <<>> ELSE historyFile

PreviousHistory == IF manifestFile = NoFile THEN <<>> ELSE historyFile

\* Diff, sign and chain the new entries, and build and sign the manifest.
Build ==
  /\ pc = "load"
  /\ ~CannotLoad
  /\ \E cs \in DiffOrders(manifestFile, source) :
       LET h == Chain(PreviousHistory, cs, work.key) IN
       work' = [work EXCEPT
                  !.manifest = GeneratedManifest(manifestFile, source, work.key, h),
                  !.history = h]
  /\ pc' = "saveManifest"
  /\ UNCHANGED <<source, files, cmd, exit, issued, edits, incidents>>

BuildRefused ==
  /\ pc = "load"
  /\ CannotLoad
  /\ Return("error")
  /\ UNCHANGED <<source, files, cmd, issued, edits, incidents>>

-----------------------------------------------------------------------------
\* keygen --rotate

CanRotate ==
  /\ Readable(manifestFile)
  /\ Readable(historyFile)
  /\ keyFile[Slug[manifestFile.url]] = manifestFile.key

\* Mutant: the manifest keeps the headHash of the log before the rotation.
RotateKeepsHead ==
  /\ CanRotate
  /\ \E k \in Keys :
       LET rotated == [type |-> "key_rotated", old |-> manifestFile.key, new |-> k]
           h == Chain(historyFile, <<rotated>>, manifestFile.key)
           m == [manifestFile EXCEPT !.key = k, !.signer = k]
       IN /\ FreshKey(k)
          /\ issued' = issued \cup {k}
          /\ Begin("rotate", [url |-> manifestFile.url, key |-> k, manifest |-> m, history |-> h],
                   "saveKey")

\* Mutant: the rotation entry is signed by the new key.
RotateSignsWithNewKey ==
  /\ CanRotate
  /\ \E k \in Keys :
       LET rotated == [type |-> "key_rotated", old |-> manifestFile.key, new |-> k]
           h == Chain(historyFile, <<rotated>>, k)
           m == [manifestFile EXCEPT !.key = k, !.head = HeadHash(h), !.signer = k]
       IN /\ FreshKey(k)
          /\ issued' = issued \cup {k}
          /\ Begin("rotate", [url |-> manifestFile.url, key |-> k, manifest |-> m, history |-> h],
                   "saveKey")

\* The rotation entry is signed by the key it retires, the manifest by the new one.
Rotate ==
  /\ CanRotate
  /\ \E k \in Keys :
       LET rotated == [type |-> "key_rotated", old |-> manifestFile.key, new |-> k]
           h == Chain(historyFile, <<rotated>>, manifestFile.key)
           m == [manifestFile EXCEPT !.key = k, !.head = HeadHash(h), !.signer = k]
       IN /\ FreshKey(k)
          /\ issued' = issued \cup {k}
          /\ Begin("rotate", [url |-> manifestFile.url, key |-> k, manifest |-> m, history |-> h],
                   "saveKey")

RotateRefused == ~CanRotate /\ Refuse("rotate")

-----------------------------------------------------------------------------
\* The writes: SavePrivateKey and writeJSON, each a truncation and a fill.

TruncateKey ==
  /\ pc = "saveKey"
  /\ keyFile' = [keyFile EXCEPT ![Slug[work.url]] = Torn]
  /\ pc' = "fillKey"
  /\ UNCHANGED <<source, manifestFile, historyFile, cmd, work, exit, issued, edits, incidents>>

\* Mutant: a rotation saves the key that it retires.
FillKeyWithOldKey ==
  /\ pc = "fillKey"
  /\ keyFile' = [keyFile EXCEPT ![Slug[work.url]] = IF cmd = "rotate" THEN manifestFile.key ELSE work.key]
  /\ \/ cmd = "keygen" /\ Return("ok")
     \/ cmd = "generate" /\ pc' = "load" /\ UNCHANGED <<work, exit>>
     \/ cmd = "rotate" /\ pc' = "saveManifest" /\ UNCHANGED <<work, exit>>
  /\ UNCHANGED <<source, manifestFile, historyFile, cmd, issued, edits, incidents>>

FillKey ==
  /\ pc = "fillKey"
  /\ keyFile' = [keyFile EXCEPT ![Slug[work.url]] = work.key]
  /\ \/ cmd = "keygen" /\ Return("ok")
     \/ cmd = "generate" /\ pc' = "load" /\ UNCHANGED <<work, exit>>
     \/ cmd = "rotate" /\ pc' = "saveManifest" /\ UNCHANGED <<work, exit>>
  /\ UNCHANGED <<source, manifestFile, historyFile, cmd, issued, edits, incidents>>

TruncateManifest ==
  /\ pc = "saveManifest"
  /\ manifestFile' = Torn
  /\ pc' = "fillManifest"
  /\ UNCHANGED <<source, keyFile, historyFile, cmd, work, exit, issued, edits, incidents>>

FillManifest ==
  /\ pc = "fillManifest"
  /\ manifestFile' = work.manifest
  /\ pc' = "saveHistory"
  /\ UNCHANGED <<source, keyFile, historyFile, cmd, work, exit, issued, edits, incidents>>

TruncateHistory ==
  /\ pc = "saveHistory"
  /\ historyFile' = Torn
  /\ pc' = "fillHistory"
  /\ UNCHANGED <<source, keyFile, manifestFile, cmd, work, exit, issued, edits, incidents>>

FillHistory ==
  /\ pc = "fillHistory"
  /\ historyFile' = work.history
  /\ Return("ok")
  /\ UNCHANGED <<source, keyFile, manifestFile, cmd, issued, edits, incidents>>

-----------------------------------------------------------------------------
\* What may go wrong.

Incident(f) == f \in Faults /\ incidents' = incidents \cup {f}

\* The process dies, or a write fails: the command stops where it is.
Crash ==
  /\ Incident("crash")
  /\ pc # "idle"
  /\ Return("error")
  /\ UNCHANGED <<source, files, cmd, issued, edits>>

\* A private key is lost: another machine, a cleaned home directory.
LoseKey(f) ==
  /\ Incident("keyLoss")
  /\ pc = "idle"
  /\ keyFile[f] # NoFile
  /\ keyFile' = [keyFile EXCEPT ![f] = NoFile]
  /\ UNCHANGED <<source, manifestFile, historyFile, cmd, pc, work, exit, issued, edits>>

\* manifest.json is removed, say because it was torn and did not parse.
LoseManifest ==
  /\ Incident("manifestLoss")
  /\ pc = "idle"
  /\ manifestFile # NoFile
  /\ manifestFile' = NoFile
  /\ exit' = "none"
  /\ UNCHANGED <<source, keyFile, historyFile, cmd, pc, work, issued, edits>>

-----------------------------------------------------------------------------
Command ==
  \/ \E u \in Urls : Keygen(u) \/ KeygenRefused(u)
  \/ GenerateWithKey \/ GenerateNewKey \/ GenerateRefused
  \/ Build \/ BuildRefused
  \/ Rotate \/ RotateRefused

Write ==
  \/ TruncateKey \/ FillKey
  \/ TruncateManifest \/ FillManifest
  \/ TruncateHistory \/ FillHistory

Environment ==
  \/ \E s \in Sources : EditSource(s)
  \/ \E f \in Slugs : LoseKey(f)
  \/ Crash \/ LoseManifest

Next == Command \/ Write \/ Environment

Spec == Init /\ [][Next]_vars

-----------------------------------------------------------------------------
\* Properties.

FileOf(S) == S \cup {NoFile, Torn}

\* Every variable holds a value of its type: source, key store, the two signed
\* files, and the memory of the running command (generate.go, rotate.go).
TypeOK ==
  /\ source \in Sources
  /\ keyFile \in [Slugs -> FileOf(Keys)]
  /\ manifestFile \in FileOf(Manifests)
  /\ historyFile \in FileOf(Seq(Entries))
  /\ cmd \in {"none", "keygen", "generate", "rotate"}
  /\ pc \in {"idle", "load", "saveKey", "fillKey", "saveManifest", "fillManifest",
             "saveHistory", "fillHistory"}
  /\ work \in [url : Urls \cup {NoFile}, key : Keys \cup {NoFile},
               manifest : Manifests \cup {NoFile}, history : Seq(Entries) \cup {NoFile}]
  /\ exit \in {"none", "ok", "error"}
  /\ issued \subseteq Keys
  /\ edits \in 0 .. MaxEdits
  /\ incidents \subseteq Faults

Saving == pc \in {"saveManifest", "fillManifest", "saveHistory", "fillHistory"}

\* Between commands, and with both files in place.
AtRest == pc = "idle" /\ Readable(manifestFile) /\ Readable(historyFile)

\* generate or rotate has just returned 0.
Succeeded == pc = "idle" /\ exit = "ok" /\ cmd \in {"generate", "rotate"}

\* What the validator asks for and validateSource does not: a version it knows, tracks on
\* every album, well-formed URLs, splits that add up.  generate copies these from the
\* source as they are.
SourceInOrder(m) ==
  /\ m.extra \notin Fails["version"]
  /\ \A a \in Listed(m.catalog) : Tracks[ContentOf(m)[a]] # {}
  /\ CheckURLFields(m)
  /\ CheckSplitsSumTo100(m)

\* A tool that is left to finish and keeps its key and its URL writes pairs that the
\* shared validator rejects only for what the artist wrote: where those parts of the
\* source are in order, it accepts the pair, through edits, refused commands and
\* rotations (generate.Run, generate.Rotate against validate.validateBytes).
CleanPairValid ==
  incidents = {} /\ AtRest =>
    (Validates(manifestFile, historyFile) <=> SourceInOrder(manifestFile))

\* ... and holds the key the manifest names, so that the next rotation is
\* possible (the comparison in rotate.go that refuses to rotate otherwise).
KeyInStore ==
  incidents = {} /\ AtRest => keyFile[Slug[manifestFile.url]] = manifestFile.key

Mentions(h, a) == {i \in DOMAIN h : h[i].data \in CatalogChanges /\ h[i].data.album = a}

\* The version of album a that the log h records: 0 when it is not in the catalog.
LoggedVersion(h, a) ==
  LET c == h[CHOOSE i \in Mentions(h, a) : \A j \in Mentions(h, a) : j <= i].data
  IN  IF Mentions(h, a) = {} \/ c.type = "release_removed" THEN 0
      ELSE IF c.type = "release_added" THEN 1
      ELSE c.new

CatalogVersion(m, a) == IF m.catalog[a] # Unlisted THEN m.catalog[a].version ELSE 0

Accounts(h, m) == \A a \in Albums : LoggedVersion(h, a) = CatalogVersion(m, a)

\* Each entry about an album starts from the version that the log before it had
\* reached: the log can be replayed without the manifests.
Replayable(h) ==
  \A i \in DOMAIN h :
    LET c == h[i].data
        before == LoggedVersion(SubSeq(h, 1, i - 1), c.album)
    IN  c \in CatalogChanges =>
          CASE c.type = "release_added"   -> before = 0
            [] c.type = "release_updated" -> before = c.old /\ c.new = c.old + 1
            [] c.type = "release_removed" -> before = c.version /\ before > 0

\* The log is a complete account of the catalog: replaying its entries gives
\* the albums and the versions of the manifest beside it (diff in generate.go).
LogAccountsForCatalog ==
  incidents \subseteq {"keyLoss", "urlChange"} /\ AtRest =>
    Replayable(historyFile) /\ Accounts(historyFile, manifestFile)

SoundLog(h) ==
  /\ VerifyChain(h)
  /\ \A i \in Rotations(h) : h[i].signer = h[i].data.old

\* Whatever has gone wrong before, a log that can be read is an unbroken chain
\* in which every rotation is signed by the key it retires.
ReadableLogIsChain == Readable(historyFile) => SoundLog(historyFile)

\* Whatever has gone wrong before, a command that reports success leaves a
\* manifest that is signed under the key it names and bound to the log beside it.
SuccessBindsPair ==
  Succeeded =>
    /\ AtRest
    /\ CheckSignature(manifestFile)
    /\ VerifyChain(historyFile) /\ manifestFile.head = HeadHash(historyFile)

\* As long as manifest.json has not been removed, a log on the disk is only ever
\* replaced by one that extends it, also across crashes, lost keys and changed
\* URLs ("append-only, never rewritten", KB/0003-manifest.md:206).
LogOnlyGrows ==
  "manifestLoss" \notin incidents /\ Saving /\ Readable(historyFile) =>
    IsPrefix(historyFile, work.history)

\* Between commands, the key in the store is the one that the log has handed
\* over to (rotate.go:25-29).
StoredKeyIsAuthorised ==
  AtRest /\ keyFile[Slug[manifestFile.url]] \in Keys =>
    keyFile[Slug[manifestFile.url]] = KeyBefore(historyFile, manifestFile.key, Len(historyFile) + 1)

-----------------------------------------------------------------------------
\* The abstract log.  A command takes effect when it has built its result: from
\* there on the files only catch up with its memory.
Log == INSTANCE SignedLog WITH
  NoOwner <- NoFile,
  log   <- IF work.history # NoFile THEN work.history
           ELSE IF historyFile = NoFile THEN <<>> ELSE historyFile,
  owner <- IF work.manifest # NoFile THEN work.manifest.key
           ELSE IF manifestFile = NoFile THEN NoFile ELSE manifestFile.key

\* Without faults the tool implements the abstract log: entries are only added,
\* by the owner of the log, and the key changes only with an entry signed by the
\* key that is retired (generate.Run, generate.Rotate).
ImplementsSignedLog == Log!Spec
=============================================================================
