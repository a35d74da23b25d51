--------------------------- MODULE PublishProofs ---------------------------
(***************************************************************************)
(* Theorems about Publish, for any pages, any number of imports and        *)
(* revisions, and any failures.                                            *)
(***************************************************************************)
EXTENDS Publish, SequenceTheorems, FiniteSetTheorems, WellFoundedInduction, TLAPS

Generating == {"truncate-manifest", "fill-manifest", "truncate-history", "fill-history"}

Publishing ==
  {"pair", "stage", "init", "origin", "add-origin", "add", "commit", "push", "pages"}

IsSeq(q) == q \in Seq(ToSet(q))

\* The fields of the records, and no others.
Shapes ==
  /\ out = [manifest |-> out.manifest, history |-> out.history, files |-> out.files]
  /\ repo = [init |-> repo.init, origin |-> repo.origin, index |-> repo.index, log |-> repo.log]
  /\ remote = [exists |-> remote.exists, pages |-> remote.pages, log |-> remote.log]
  /\ IsSeq(repo.log) /\ IsSeq(remote.log)
  /\ pc \in Publishing =>
       work = [page |-> work.page, skip |-> work.skip, ident |-> work.ident, menu |-> work.menu,
               before |-> work.before, source |-> work.source, todo |-> work.todo]

\* The manifest that publish has read, and the tree with it, on their way to GitHub.
OnItsWay ==
  /\ pc \in Publishing => work.source = manifestFile
  /\ pc \in Publishing \ {"pair"} => out.manifest = manifestFile /\ out.history = historyFile
  /\ pc = "commit" => repo.index = out
  /\ pc = "push" => Tip(repo.log) = out
  /\ pc = "pages" => Tip(remote.log) = out
  /\ exit = "published" => /\ pc = "idle" /\ remote.pages
                           /\ Tip(remote.log).manifest = work.source

\* Nothing on GitHub is missing here, wherever an earlier publish has failed.
Behind ==
  /\ pc \in Publishing \ {"pair", "stage"} => remote.exists
  /\ pc \in {"add", "commit", "push", "pages"} => repo.origin
  /\ losses = 0 => IsPrefix(remote.log, repo.log)

PublishInv == Shapes /\ OnItsWay /\ Behind

-----------------------------------------------------------------------------
\* Logs.

LEMMA SeqOfMore ==
  ASSUME NEW S, NEW T, NEW q \in Seq(S), S \subseteq T
  PROVE  q \in Seq(T)
OBVIOUS

LEMMA AppendedLog ==
  ASSUME NEW q, IsSeq(q), NEW v
  PROVE  /\ IsSeq(Append(q, v)) /\ Append(q, v) # <<>>
         /\ Tip(Append(q, v)) = v.tree
<1> DEFINE S == ToSet(q) \cup {v}
<1>1. q \in Seq(S)
  BY SeqOfMore DEF IsSeq
<1>2. /\ Append(q, v) \in Seq(S) /\ Len(q) \in Nat
      /\ Len(Append(q, v)) = Len(q) + 1 /\ Append(q, v)[Len(q) + 1] = v
      /\ \A i \in 1 .. Len(q) : Append(q, v)[i] = q[i]
      /\ DOMAIN q = 1 .. Len(q) /\ DOMAIN Append(q, v) = 1 .. (Len(q) + 1)
  BY <1>1
<1>3. S \subseteq ToSet(Append(q, v))
  <2>1. v \in ToSet(Append(q, v))
    BY <1>2 DEF ToSet
  <2>2. ToSet(q) \subseteq ToSet(Append(q, v))
    BY <1>2 DEF ToSet
  <2>3. QED  BY <2>1, <2>2
<1>4. IsSeq(Append(q, v))
  BY <1>2, <1>3, SeqOfMore DEF IsSeq
<1>5. Append(q, v) # <<>>
  BY <1>2
<1>6. Tip(Append(q, v)) = v.tree
  BY <1>2, <1>5 DEF Tip, Last
<1>7. QED  BY <1>4, <1>5, <1>6

LEMMA PrefixOfSelf ==
  ASSUME NEW q, IsSeq(q)
  PROVE  IsPrefix(q, q)
BY DEF IsSeq, IsPrefix

LEMMA PrefixOfAppended ==
  ASSUME NEW q, IsSeq(q), NEW r, IsSeq(r), IsPrefix(r, q), NEW v
  PROVE  IsPrefix(r, Append(q, v))
<1> DEFINE S == ToSet(q) \cup ToSet(r) \cup {v}
<1>1. q \in Seq(S) /\ r \in Seq(S) /\ v \in S
  BY SeqOfMore DEF IsSeq
<1>2. Len(r) \in Nat /\ Len(q) \in Nat /\ Len(r) <= Len(q) /\ Len(Append(q, v)) = Len(q) + 1
  BY <1>1 DEF IsPrefix
<1>3. \A i \in 1 .. Len(r) : Append(q, v)[i] = q[i]
  BY <1>1, <1>2
<1>4. SubSeq(Append(q, v), 1, Len(r)) = SubSeq(q, 1, Len(r))
  <2>1. /\ SubSeq(Append(q, v), 1, Len(r)) \in Seq(S) /\ SubSeq(q, 1, Len(r)) \in Seq(S)
        /\ Len(SubSeq(Append(q, v), 1, Len(r))) = Len(r) /\ Len(SubSeq(q, 1, Len(r))) = Len(r)
    BY <1>1, <1>2
  <2>2. \A i \in 1 .. Len(r) :
          SubSeq(Append(q, v), 1, Len(r))[i] = SubSeq(q, 1, Len(r))[i]
    BY <1>1, <1>2, <1>3
  <2>3. QED  BY <2>1, <2>2, SeqEqual
<1>5. QED  BY <1>2, <1>4 DEF IsPrefix

-----------------------------------------------------------------------------
\* Import and publish do not run at the same time: a step of import leaves the staging
\* directory and both repositories alone, and never reports that it has published.
LEMMA ImportApart ==
  ASSUME Importing(ImportNext), pc # "idle" => exit # "published"
  PROVE  /\ UNCHANGED <<manifestFile, historyFile, logs, out, repo, remote, losses>>
         /\ \/ UNCHANGED <<pc, work, exit, assets>>
            \/ pc' \notin Publishing \cup Generating /\ exit' # "published"
<1>1. UNCHANGED <<manifestFile, historyFile, logs, out, repo, remote, losses>> /\ ImportNext
  BY DEF Importing, publishVars, pair
<1> USE DEF Publishing, Generating
<1>2. CASE Begin
  BY <1>1, <1>2 DEF Begin
<1>3. CASE Crash
  BY <1>1, <1>3 DEF Crash
<1>4. CASE SpinnerTicks \/ SpinnerEnds \/ OrphanTicks
  BY <1>1, <1>4 DEF SpinnerTicks, SpinnerEnds, OrphanTicks, files
<1>5. CASE FetchFails \/ Refuse \/ Fetched \/ DownloadFails \/ Downloaded
  BY <1>1, <1>5 DEF FetchFails, Refuse, Fetched, DownloadFails, Downloaded, Stopping
<1>6. CASE Create \/ Copy \/ StopReturns \/ TruncateSource \/ FillSource \/ WriteFails
  BY <1>1, <1>6 DEF Create, Copy, StopReturns, TruncateSource, FillSource, WriteFails
<1>7. QED  BY <1>1, <1>2, <1>3, <1>4, <1>5, <1>6 DEF ImportNext, importBandcamp

LEMMA ImportStep ==
  ASSUME PublishInv, Importing(ImportNext)
  PROVE  PublishInv'
<1>1. /\ UNCHANGED <<manifestFile, historyFile, out, repo, remote, losses>>
      /\ \/ UNCHANGED <<pc, work, exit>>
         \/ pc' \notin Publishing /\ exit' # "published"
  BY ImportApart DEF PublishInv, OnItsWay
<1>2. CASE UNCHANGED <<pc, work, exit>>
  BY <1>1, <1>2 DEF PublishInv, Shapes, OnItsWay, Behind, IsSeq, Tip
<1>3. CASE pc' \notin Publishing /\ exit' # "published"
  BY <1>1, <1>3 DEF PublishInv, Shapes, OnItsWay, Behind, IsSeq, Publishing
<1>4. QED  BY <1>1, <1>2, <1>3

LEMMA BeginStep ==
  ASSUME PublishInv, BeginPublish
  PROVE  PublishInv'
<1>1. /\ pc' = "pair" /\ exit' = "running"
      /\ UNCHANGED <<manifestFile, out, repo, remote, losses>>
      /\ work' = [Idle EXCEPT !.before = sourceFile, !.source = manifestFile,
                              !.todo = SetToSeq(AssetsOf(manifestFile))]
  BY DEF BeginPublish, PublishAt, pair
<1>3. work' = [page |-> Idle.page, skip |-> Idle.skip, ident |-> Idle.ident, menu |-> Idle.menu,
               before |-> sourceFile, source |-> manifestFile,
               todo |-> SetToSeq(AssetsOf(manifestFile))]
  BY <1>1 DEF Idle
<1>4. Shapes'
  BY <1>1, <1>3 DEF PublishInv, Shapes, IsSeq
<1>5. OnItsWay'
  BY <1>1, <1>3 DEF OnItsWay
<1>6. Behind'
  BY <1>1 DEF PublishInv, Behind
<1>7. QED  BY <1>4, <1>5, <1>6 DEF PublishInv

LEMMA PairStep ==
  ASSUME PublishInv, StagePair
  PROVE  PublishInv'
<1>1. /\ pc = "pair" /\ pc' = "stage"
      /\ UNCHANGED <<manifestFile, historyFile, work, exit, repo, remote, losses>>
      /\ out' = [manifest |-> manifestFile, history |-> historyFile, files |-> out.files]
  BY DEF StagePair, PublishAt, pair, PublishInv, Shapes
<1>2. Shapes'
  BY <1>1 DEF PublishInv, Shapes, IsSeq, Publishing
<1>3. OnItsWay'
  BY <1>1 DEF PublishInv, OnItsWay, Publishing
<1>4. Behind'
  BY <1>1 DEF PublishInv, Behind, Publishing
<1>5. QED  BY <1>2, <1>3, <1>4 DEF PublishInv

\* Files are copied, until one is missing or breaks off.
LEMMA StageStep ==
  ASSUME PublishInv, stageAsset \/ StageMissing \/ StageBreaks
  PROVE  PublishInv'
<1> USE DEF PublishInv
<1>1. UNCHANGED <<manifestFile, historyFile, repo, remote, losses>>
  BY DEF stageAsset, StageMissing, StageBreaks, PublishAt, pair
<1>2. CASE stageAsset
  <2>1. PICK x : out' = [out EXCEPT !.files = x]
    BY <1>2 DEF stageAsset
  <2>2. /\ out' = [manifest |-> out.manifest, history |-> out.history, files |-> x]
        /\ pc = "stage" /\ pc' = "stage" /\ exit' = exit
        /\ work' = [work EXCEPT !.todo = Tail(@)]
    BY <1>2, <2>1 DEF stageAsset, PublishAt, Shapes
  <2>3. work' = [page |-> work.page, skip |-> work.skip, ident |-> work.ident, menu |-> work.menu,
                 before |-> work.before, source |-> work.source, todo |-> Tail(work.todo)]
    BY <2>2 DEF Shapes, Publishing
  <2>4. Shapes'
    BY <1>1, <2>2, <2>3 DEF Shapes, IsSeq
  <2>5. OnItsWay'
    BY <1>1, <2>2, <2>3 DEF OnItsWay, Publishing
  <2>6. Behind'
    BY <1>1, <2>2 DEF Behind
  <2>7. QED  BY <2>4, <2>5, <2>6
<1>3. CASE StageMissing \/ StageBreaks
  <2>1. pc' = "idle" /\ exit' = "failed"
    BY <1>3 DEF StageMissing, StageBreaks, PublishAt
  <2>2. \E m, h, x : out' = [manifest |-> m, history |-> h, files |-> x]
    BY <1>3 DEF StageMissing, StageBreaks, Shapes
  <2>3. Shapes'
    BY <1>1, <2>1, <2>2 DEF Shapes, IsSeq, Publishing
  <2>4. OnItsWay' /\ Behind'
    BY <1>1, <2>1 DEF OnItsWay, Behind, Publishing
  <2>5. QED  BY <2>3, <2>4
<1>4. QED  BY <1>2, <1>3

\* The commands before the commit.
LEMMA PrepareStep ==
  ASSUME PublishInv, EnsureRepo \/ InitRepo \/ RemoveOrigin \/ AddOrigin \/ AddAll
  PROVE  PublishInv'
<1> USE DEF PublishInv
<1>1. UNCHANGED <<manifestFile, historyFile, out, work, exit, losses>>
  BY DEF EnsureRepo, InitRepo, RemoveOrigin, AddOrigin, AddAll, PublishAt, pair
<1>2. CASE EnsureRepo
  <2>1. /\ pc = "stage" /\ pc' = "init" /\ repo' = repo
        /\ remote' = [exists |-> TRUE, pages |-> remote.pages, log |-> remote.log]
    BY <1>2 DEF EnsureRepo, PublishAt, Shapes
  <2>2. Shapes'
    BY <1>1, <2>1 DEF Shapes, IsSeq, Publishing
  <2>3. OnItsWay' /\ Behind'
    BY <1>1, <2>1 DEF OnItsWay, Behind, Publishing
  <2>4. QED  BY <2>2, <2>3
<1>3. CASE InitRepo \/ RemoveOrigin \/ AddOrigin \/ AddAll
  <2>1. PICK i, o, x :
          /\ repo' = [init |-> i, origin |-> o, index |-> x, log |-> repo.log]
          /\ pc' = "add" => o = TRUE
          /\ pc' = "commit" => o = repo.origin /\ x = out
    BY <1>3 DEF InitRepo, RemoveOrigin, AddOrigin, AddAll, PublishAt, Shapes
  <2>2. /\ remote' = remote
        /\ pc \in {"init", "origin", "add-origin", "add"}
        /\ pc' \in {"origin", "add-origin", "add", "commit"}
        /\ pc' = "commit" => pc = "add"
    BY <1>3 DEF InitRepo, RemoveOrigin, AddOrigin, AddAll, PublishAt
  <2>3. Shapes'
    BY <1>1, <2>1, <2>2 DEF Shapes, IsSeq, Publishing
  <2>4. OnItsWay'
    BY <1>1, <2>1, <2>2 DEF OnItsWay, Publishing
  <2>5. Behind'
    BY <1>1, <2>1, <2>2 DEF Behind, Publishing
  <2>6. QED  BY <2>3, <2>4, <2>5
<1>4. QED  BY <1>2, <1>3

LEMMA CommitStep ==
  ASSUME PublishInv, Commit
  PROVE  PublishInv'
<1> USE DEF PublishInv
<1> DEFINE new == [tree |-> repo.index, clone |-> losses]
<1>1. /\ pc = "commit" /\ pc' = "push"
      /\ UNCHANGED <<manifestFile, historyFile, work, exit, out, remote, losses>>
      /\ repo' = IF repo.index = Tip(repo.log) THEN repo
                 ELSE [repo EXCEPT !.log = Append(repo.log, new)]
  BY DEF Commit, PublishAt, pair
<1>2. repo.index = out /\ repo.origin
  BY <1>1 DEF OnItsWay, Behind, Publishing
<1>3. CASE repo.index = Tip(repo.log)
  <2>1. repo' = repo
    BY <1>1, <1>3
  <2>2. Shapes' /\ Behind'
    BY <1>1, <2>1 DEF Shapes, Behind, IsSeq, Publishing
  <2>3. OnItsWay'
    BY <1>1, <1>2, <1>3, <2>1 DEF OnItsWay, Publishing
  <2>4. QED  BY <2>2, <2>3
<1>4. CASE repo.index # Tip(repo.log)
  <2>1. repo' = [init |-> repo.init, origin |-> repo.origin, index |-> repo.index,
                 log |-> Append(repo.log, new)]
    BY <1>1, <1>4 DEF Shapes
  <2>2. /\ IsSeq(Append(repo.log, new)) /\ Tip(Append(repo.log, new)) = repo.index
        /\ losses = 0 => IsPrefix(remote.log, Append(repo.log, new))
    BY AppendedLog, PrefixOfAppended DEF Shapes, Behind
  <2>3. Shapes'
    BY <1>1, <2>1, <2>2 DEF Shapes, IsSeq, Publishing
  <2>4. OnItsWay'
    BY <1>1, <1>2, <2>1, <2>2 DEF OnItsWay, Publishing
  <2>5. Behind'
    BY <1>1, <1>2, <2>1, <2>2 DEF Behind, Publishing
  <2>6. QED  BY <2>3, <2>4, <2>5
<1>5. QED  BY <1>3, <1>4

LEMMA PushStep ==
  ASSUME PublishInv, Push \/ PushRejected \/ EnablePages
  PROVE  PublishInv'
<1> USE DEF PublishInv
<1>1. CASE Push
  <2>1. /\ pc = "push" /\ pc' = "pages"
        /\ UNCHANGED <<manifestFile, historyFile, work, exit, out, repo, losses>>
        /\ remote' = [exists |-> remote.exists, pages |-> remote.pages, log |-> repo.log]
    BY <1>1 DEF Push, PublishAt, Shapes, pair
  <2>2. Shapes'
    BY <2>1 DEF Shapes, IsSeq, Publishing
  <2>3. OnItsWay'
    BY <2>1 DEF OnItsWay, Publishing, Tip
  <2>4. Behind'
    BY <2>1, PrefixOfSelf DEF Shapes, Behind, Publishing
  <2>5. QED  BY <2>2, <2>3, <2>4
<1>2. CASE PushRejected
  <2>1. pc' = "idle" /\ exit' = "failed" /\ UNCHANGED <<work, out, repo, remote, losses>>
    BY <1>2 DEF PushRejected, PublishAt
  <2>2. QED  BY <2>1 DEF Shapes, OnItsWay, Behind, IsSeq, Publishing
<1>3. CASE EnablePages
  <2>1. /\ pc = "pages" /\ pc' = "idle" /\ exit' = "published"
        /\ UNCHANGED <<manifestFile, historyFile, work, out, repo, losses>>
        /\ remote' = [exists |-> remote.exists, pages |-> TRUE, log |-> remote.log]
    BY <1>3 DEF EnablePages, PublishAt, Shapes, pair
  <2>2. Shapes'
    BY <2>1 DEF Shapes, IsSeq, Publishing
  <2>3. OnItsWay' /\ Behind'
    BY <2>1 DEF OnItsWay, Behind, Publishing
  <2>4. QED  BY <2>2, <2>3
<1>4. QED  BY <1>1, <1>2, <1>3

\* A step of generate leaves the staging directory and both repositories alone.
LEMMA GenerateApart ==
  ASSUME generate
  PROVE  /\ UNCHANGED <<out, repo, remote, losses>>
         /\ UNCHANGED <<sourceFile, assets, settled, orphans, imports, faults, spinnerVars>>
         /\ pc \in Generating \cup {"idle"} /\ pc' \in Generating \cup {"idle"}
         /\ exit' \in {"running", "generated"} \/ (exit' = exit /\ pc # "idle")
BY DEF generate, BeginGenerate, TruncateManifest, FillManifest, TruncateHistory, FillHistory,
       Writing, files, ghosts, Generating

\* What ends a publish between two commands, or goes on beside it.
LEMMA OtherStep ==
  ASSUME PublishInv, generate \/ CommandFails \/ LoseOut
  PROVE  PublishInv'
<1> USE DEF PublishInv
<1>1. CASE generate
  <2>1. /\ pc' \notin Publishing /\ exit' # "published"
        /\ UNCHANGED <<out, repo, remote, losses>>
    BY <1>1, GenerateApart DEF OnItsWay, Generating, Publishing
  <2>2. QED  BY <2>1 DEF Shapes, OnItsWay, Behind, IsSeq, Publishing
<1>2. CASE CommandFails
  <2>1. pc' = "idle" /\ exit' = "failed" /\ UNCHANGED <<out, repo, remote, losses>>
    BY <1>2 DEF CommandFails, publishVars
  <2>2. QED  BY <2>1 DEF Shapes, OnItsWay, Behind, IsSeq, Publishing
<1>3. CASE LoseOut
  <2>1. /\ pc = "idle" /\ out' = EmptyTree /\ repo' = NoRepo /\ losses' = 1
        /\ UNCHANGED <<pc, work, exit, remote>>
    BY <1>3 DEF LoseOut, importVars
  <2>2. Shapes'
    BY <2>1 DEF Shapes, IsSeq, Publishing, EmptyTree, NoRepo
  <2>3. OnItsWay'
    BY <2>1 DEF OnItsWay, Publishing, Tip
  <2>4. Behind'
    BY <2>1 DEF Behind, Publishing
  <2>5. QED  BY <2>2, <2>3, <2>4
<1>4. QED  BY <1>1, <1>2, <1>3

LEMMA InitOK == Init => PublishInv
<1> SUFFICES ASSUME Init PROVE PublishInv
  OBVIOUS
<1>1. /\ out = EmptyTree /\ repo = NoRepo /\ pc = "idle" /\ exit = "none"
      /\ remote = [exists |-> FALSE, pages |-> FALSE, log |-> <<>>]
  BY DEF Init, ImportInit, PublishInit
<1>2. Shapes
  BY <1>1 DEF Shapes, IsSeq, Publishing, EmptyTree, NoRepo
<1>3. IsSeq(<<>>)
  BY DEF IsSeq
<1>4. OnItsWay /\ Behind
  BY <1>1, <1>3, PrefixOfSelf DEF OnItsWay, Behind, Publishing, NoRepo
<1>5. QED  BY <1>2, <1>4 DEF PublishInv

LEMMA Step ==
  ASSUME PublishInv, [Next]_vars
  PROVE  PublishInv'
<1>1. CASE UNCHANGED vars
  BY <1>1 DEF vars, importVars, publishVars, pair, PublishInv, Shapes, OnItsWay, Behind, IsSeq, Tip
<1>2. CASE publishGithub
  BY <1>2, BeginStep, PairStep, StageStep, PrepareStep, CommitStep, PushStep DEF publishGithub
<1>3. QED  BY <1>1, <1>2, ImportStep, OtherStep DEF Next

\* A publish that reports success has put the manifest it read on GitHub, whatever
\* became of the publishes before it.
THEOREM PublishedIsServed == Spec => []SuccessIsServed
<1>1. Spec => []PublishInv
  BY InitOK, Step, PTL DEF Spec
<1>2. PublishInv => SuccessIsServed
  BY DEF PublishInv, OnItsWay, SuccessIsServed
<1>3. QED  BY <1>1, <1>2, PTL

\* At whichever command a publish fails, the next one is not refused, as long as its
\* directory is there.
THEOREM RerunIsAccepted == Spec => []RerunFastForwards
<1>1. Spec => []PublishInv
  BY InitOK, Step, PTL DEF Spec
<1>2. PublishInv => RerunFastForwards
  BY DEF PublishInv, Behind, RerunFastForwards, Accepted, Publishing
<1>3. QED  BY <1>1, <1>2, PTL

-----------------------------------------------------------------------------
\* What every push holds.  The proof follows each file that the manifest declares.

KnownPages(c) == \A a \in DOMAIN c : c[a] \in AllPages

\* A file in the staging directory is the one that is here.
Staged(f) == assets[f] # NoFile /\ out.files[f] = assets[f]

WorkShape ==
  work = [page |-> work.page, skip |-> work.skip, ident |-> work.ident, menu |-> work.menu,
          before |-> work.before, source |-> work.source, todo |-> work.todo]

\* While import works on a source, and while it may still write it.
Importer ==
  /\ WorkShape
  /\ Readable(sourceFile) => KnownPages(sourceFile.catalog)
  /\ pc \in {"fetch", "download", "copy"} => work.page \in Pages
  /\ pc \in {"download", "copy", "truncate", "fill"} \/ (pc = "stopping" /\ exit = "running") =>
       KnownPages(work.source.catalog)

\* The manifest, as generate makes it and publish reads it, and what is staged of its files.
Staging ==
  /\ DOMAIN out.files = Files
  /\ Readable(manifestFile) => KnownPages(manifestFile.catalog)
  /\ pc \in Generating => KnownPages(work.source.catalog)
  /\ pc \in Publishing => Readable(manifestFile) /\ work.todo \in Seq(Files)
  /\ pc = "pair" => ToSet(work.todo) = AssetsOf(manifestFile)
  /\ pc \in Publishing \ {"pair"} =>
       \A f \in AssetsOf(manifestFile) : f \in ToSet(work.todo) \/ Staged(f)
  /\ pc \in Publishing \ {"pair", "stage"} => work.todo = <<>>

SiteInv == Importer /\ Staging /\ DOMAIN assets = Files

LEMMA AllOfSeq ==
  ASSUME NEW S, IsFiniteSet(S)
  PROVE  SetToSeq(S) \in Seq(S) /\ ToSet(SetToSeq(S)) = S
<1> DEFINE n == Cardinality(S)
<1>1. n \in Nat /\ ExistsBijection(1 .. n, S)
  BY FS_CardinalityType
<1>2. \E f \in [1 .. n -> S] : IsInjective(f)
  BY <1>1 DEF ExistsBijection, Bijection, Injection
<1>3. SetToSeq(S) \in [1 .. n -> S] /\ IsInjective(SetToSeq(S))
  BY <1>2 DEF SetToSeq
<1>4. SetToSeq(S) \in Injection(1 .. n, S)
  BY <1>3 DEF Injection
<1>5. Cardinality(1 .. n) = n
  BY <1>1, FS_Interval
<1>6. SetToSeq(S) \in Surjection(1 .. n, S)
  BY <1>4, <1>5, FS_Injection
<1>7. \A x \in S : \E i \in 1 .. n : SetToSeq(S)[i] = x
  BY <1>6 DEF Surjection
<1>8. SetToSeq(S) \in Seq(S)
  BY <1>1, <1>3
<1>9. ToSet(SetToSeq(S)) = S
  BY <1>3, <1>7 DEF ToSet
<1>10. QED  BY <1>8, <1>9

LEMMA HeadAndTail ==
  ASSUME NEW S, NEW q \in Seq(S), q # <<>>
  PROVE  /\ Head(q) \in S /\ Tail(q) \in Seq(S)
         /\ \A x \in ToSet(q) : x = Head(q) \/ x \in ToSet(Tail(q))
<1>1. /\ Head(q) = q[1] /\ Head(q) \in S /\ Tail(q) \in Seq(S)
      /\ Len(q) \in Nat \ {0}
      /\ DOMAIN q = 1 .. Len(q) /\ DOMAIN Tail(q) = 1 .. (Len(q) - 1)
      /\ \A i \in 1 .. (Len(q) - 1) : Tail(q)[i] = q[i + 1]
  OBVIOUS
<1>2. ASSUME NEW i \in DOMAIN q PROVE q[i] = Head(q) \/ q[i] \in ToSet(Tail(q))
  <2>1. CASE i = 1
    BY <1>1, <2>1
  <2>2. CASE i # 1
    <3>1. i - 1 \in DOMAIN Tail(q) /\ Tail(q)[i - 1] = q[i]
      BY <1>1, <2>2
    <3>2. QED  BY <3>1 DEF ToSet
  <2>3. QED  BY <2>1, <2>2
<1>3. QED  BY <1>1, <1>2 DEF ToSet

LEMMA AssetsAreFiles ==
  ASSUME NEW m, KnownPages(m.catalog)
  PROVE  AssetsOf(m) \subseteq Files /\ IsFiniteSet(AssetsOf(m))
<1>1. AssetsOf(m) \subseteq Files
  BY DEF AssetsOf, KnownPages, Files
<1>2. QED  BY <1>1, ImportAssumption, FS_Subset

LEMMA ImportStaging ==
  ASSUME PublishInv, SiteInv, Importing(ImportNext)
  PROVE  Staging'
<1>1. /\ UNCHANGED <<out, manifestFile, historyFile>>
      /\ pc' \in Publishing \cup Generating => UNCHANGED <<pc, work, assets>>
  BY ImportApart DEF PublishInv, OnItsWay
<1>2. AssetsOf(manifestFile') = AssetsOf(manifestFile)
  BY <1>1
<1>3. CASE pc' \in Publishing \cup Generating
  <2>1. UNCHANGED <<pc, work>> /\ (\A f : Staged(f)' <=> Staged(f))
    BY <1>1, <1>3 DEF Staged
  <2>2. QED  BY <1>1, <1>2, <2>1 DEF SiteInv, Staging, Readable
<1>4. CASE pc' \notin Publishing \cup Generating
  BY <1>1, <1>4 DEF SiteInv, Staging, Readable, Publishing
<1>5. QED  BY <1>3, <1>4

\* An import begins, gives up, or has its spinner drawn.
LEMMA ImportAround ==
  ASSUME SiteInv, Importing(ImportNext),
         \/ Begin \/ FetchFails \/ Refuse \/ DownloadFails \/ Downloaded \/ StopReturns
         \/ TruncateSource \/ WriteFails \/ Crash \/ SpinnerTicks \/ SpinnerEnds \/ OrphanTicks
  PROVE  Importer' /\ UNCHANGED assets
<1> USE DEF SiteInv
<1>0. UNCHANGED assets
  BY DEF Begin, FetchFails, Refuse, DownloadFails, Downloaded, StopReturns, TruncateSource,
         WriteFails, Crash, SpinnerTicks, SpinnerEnds, OrphanTicks, files
<1>1. CASE Begin
  <2>1. PICK p \in Pages, skip \in BOOLEAN, ident \in BOOLEAN, menu \in BOOLEAN :
          work' = [Idle EXCEPT !.page = p, !.skip = skip, !.ident = ident, !.menu = menu,
                               !.before = sourceFile]
    BY <1>1 DEF Begin
  <2>2. work' = [page |-> p, skip |-> skip, ident |-> ident, menu |-> menu, before |-> sourceFile,
                 source |-> Idle.source, todo |-> Idle.todo]
    BY <2>1 DEF Idle
  <2>3. pc = "idle" /\ pc' = "fetch" /\ UNCHANGED sourceFile
    BY <1>1 DEF Begin, files
  <2>4. Importer'
    BY <2>2, <2>3 DEF Importer, WorkShape, Readable
  <2>5. QED  BY <1>0, <2>4
<1>2. CASE \/ FetchFails \/ Refuse \/ DownloadFails \/ Downloaded \/ StopReturns
           \/ TruncateSource \/ WriteFails \/ Crash
  <2>1. /\ UNCHANGED work /\ pc' \in {"idle", "stopping", "truncate", "fill"}
        /\ sourceFile' \in {sourceFile, Torn}
        /\ pc' = "stopping" /\ exit' = "running" => pc = "download"
        /\ pc' = "truncate" => pc = "stopping" /\ exit = "running"
        /\ pc' = "fill" => pc = "truncate"
    BY <1>2 DEF FetchFails, Refuse, DownloadFails, Downloaded, StopReturns, TruncateSource,
                WriteFails, Crash, Stopping, files
  <2>2. Importer'
    BY <2>1 DEF Importer, WorkShape, Readable
  <2>3. QED  BY <1>0, <2>2
<1>3. CASE SpinnerTicks \/ SpinnerEnds \/ OrphanTicks
  <2>1. UNCHANGED <<sourceFile, pc, work, exit>>
    BY <1>3 DEF SpinnerTicks, SpinnerEnds, OrphanTicks, files
  <2>2. QED  BY <1>0, <2>1 DEF Importer, WorkShape, Readable
<1>4. QED  BY <1>1, <1>2, <1>3

\* The pages of a catalog with the imported one are pages too.
LEMMA FetchedKeepsPages ==
  ASSUME SiteInv, pc = "fetch"
  PROVE  KnownPages(upsertAlbum(Existing.catalog, work.page))
<1>1. work.page \in AllPages
  BY DEF SiteInv, Importer, AllPages
<1>2. KnownPages(Existing.catalog)
  <2>1. CASE Readable(sourceFile)
    BY <2>1 DEF Existing, SiteInv, Importer
  <2>2. CASE ~Readable(sourceFile)
    <3>1. Existing = [hasURL |-> FALSE, catalog |-> <<>>]
      BY <2>2 DEF Existing
    <3>2. QED  BY <3>1 DEF KnownPages
  <2>3. QED  BY <2>1, <2>2
<1>3. QED  BY <1>1, <1>2 DEF upsertAlbum, KnownPages

LEMMA ImportWrites ==
  ASSUME SiteInv, Importing(ImportNext), Fetched \/ Create \/ Copy \/ FillSource
  PROVE  Importer' /\ DOMAIN assets' = DOMAIN assets
<1> USE DEF SiteInv
<1>1. CASE Fetched
  <2> DEFINE c == upsertAlbum(Existing.catalog, work.page)
             q == IF work.skip THEN <<>> ELSE Downloads(work.page)
  <2>1. /\ pc = "fetch" /\ pc' = "download" /\ UNCHANGED <<sourceFile, assets, exit>>
        /\ work' = [work EXCEPT !.source = [hasURL |-> TRUE, catalog |-> c], !.todo = q]
    BY <1>1 DEF Fetched, files
  <2>2. work' = [page |-> work.page, skip |-> work.skip, ident |-> work.ident, menu |-> work.menu,
                 before |-> work.before, source |-> [hasURL |-> TRUE, catalog |-> c], todo |-> q]
    BY <2>1 DEF Importer, WorkShape
  <2>3. KnownPages(c)
    BY <2>1, FetchedKeepsPages
  <2>4. work'.source.catalog = c /\ work'.page = work.page
    BY <2>2
  <2>5. WorkShape'
    BY <2>2 DEF WorkShape
  <2>6. Importer'
    BY <2>1, <2>3, <2>4, <2>5 DEF Importer, Readable
  <2>7. QED  BY <2>1, <2>6
<1>2. CASE Create
  <2>1. /\ pc = "download" /\ pc' = "copy" /\ UNCHANGED <<sourceFile, work, exit>>
        /\ assets' = [assets EXCEPT ![Head(work.todo)] = Torn]
    BY <1>2 DEF Create
  <2>2. QED  BY <2>1 DEF Importer, WorkShape, Readable
<1>3. CASE Copy
  <2>1. /\ pc = "copy" /\ pc' = "download" /\ UNCHANGED <<sourceFile, exit>>
        /\ assets' = [assets EXCEPT ![Head(work.todo)] = Saved(work.page, Head(work.todo))]
        /\ work' = [work EXCEPT !.todo = Tail(work.todo)]
    BY <1>3 DEF Copy
  <2>2. work' = [page |-> work.page, skip |-> work.skip, ident |-> work.ident, menu |-> work.menu,
                 before |-> work.before, source |-> work.source, todo |-> Tail(work.todo)]
    BY <2>1 DEF Importer, WorkShape
  <2>3. Importer'
    BY <2>1, <2>2 DEF Importer, WorkShape, Readable
  <2>4. QED  BY <2>1, <2>3
<1>4. CASE FillSource
  <2>1. /\ pc = "fill" /\ pc' = "idle" /\ UNCHANGED <<assets, work>>
        /\ sourceFile' = work.source
    BY <1>4 DEF FillSource
  <2>2. Importer'
    BY <2>1 DEF Importer, WorkShape, Readable
  <2>3. QED  BY <2>1, <2>2
<1>5. QED  BY <1>1, <1>2, <1>3, <1>4

LEMMA ImportSite ==
  ASSUME PublishInv, SiteInv, Importing(ImportNext)
  PROVE  SiteInv'
<1>1. ImportNext
  BY DEF Importing
<1>2. Importer' /\ DOMAIN assets' = DOMAIN assets
  BY <1>1, ImportAround, ImportWrites DEF ImportNext, importBandcamp
<1>3. QED  BY <1>2, ImportStaging DEF SiteInv

\* Generate and publish leave the source and the downloads as they are.
LEMMA PublishLeaves ==
  ASSUME SiteInv, WorkShape', UNCHANGED <<sourceFile, assets>>,
         pc' \in Publishing \cup Generating \cup {"idle"}
  PROVE  Importer' /\ DOMAIN assets' = Files
BY DEF SiteInv, Importer, Readable, Publishing, Generating

LEMMA BeginSite ==
  ASSUME PublishInv, SiteInv, BeginPublish
  PROVE  SiteInv'
<1> DEFINE q == SetToSeq(AssetsOf(manifestFile))
<1>1. /\ Readable(manifestFile) /\ pc = "idle" /\ pc' = "pair"
      /\ UNCHANGED <<out, sourceFile, assets, manifestFile, historyFile>>
      /\ work' = [Idle EXCEPT !.before = sourceFile, !.source = manifestFile, !.todo = q]
  BY DEF BeginPublish, PublishAt, files, pair
<1>2. work' = [page |-> Idle.page, skip |-> Idle.skip, ident |-> Idle.ident, menu |-> Idle.menu,
               before |-> sourceFile, source |-> manifestFile, todo |-> q]
  BY <1>1 DEF Idle
<1>3. KnownPages(manifestFile.catalog)
  BY <1>1 DEF SiteInv, Staging
<1>4. AssetsOf(manifestFile) \subseteq Files /\ IsFiniteSet(AssetsOf(manifestFile))
  BY <1>3, AssetsAreFiles
<1>5. q \in Seq(Files) /\ ToSet(q) = AssetsOf(manifestFile)
  BY <1>4, AllOfSeq, SeqOfMore
<1>6. work'.todo = q
  BY <1>2
<1>7. WorkShape'
  BY <1>2 DEF WorkShape
<1>8. Importer' /\ DOMAIN assets' = Files
  BY <1>1, <1>7, PublishLeaves DEF Publishing
<1>9. Staging'
  <2>1. AssetsOf(manifestFile') = AssetsOf(manifestFile)
    BY <1>1
  <2>2. QED
    BY <1>1, <1>3, <1>5, <1>6, <2>1 DEF SiteInv, Staging, Readable, Publishing, Generating
<1>10. QED  BY <1>8, <1>9 DEF SiteInv

LEMMA PairSite ==
  ASSUME PublishInv, SiteInv, StagePair
  PROVE  SiteInv'
<1>1. /\ pc = "pair" /\ pc' = "stage"
      /\ UNCHANGED <<work, sourceFile, assets, manifestFile, historyFile>>
      /\ out' = [manifest |-> manifestFile, history |-> historyFile, files |-> out.files]
  BY DEF StagePair, PublishAt, files, pair, PublishInv, Shapes
<1>2. WorkShape'
  BY <1>1 DEF SiteInv, Importer, WorkShape
<1>3. Importer' /\ DOMAIN assets' = Files
  BY <1>1, <1>2, PublishLeaves DEF Publishing
<1>4. Staging'
  <2>1. AssetsOf(manifestFile') = AssetsOf(manifestFile)
    BY <1>1
  <2>2. QED
    BY <1>1, <2>1 DEF SiteInv, Staging, Readable, Publishing, Generating
<1>5. QED  BY <1>3, <1>4 DEF SiteInv

\* One file is copied, to the end or not.
LEMMA StageSite ==
  ASSUME PublishInv, SiteInv, stageAsset \/ StageMissing \/ StageBreaks
  PROVE  SiteInv'
<1> DEFINE h == Head(work.todo)
<1>1. UNCHANGED <<sourceFile, assets, manifestFile, historyFile>>
  BY DEF stageAsset, StageMissing, StageBreaks, PublishAt, files, pair
<1>2. CASE stageAsset
  <2>1. /\ pc = "stage" /\ work.todo # <<>> /\ pc' = "stage" /\ assets[h] # NoFile
        /\ out' = [out EXCEPT !.files[h] = assets[h]]
        /\ work' = [work EXCEPT !.todo = Tail(work.todo)]
    BY <1>2 DEF stageAsset, PublishAt
  <2>2. out' = [manifest |-> out.manifest, history |-> out.history,
                files |-> [out.files EXCEPT ![h] = assets[h]]]
    BY <2>1 DEF PublishInv, Shapes
  <2>3. work' = [page |-> work.page, skip |-> work.skip, ident |-> work.ident, menu |-> work.menu,
                 before |-> work.before, source |-> work.source, todo |-> Tail(work.todo)]
    BY <2>1 DEF SiteInv, Importer, WorkShape
  <2>4. work.todo \in Seq(Files) /\ Readable(manifestFile) /\ KnownPages(manifestFile.catalog)
    BY <2>1 DEF SiteInv, Staging, Publishing
  <2>5. /\ h \in Files /\ Tail(work.todo) \in Seq(Files)
        /\ \A f \in ToSet(work.todo) : f = h \/ f \in ToSet(Tail(work.todo))
    BY <2>1, <2>4, HeadAndTail
  <2>6. /\ DOMAIN out'.files = Files /\ out'.files[h] = assets[h]
        /\ \A f \in Files \ {h} : out'.files[f] = out.files[f]
    BY <2>2, <2>5 DEF SiteInv, Staging
  <2>7. WorkShape' /\ work'.todo = Tail(work.todo)
    BY <2>3 DEF WorkShape
  <2>8. Importer' /\ DOMAIN assets' = Files
    BY <1>1, <2>1, <2>7, PublishLeaves DEF Publishing
  <2>9. ASSUME NEW f \in AssetsOf(manifestFile)
        PROVE  f \in ToSet(Tail(work.todo)) \/ Staged(f)'
    <3>1. f \in Files
      BY <2>4, AssetsAreFiles
    <3>2. f \in ToSet(work.todo) \/ Staged(f)
      BY <2>1 DEF SiteInv, Staging, Publishing
    <3>3. CASE f = h
      BY <1>1, <2>1, <2>6, <3>3 DEF Staged
    <3>4. CASE f # h
      BY <1>1, <2>5, <2>6, <3>1, <3>2, <3>4 DEF Staged
    <3>5. QED  BY <3>3, <3>4
  <2>10. Staging'
    <3>1. AssetsOf(manifestFile') = AssetsOf(manifestFile)
      BY <1>1
    <3>2. \A f \in AssetsOf(manifestFile') : f \in ToSet(work'.todo) \/ Staged(f)'
      BY <2>7, <2>9, <3>1
    <3>3. QED
      BY <1>1, <2>1, <2>4, <2>5, <2>6, <2>7, <3>2 DEF Staging, Readable, Publishing, Generating
  <2>11. QED  BY <2>8, <2>10 DEF SiteInv
<1>3. CASE StageMissing \/ StageBreaks
  <2>1. pc' = "idle" /\ UNCHANGED work
    BY <1>3 DEF StageMissing, StageBreaks, PublishAt
  <2>2. \E m, x : out' = [manifest |-> m, history |-> x, files |-> out.files]
        \/ out' = [manifest |-> m, history |-> x, files |-> [out.files EXCEPT ![h] = Torn]]
    BY <1>3 DEF StageMissing, StageBreaks, PublishInv, Shapes
  <2>3. DOMAIN out'.files = Files
    BY <2>2 DEF SiteInv, Staging
  <2>4. WorkShape'
    BY <2>1 DEF SiteInv, Importer, WorkShape
  <2>5. Importer' /\ DOMAIN assets' = Files
    BY <1>1, <2>1, <2>4, PublishLeaves
  <2>6. Staging'
    BY <1>1, <2>1, <2>3 DEF SiteInv, Staging, Readable, Publishing, Generating
  <2>7. QED  BY <2>5, <2>6 DEF SiteInv
<1>4. QED  BY <1>2, <1>3

\* The commands, when all files are staged.
LEMMA CommandSite ==
  ASSUME PublishInv, SiteInv,
         \/ EnsureRepo \/ InitRepo \/ RemoveOrigin \/ AddOrigin \/ AddAll
         \/ Commit \/ Push \/ PushRejected \/ EnablePages
  PROVE  SiteInv'
<1> DEFINE here == Publishing \ {"pair"}
<1>1. /\ pc \in here /\ pc' \in (here \ {"stage"}) \cup {"idle"} /\ work.todo = <<>>
      /\ UNCHANGED <<work, out, sourceFile, assets, manifestFile, historyFile>>
  <2>1. CASE EnsureRepo
    BY <2>1 DEF EnsureRepo, PublishAt, files, pair, Publishing
  <2>2. CASE InitRepo \/ RemoveOrigin \/ AddOrigin \/ AddAll
    BY <2>2 DEF InitRepo, RemoveOrigin, AddOrigin, AddAll, PublishAt, files, pair, SiteInv, Staging,
                Publishing
  <2>3. CASE Commit \/ Push \/ PushRejected \/ EnablePages
    BY <2>3 DEF Commit, Push, PushRejected, EnablePages, PublishAt, files, pair, SiteInv, Staging,
                Publishing
  <2>4. QED  BY <2>1, <2>2, <2>3
<1>2. WorkShape'
  BY <1>1 DEF SiteInv, Importer, WorkShape
<1>3. Importer' /\ DOMAIN assets' = Files
  BY <1>1, <1>2, PublishLeaves
<1>4. Staging'
  <2>1. AssetsOf(manifestFile') = AssetsOf(manifestFile) /\ (\A f : Staged(f)' <=> Staged(f))
    BY <1>1 DEF Staged
  <2>2. QED  BY <1>1, <2>1 DEF SiteInv, Staging, Readable, Publishing, Generating
<1>5. QED  BY <1>3, <1>4 DEF SiteInv

LEMMA GenerateSite ==
  ASSUME PublishInv, SiteInv, generate
  PROVE  SiteInv'
<1>1. /\ pc' \in Generating \cup {"idle"}
      /\ UNCHANGED <<out, sourceFile, assets>>
  BY GenerateApart
<1>2. CASE BeginGenerate
  <2>1. PICK n : work' = [Idle EXCEPT !.before = sourceFile,
                              !.source = [log |-> n, catalog |-> sourceFile.catalog]]
    BY <1>2 DEF BeginGenerate
  <2>2. work' = [page |-> Idle.page, skip |-> Idle.skip, ident |-> Idle.ident, menu |-> Idle.menu,
                 before |-> sourceFile, source |-> [log |-> n, catalog |-> sourceFile.catalog],
                 todo |-> Idle.todo]
    BY <2>1 DEF Idle
  <2>3. Readable(sourceFile) /\ UNCHANGED manifestFile
    BY <1>2 DEF BeginGenerate, pair
  <2>4. WorkShape' /\ work'.source.catalog = sourceFile.catalog
    BY <2>2 DEF WorkShape
  <2>5. Importer' /\ DOMAIN assets' = Files
    BY <1>1, <2>4, PublishLeaves
  <2>6. Staging'
    BY <1>1, <2>3, <2>4 DEF SiteInv, Importer, Staging, Readable, KnownPages, Publishing, Generating
  <2>7. QED  BY <2>5, <2>6 DEF SiteInv
<1>3. CASE TruncateManifest \/ FillManifest \/ TruncateHistory \/ FillHistory
  <2>1. pc \in Generating /\ UNCHANGED work /\ manifestFile' \in {manifestFile, Torn, work.source}
    BY <1>3 DEF TruncateManifest, FillManifest, TruncateHistory, FillHistory, Writing, Generating
  <2>2. WorkShape'
    BY <2>1 DEF SiteInv, Importer, WorkShape
  <2>3. Importer' /\ DOMAIN assets' = Files
    BY <1>1, <2>2, PublishLeaves
  <2>4. Staging'
    BY <1>1, <2>1 DEF SiteInv, Staging, Readable, KnownPages, Publishing, Generating
  <2>5. QED  BY <2>3, <2>4 DEF SiteInv
<1>4. QED  BY <1>2, <1>3 DEF generate

LEMMA OtherSite ==
  ASSUME PublishInv, SiteInv, CommandFails \/ LoseOut
  PROVE  SiteInv'
<1>1. /\ pc' = "idle" /\ DOMAIN out'.files = Files
      /\ UNCHANGED <<sourceFile, assets, work, manifestFile>>
  BY DEF CommandFails, LoseOut, publishVars, importVars, files, pair, EmptyTree, SiteInv, Staging
<1>2. WorkShape'
  BY <1>1 DEF SiteInv, Importer, WorkShape
<1>3. Importer' /\ DOMAIN assets' = Files
  BY <1>1, <1>2, PublishLeaves
<1>4. Staging'
  BY <1>1 DEF SiteInv, Staging, Readable, Publishing, Generating
<1>5. QED  BY <1>3, <1>4 DEF SiteInv

LEMMA InitSite == Init => SiteInv
<1> SUFFICES ASSUME Init PROVE SiteInv
  OBVIOUS
<1> USE DEF Init, ImportInit, PublishInit
<1>1. Importer
  <2>1. WorkShape
    BY DEF WorkShape, Idle
  <2>2. Readable(sourceFile) => KnownPages(sourceFile.catalog)
    BY DEF Readable, KnownPages, AllPages, Range
  <2>3. QED  BY <2>1, <2>2 DEF Importer
<1>2. DOMAIN assets = Files
  OBVIOUS
<1>3. Staging
  BY DEF Staging, Readable, Publishing, Generating, EmptyTree
<1>4. QED  BY <1>1, <1>2, <1>3 DEF SiteInv

LEMMA SiteStep ==
  ASSUME PublishInv, SiteInv, [Next]_vars
  PROVE  SiteInv'
<1>1. CASE UNCHANGED vars
  <2>1. UNCHANGED <<sourceFile, assets, pc, work, exit, out, manifestFile, historyFile>>
    BY <1>1 DEF vars, importVars, publishVars, pair
  <2>2. AssetsOf(manifestFile') = AssetsOf(manifestFile) /\ (\A f : Staged(f)' <=> Staged(f))
    BY <2>1 DEF Staged
  <2>3. QED
    BY <2>1, <2>2 DEF SiteInv, Importer, WorkShape, Readable, Staging
<1>2. CASE publishGithub
  BY <1>2, BeginSite, PairSite, StageSite, CommandSite DEF publishGithub
<1>3. QED  BY <1>1, <1>2, ImportSite, GenerateSite, OtherSite DEF Next

\* Whatever fails in imports, in generate, in copies and commands: what publish pushes, and
\* has served, is the pair that is here with all the files that it declares.
THEOREM PushesAreSites == Spec => []PushedIsLocalSite
<1>1. Spec => [](PublishInv /\ SiteInv)
  BY InitOK, InitSite, Step, SiteStep, PTL DEF Spec
<1>2. PublishInv /\ SiteInv => PushedIsLocalSite
  <2> SUFFICES ASSUME PublishInv, SiteInv, pc \in {"push", "pages"} PROVE IsLocalSite(out)
    BY DEF PublishInv, OnItsWay, PushedIsLocalSite
  <2>1. pc \in Publishing \ {"pair", "stage"}
    BY DEF Publishing
  <2>2. out.manifest = manifestFile /\ out.history = historyFile
    BY <2>1 DEF PublishInv, OnItsWay
  <2>3. \A f \in AssetsOf(manifestFile) : Staged(f)
    BY <2>1 DEF SiteInv, Staging, ToSet
  <2>4. QED  BY <2>2, <2>3 DEF IsLocalSite, Staged
<1>3. QED  BY <1>1, <1>2, PTL

-----------------------------------------------------------------------------
\* What import makes of the source and of the files.

Busy == {"fetch", "download", "copy", "stopping", "truncate", "fill"}

\* The source that import has made, and may still write.
Merging ==
  pc \in {"download", "copy", "truncate", "fill"} \/ (pc = "stopping" /\ exit = "running")

\* Each album of a source is there under its own id.
SourceOK(s) ==
  /\ s \in SourceFiles
  /\ DOMAIN s.catalog \subseteq AlbumIDs
  /\ Range(s.catalog) \subseteq AllPages
  /\ \A a \in DOMAIN s.catalog : AlbumID(s.catalog[a]) = a

Kinds ==
  /\ Readable(sourceFile) => SourceOK(sourceFile)
  /\ Merging => SourceOK(work.source)
  /\ assets \in [Files -> AllPages \cup {NoFile, Torn}]
  /\ work.todo \in Seq(Files) /\ (pc = "copy" => work.todo # <<>>)
  /\ pc \in Busy => work.page \in Pages
  /\ settled \subseteq AlbumIDs

\* Until import writes it, the source is the one that it began with.
Kept ==
  /\ pc \in (Busy \ {"fill"}) \cup Publishing \cup Generating => sourceFile = work.before
  /\ pc = "fill" => sourceFile = Torn
  /\ pc = "stopping" => exit \in {"running", "failed"}
  /\ Merging \/ (pc = "idle" /\ exit = "imported") =>
       work.source.catalog = upsertAlbum(CatalogOf(work.before), work.page)
  /\ pc = "idle" => /\ exit \in {"failed", "refused"} => sourceFile = work.before
                    /\ exit = "unwritten" => sourceFile \in {work.before, Torn}
                    /\ exit = "imported" => sourceFile = work.source /\ Readable(sourceFile)

\* The files of the albums of S are those of their pages in c.
Matches(c, S) ==
  \A a \in DOMAIN c \cap S : \A f \in ToSet(Downloads(c[a])) : assets[f] = Saved(c[a], f)

\* The files of the other albums stay as they are; those of the imported one are there or
\* still ahead, and from the first that is touched it is not settled.
Matching ==
  /\ Readable(sourceFile) => Matches(sourceFile.catalog, settled)
  /\ pc = "copy" => AlbumID(work.page) \notin settled
  /\ Merging =>
       /\ AlbumID(work.page) \in DOMAIN work.source.catalog
       /\ work.source.catalog[AlbumID(work.page)] = work.page
       /\ Matches(work.source.catalog, settled \ {AlbumID(work.page)})
       /\ ToSet(work.todo) \subseteq ToSet(Downloads(work.page))
       /\ pc \notin {"download", "copy"} => work.todo = <<>>
       /\ ~work.skip => \A f \in ToSet(Downloads(work.page)) :
                          f \in ToSet(work.todo) \/ assets[f] = Saved(work.page, f)

SourceInv == Kinds /\ Kept /\ Matching

-----------------------------------------------------------------------------
\* The tracks of a page in their order: every finite set of numbers has its ascending
\* sequence.

Ascending(q) == \A i, j \in DOMAIN q : i < j => q[i] < q[j]

LEMMA LeastNumber ==
  ASSUME NEW T, T \subseteq Nat, T # {}
  PROVE  \E m \in T : \A i \in T : m <= i
<1> DEFINE R == OpToRel(<, Nat)
<1>1. IsWellFoundedOn(R, Nat)
  BY NatLessThanWellFounded
<1>2. \A i, j \in Nat : i < j => <<i, j>> \in R
  BY DEF OpToRel
<1> HIDE DEF R
<1>3. PICK m \in T : \A i \in T : ~(<<i, m>> \in R)
  BY <1>1, WFMin
<1>4. ASSUME NEW i \in T PROVE m <= i
  <2>1. ~(i < m)
    BY <1>2, <1>3
  <2>2. i \in Nat /\ m \in Nat
    OBVIOUS
  <2>3. QED  BY <2>1, <2>2
<1>5. QED  BY <1>4

Sorted(b) == \E q \in [1 .. Cardinality(b) -> b] : Ascending(q)

\* The least element, before the sequence of the others.
LEMMA SortedWithLeast ==
  ASSUME NEW b, b \subseteq Nat, IsFiniteSet(b),
         NEW m \in b, \A i \in b : m <= i, Sorted(b \ {m})
  PROVE  Sorted(b)
<1> DEFINE n == Cardinality(b)
<1>1. n \in Nat \ {0} /\ Cardinality(b \ {m}) = n - 1
  BY FS_CardinalityType, FS_RemoveElement, FS_EmptySet
<1>2. PICK q \in [1 .. n - 1 -> b \ {m}] : Ascending(q)
  BY <1>1 DEF Sorted
<1> DEFINE r == [i \in 1 .. n |-> IF i = 1 THEN m ELSE q[i - 1]]
<1>3. \A i \in 1 .. n : i # 1 => i - 1 \in 1 .. n - 1
  BY <1>1
<1>4. r \in [1 .. n -> b]
  BY <1>2, <1>3
<1>5. ASSUME NEW i \in 1 .. n, NEW j \in 1 .. n, i < j PROVE r[i] < r[j]
  <2>1. j # 1 /\ j - 1 \in 1 .. n - 1 /\ r[j] = q[j - 1]
    BY <1>1, <1>3, <1>5
  <2>2. CASE i = 1
    <3>1. r[i] = m /\ q[j - 1] \in b \ {m}
      BY <1>2, <2>1, <2>2
    <3>2. m <= q[j - 1] /\ m # q[j - 1] /\ m \in Nat /\ q[j - 1] \in Nat
      BY <3>1
    <3>3. m < q[j - 1]
      BY <3>2
    <3>4. QED  BY <2>1, <3>1, <3>3
  <2>3. CASE i # 1
    <3>1. i - 1 \in 1 .. n - 1 /\ r[i] = q[i - 1] /\ i - 1 < j - 1
      BY <1>1, <1>3, <1>5, <2>3
    <3>2. QED  BY <1>2, <2>1, <3>1 DEF Ascending
  <2>4. QED  BY <2>2, <2>3
<1>6. Ascending(r)
  BY <1>5 DEF Ascending
<1>7. QED  BY <1>4, <1>6 DEF Sorted

LEMMA AllSorted ==
  ASSUME NEW b, b \subseteq Nat, IsFiniteSet(b)
  PROVE  Sorted(b)
<1> DEFINE Bad(c) == c \subseteq Nat /\ IsFiniteSet(c) /\ ~Sorted(c)
           T == {n \in Nat : \E c \in SUBSET Nat : Bad(c) /\ Cardinality(c) = n}
<1> SUFFICES ASSUME Bad(b) PROVE FALSE
  OBVIOUS
<1>1. Cardinality(b) \in T
  BY FS_CardinalityType
<1>2. PICK n \in T : \A i \in T : n <= i
  BY <1>1, LeastNumber
<1>3. PICK c \in SUBSET Nat : Bad(c) /\ Cardinality(c) = n
  BY <1>2
<1>4. c # {}
  <2> SUFFICES ASSUME c = {} PROVE FALSE
    OBVIOUS
  <2>1. Cardinality(c) = 0
    BY FS_EmptySet
  <2> DEFINE e == [i \in 1 .. 0 |-> 0]
  <2>2. e \in [1 .. 0 -> c] /\ Ascending(e)
    BY DEF Ascending
  <2>3. Sorted(c)
    BY <2>1, <2>2 DEF Sorted
  <2>4. QED  BY <1>3, <2>3
<1>5. PICK m \in c : \A i \in c : m <= i
  BY <1>4, LeastNumber
<1>6. IsFiniteSet(c \ {m}) /\ Cardinality(c \ {m}) = n - 1 /\ n - 1 \in Nat
  BY <1>3, <1>4, <1>5, FS_RemoveElement, FS_CardinalityType, FS_EmptySet
<1>7. n - 1 \notin T
  BY <1>2, <1>6
<1>8. Sorted(c \ {m})
  BY <1>3, <1>6, <1>7
<1>9. QED  BY <1>3, <1>5, <1>8, SortedWithLeast

LEMMA DownloadsOf ==
  ASSUME NEW p \in AllPages
  PROVE  /\ Downloads(p) \in Seq(Declared(p))
         /\ \A f \in ToSet(Downloads(p)) : f[1] = AlbumID(p)
<1> DEFINE K == {i \in DOMAIN p.tracks : p.tracks[i].stream}
           n == Cardinality(K)
           q == Streamed(p)
           F == [i \in DOMAIN q |-> <<AlbumID(p), p.tracks[q[i]].name>>]
           cover == <<AlbumID(p), "cover">>
<1>1. p.tracks \in Seq(Range(p.tracks))
  BY ImportAssumption
<1>2. DOMAIN p.tracks = 1 .. Len(p.tracks) /\ Len(p.tracks) \in Nat
  BY <1>1
<1>3. K \subseteq Nat /\ IsFiniteSet(K) /\ n \in Nat
  <2>1. IsFiniteSet(DOMAIN p.tracks) /\ DOMAIN p.tracks \subseteq Nat
    BY <1>2, FS_Interval
  <2>2. K \subseteq DOMAIN p.tracks
    OBVIOUS
  <2>3. QED  BY <2>1, <2>2, FS_Subset, FS_CardinalityType
<1>4. q \in [1 .. n -> K]
  <2>1. \E r \in [1 .. n -> K] : \A i, j \in DOMAIN r : i < j => r[i] < r[j]
    BY <1>3, AllSorted DEF Sorted, Ascending
  <2>2. QED  BY <2>1 DEF Streamed
<1> HIDE DEF q, n
<1>5. F \in [1 .. n -> Declared(p)]
  <2> SUFFICES ASSUME NEW i \in 1 .. n PROVE <<AlbumID(p), p.tracks[q[i]].name>> \in Declared(p)
    BY <1>4
  <2>1. q[i] \in DOMAIN p.tracks
    BY <1>4
  <2>2. QED  BY <2>1 DEF Declared
<1>6. F \in Seq(Declared(p))
  BY <1>3, <1>5
<1>7. cover \in Declared(p)
  BY DEF Declared
<1>8. (IF p.art THEN <<cover>> ELSE <<>>) \in Seq(Declared(p))
  BY <1>7
<1>9. Downloads(p) \in Seq(Declared(p))
  BY <1>6, <1>8 DEF Downloads, q
<1>10. \A f \in ToSet(Downloads(p)) : f \in Declared(p)
  BY <1>9 DEF ToSet
<1>11. QED  BY <1>9, <1>10 DEF Declared

LEMMA DownloadsAreFiles ==
  ASSUME NEW p \in AllPages
  PROVE  Downloads(p) \in Seq(Files)
<1>1. Declared(p) \subseteq Files
  BY DEF Files
<1>2. QED  BY <1>1, DownloadsOf, SeqOfMore

\* The imported album joins those of the source that import began with.
LEMMA SourceWithAlbum ==
  ASSUME NEW c, DOMAIN c \subseteq AlbumIDs, Range(c) \subseteq AllPages,
         \A a \in DOMAIN c : AlbumID(c[a]) = a, NEW p \in Pages
  PROVE  SourceOK([hasURL |-> TRUE, catalog |-> upsertAlbum(c, p)])
<1> DEFINE u == upsertAlbum(c, p)
<1>1. AlbumID(p) \in AlbumIDs /\ p \in AllPages
  BY DEF AlbumIDs, AllPages
<1>2. DOMAIN u = DOMAIN c \cup {AlbumID(p)}
  BY DEF upsertAlbum
<1>3. \A a \in DOMAIN u : u[a] = IF a = AlbumID(p) THEN p ELSE c[a]
  BY <1>2 DEF upsertAlbum
<1>4. \A a \in DOMAIN u : u[a] \in AllPages /\ AlbumID(u[a]) = a
  BY <1>1, <1>2, <1>3 DEF Range
<1>5. u \in [DOMAIN u -> AllPages] /\ DOMAIN u \in SUBSET AlbumIDs
  BY <1>1, <1>2, <1>4 DEF upsertAlbum
<1> HIDE DEF u
<1>6. [hasURL |-> TRUE, catalog |-> u] \in SourceFiles
  BY <1>5 DEF SourceFiles
<1>7. QED  BY <1>1, <1>2, <1>4, <1>6 DEF SourceOK, Range, u

LEMMA SourcesAreReadable ==
  ASSUME NEW s, SourceOK(s)
  PROVE  Readable(s)
BY ImportAssumption DEF SourceOK, Readable

LEMMA ExistingOK ==
  ASSUME Kinds
  PROVE  /\ DOMAIN Existing.catalog \subseteq AlbumIDs /\ Range(Existing.catalog) \subseteq AllPages
         /\ \A a \in DOMAIN Existing.catalog : AlbumID(Existing.catalog[a]) = a
<1>1. CASE Readable(sourceFile)
  BY <1>1 DEF Kinds, SourceOK, Existing
<1>2. CASE ~Readable(sourceFile)
  <2>1. Existing.catalog = <<>>
    BY <1>2 DEF Existing
  <2>2. QED  BY <2>1 DEF Range
<1>3. QED  BY <1>1, <1>2

-----------------------------------------------------------------------------
\* The steps of import and publish, by what they change of the source and the files.

\* A step that changes neither, nor what import or publish works on.
LEMMA MovesOn ==
  ASSUME SourceInv, UNCHANGED <<sourceFile, assets, work, settled>>,
         pc' # "copy",
         pc' \in Busy => pc \in Busy,
         pc' \in (Busy \ {"fill"}) \cup Publishing \cup Generating =>
           pc \in (Busy \ {"fill"}) \cup Publishing \cup Generating,
         pc' # "fill",
         pc' = "stopping" => exit' \in {"running", "failed"},
         Merging' => Merging /\ (pc' # "download" => work.todo = <<>>),
         pc' = "idle" => /\ exit' # "imported"
                         /\ exit' \in {"failed", "refused"} =>
                              pc \in (Busy \ {"fill"}) \cup Publishing \cup Generating
                         /\ exit' = "unwritten" => pc \in {"truncate", "fill"}
  PROVE  SourceInv'
<1>1. Kinds'
  BY DEF SourceInv, Kinds, Readable, SourceOK
<1>2. Kept'
  <2>1. pc' \in (Busy \ {"fill"}) \cup Publishing \cup Generating => sourceFile' = work'.before
    BY DEF SourceInv, Kept
  <2>2. Merging' \/ (pc' = "idle" /\ exit' = "imported") => Merging
    OBVIOUS
  <2>3. Merging' \/ (pc' = "idle" /\ exit' = "imported") =>
          work'.source.catalog = upsertAlbum(CatalogOf(work'.before), work'.page)
    BY <2>2 DEF SourceInv, Kept
  <2>4. pc' = "idle" => /\ exit' \in {"failed", "refused"} => sourceFile' = work'.before
                        /\ exit' = "unwritten" => sourceFile' \in {work'.before, Torn}
    BY DEF SourceInv, Kept, Busy
  <2>5. QED  BY <2>1, <2>3, <2>4 DEF Kept
<1>3. Matching'
  BY DEF SourceInv, Matching, Matches, Readable
<1>4. QED  BY <1>1, <1>2, <1>3 DEF SourceInv

LEMMA StandsStill ==
  ASSUME SourceInv, UNCHANGED <<sourceFile, assets, work, settled, pc, exit>>
  PROVE  SourceInv'
<1>1. UNCHANGED Merging
  BY DEF Merging
<1>2. Kinds'
  BY <1>1 DEF SourceInv, Kinds, Readable, SourceOK
<1>3. Kept'
  BY <1>1 DEF SourceInv, Kept, Readable
<1>4. Matching'
  BY <1>1 DEF SourceInv, Matching, Matches, Readable
<1>5. QED  BY <1>2, <1>3, <1>4 DEF SourceInv

LEMMA ImportMoves ==
  ASSUME SourceInv,
         \/ FetchFails \/ Refuse \/ DownloadFails \/ Downloaded \/ StopReturns \/ WriteFails
         \/ Crash \/ SpinnerTicks \/ SpinnerEnds \/ OrphanTicks
  PROVE  SourceInv'
<1>1. CASE SpinnerTicks \/ SpinnerEnds \/ OrphanTicks
  BY <1>1, StandsStill DEF SpinnerTicks, SpinnerEnds, OrphanTicks, files, ghosts
<1>2. CASE FetchFails \/ DownloadFails
  <2>1. /\ pc \in {"fetch", "download", "copy"} /\ pc' = "stopping" /\ exit' = "failed"
        /\ UNCHANGED <<sourceFile, assets, work, settled>>
    BY <1>2 DEF FetchFails, DownloadFails, Stopping, files, ghosts
  <2>2. QED  BY <2>1, MovesOn DEF Merging, Busy, Publishing, Generating
<1>3. CASE Refuse
  <2>1. /\ pc = "fetch" /\ pc' = "idle" /\ exit' = "refused"
        /\ UNCHANGED <<sourceFile, assets, work, settled>>
    BY <1>3 DEF Refuse, files, ghosts
  <2>2. QED  BY <2>1, MovesOn DEF Merging, Busy, Publishing, Generating
<1>4. CASE Downloaded
  <2>1. /\ pc = "download" /\ work.todo = <<>> /\ pc' = "stopping" /\ exit' = "running"
        /\ UNCHANGED <<sourceFile, assets, work, settled>>
    BY <1>4 DEF Downloaded, Stopping, files, ghosts
  <2>2. QED  BY <2>1, MovesOn DEF Merging, Busy, Publishing, Generating
<1>5. CASE StopReturns
  <2>1. /\ pc = "stopping" /\ pc' = IF exit = "running" THEN "truncate" ELSE "idle"
        /\ UNCHANGED <<sourceFile, assets, work, settled, exit>>
    BY <1>5 DEF StopReturns, files, ghosts
  <2>2. exit \in {"running", "failed"}
    BY <2>1 DEF SourceInv, Kept
  <2>3. exit = "running" => work.todo = <<>>
    BY <2>1 DEF SourceInv, Matching, Merging
  <2>4. QED  BY <2>1, <2>2, <2>3, MovesOn DEF Merging, Busy, Publishing, Generating
<1>6. CASE WriteFails \/ Crash
  <2>1. /\ pc' = "idle" /\ exit' \in {"unwritten", "crashed"}
        /\ exit' = "unwritten" => pc \in {"truncate", "fill"}
        /\ UNCHANGED <<sourceFile, assets, work, settled>>
    BY <1>6 DEF WriteFails, Crash, files
  <2>2. QED  BY <2>1, MovesOn DEF Merging, Busy, Publishing, Generating
<1>7. QED  BY <1>1, <1>2, <1>3, <1>4, <1>5, <1>6

LEMMA ImportBegins ==
  ASSUME SourceInv, Begin
  PROVE  SourceInv'
<1>1. PICK p \in Pages, skip \in BOOLEAN, ident \in BOOLEAN, menu \in BOOLEAN :
        work' = [Idle EXCEPT !.page = p, !.skip = skip, !.ident = ident, !.menu = menu,
                             !.before = sourceFile]
  BY DEF Begin
<1>2. work' = [page |-> p, skip |-> skip, ident |-> ident, menu |-> menu, before |-> sourceFile,
               source |-> NoFile, todo |-> <<>>]
  BY <1>1 DEF Idle
<1>3. pc' = "fetch" /\ exit' = "running" /\ UNCHANGED <<sourceFile, assets, settled>>
  BY DEF Begin, files
<1>4. ~Merging'
  BY <1>3 DEF Merging
<1>5. Kinds'
  BY <1>2, <1>3, <1>4 DEF SourceInv, Kinds, Readable, SourceOK
<1>6. Kept'
  BY <1>2, <1>3, <1>4 DEF Kept, Publishing, Generating
<1>7. Matching'
  BY <1>3, <1>4 DEF SourceInv, Matching, Matches, Readable
<1>8. QED  BY <1>5, <1>6, <1>7 DEF SourceInv

LEMMA ImportFetches ==
  ASSUME SiteInv, SourceInv, Fetched
  PROVE  SourceInv'
<1> DEFINE c == upsertAlbum(Existing.catalog, work.page)
           q == IF work.skip THEN <<>> ELSE Downloads(work.page)
           a == AlbumID(work.page)
<1>1. /\ pc = "fetch" /\ pc' = "download" /\ UNCHANGED <<sourceFile, assets, exit, settled>>
      /\ work' = [work EXCEPT !.source = [hasURL |-> TRUE, catalog |-> c], !.todo = q]
  BY DEF Fetched, files, ghosts
<1>2. work' = [page |-> work.page, skip |-> work.skip, ident |-> work.ident, menu |-> work.menu,
               before |-> work.before, source |-> [hasURL |-> TRUE, catalog |-> c], todo |-> q]
  BY <1>1 DEF SiteInv, Importer, WorkShape
<1>3. work.page \in Pages /\ work.page \in AllPages /\ sourceFile = work.before
  BY <1>1 DEF SourceInv, Kinds, Kept, Busy, AllPages
<1>4. /\ work'.page = work.page /\ work'.skip = work.skip /\ work'.before = work.before
      /\ work'.source = [hasURL |-> TRUE, catalog |-> c] /\ work'.source.catalog = c
      /\ work'.todo = q
  BY <1>2
<1>5. q \in Seq(Files)
  BY <1>3, DownloadsAreFiles
<1>6. SourceOK(work'.source)
  BY <1>3, <1>4, ExistingOK, SourceWithAlbum DEF SourceInv
<1> HIDE DEF c, q
<1>7. Kinds'
  BY <1>1, <1>3, <1>4, <1>5, <1>6 DEF SourceInv, Kinds, Readable, SourceOK, Busy
<1>8. Kept'
  <2>1. c = upsertAlbum(CatalogOf(work.before), work.page)
    BY <1>3 DEF Existing, CatalogOf, c
  <2>2. QED  BY <1>1, <1>3, <1>4, <2>1 DEF Kept
<1>9. Matching'
  <2>1. /\ DOMAIN c = DOMAIN Existing.catalog \cup {a} /\ c[a] = work.page
        /\ \A b \in DOMAIN c \ {a} : c[b] = Existing.catalog[b]
    BY DEF c, upsertAlbum
  <2>2. Matches(Existing.catalog, settled)
    <3>1. CASE Readable(sourceFile)
      BY <3>1 DEF SourceInv, Matching, Existing
    <3>2. CASE ~Readable(sourceFile)
      <4>1. Existing.catalog = <<>>
        BY <3>2 DEF Existing
      <4>2. QED  BY <4>1 DEF Matches
    <3>3. QED  BY <3>1, <3>2
  <2>3. Matches(c, settled \ {a})
    BY <2>1, <2>2 DEF Matches
  <2>4. ToSet(q) \subseteq ToSet(Downloads(work.page))
        /\ (~work.skip => q = Downloads(work.page))
    BY DEF q, ToSet
  <2>5. Readable(sourceFile') => Matches(sourceFile.catalog, settled)'
    BY <1>1 DEF SourceInv, Matching, Matches, Readable
  <2>6. Matches(work.source.catalog, settled \ {AlbumID(work.page)})'
    BY <1>1, <1>4, <2>3 DEF Matches
  <2>7. QED  BY <1>1, <1>4, <2>1, <2>4, <2>5, <2>6 DEF Matching
<1>10. QED  BY <1>7, <1>8, <1>9 DEF SourceInv

SoonMatches(c, S) ==
  \A a \in DOMAIN c \cap S : \A f \in ToSet(Downloads(c[a])) : assets'[f] = Saved(c[a], f)

\* A file under one album's id is none of another album's.
LEMMA OtherFilesStay ==
  ASSUME NEW a, \A f \in Files : f[1] # a => assets'[f] = assets[f],
         NEW c, Range(c) \subseteq AllPages, \A b \in DOMAIN c : AlbumID(c[b]) = b,
         Matches(c, settled \ {a})
  PROVE  SoonMatches(c, settled \ {a})
<1> SUFFICES ASSUME NEW b \in DOMAIN c, b \in settled, b # a,
                    NEW f \in ToSet(Downloads(c[b]))
             PROVE  assets'[f] = Saved(c[b], f)
  BY DEF SoonMatches
<1>1. c[b] \in AllPages /\ AlbumID(c[b]) = b
  BY DEF Range
<1>2. f[1] = b
  BY <1>1, DownloadsOf
<1>3. f \in Files
  BY <1>1, DownloadsAreFiles DEF ToSet
<1>4. assets[f] = Saved(c[b], f)
  BY DEF Matches
<1>5. QED  BY <1>2, <1>3, <1>4

\* The file that import is about to write.
LEMMA FileAtHand ==
  ASSUME SourceInv, pc \in {"download", "copy"}, work.todo # <<>>
  PROVE  /\ work.page \in Pages
         /\ Head(work.todo) \in Files /\ Head(work.todo)[1] = AlbumID(work.page)
         /\ Head(work.todo) \in ToSet(work.todo)
         /\ Tail(work.todo) \in Seq(Files)
         /\ ToSet(Tail(work.todo)) \subseteq ToSet(work.todo)
         /\ \A f \in ToSet(work.todo) : f = Head(work.todo) \/ f \in ToSet(Tail(work.todo))
<1> DEFINE q == work.todo
<1>1. q \in Seq(Files) /\ work.page \in Pages /\ work.page \in AllPages
  BY DEF SourceInv, Kinds, Busy, AllPages
<1>2. ToSet(q) \subseteq ToSet(Downloads(work.page))
  BY DEF SourceInv, Matching, Merging
<1>3. /\ Head(q) = q[1] /\ Len(q) \in Nat \ {0} /\ DOMAIN q = 1 .. Len(q)
      /\ DOMAIN Tail(q) = 1 .. (Len(q) - 1)
      /\ \A i \in 1 .. (Len(q) - 1) : Tail(q)[i] = q[i + 1]
  BY <1>1
<1>4. Head(q) \in ToSet(q)
  BY <1>3 DEF ToSet
<1>5. ToSet(Tail(q)) \subseteq ToSet(q)
  BY <1>3 DEF ToSet
<1>6. QED  BY <1>1, <1>2, <1>4, <1>5, HeadAndTail, DownloadsOf

LEMMA ImportCreates ==
  ASSUME SiteInv, SourceInv, Create
  PROVE  SourceInv'
<1> DEFINE h == Head(work.todo)  a == AlbumID(work.page)
<1>1. /\ pc = "download" /\ work.todo # <<>> /\ pc' = "copy"
      /\ UNCHANGED <<sourceFile, work, exit>>
      /\ assets' = [assets EXCEPT ![h] = Torn] /\ settled' = settled \ {a}
  BY DEF Create
<1>2. /\ h \in Files /\ h[1] = a /\ h \in ToSet(work.todo)
  BY <1>1, FileAtHand
<1>o. \A f \in Files : f[1] # a => assets'[f] = assets[f]
  BY <1>1, <1>2 DEF SourceInv, Kinds
<1>3. Merging /\ Merging'
  BY <1>1 DEF Merging
<1>4. Kinds'
  BY <1>1, <1>2, <1>3 DEF SourceInv, Kinds, Readable, SourceOK, Busy
<1>5. Kept'
  BY <1>1, <1>3 DEF SourceInv, Kept, Readable, Busy, Publishing, Generating
<1>6. Matching'
  <2>1. Readable(sourceFile) => Matches(sourceFile.catalog, settled)'
    <3> SUFFICES ASSUME Readable(sourceFile) PROVE Matches(sourceFile.catalog, settled)'
      OBVIOUS
    <3> DEFINE c == sourceFile.catalog
    <3>1. /\ Range(c) \subseteq AllPages /\ \A b \in DOMAIN c : AlbumID(c[b]) = b
          /\ Matches(c, settled \ {a})
      BY DEF SourceInv, Kinds, SourceOK, Matching, Matches
    <3> HIDE DEF c, a
    <3>2. SoonMatches(c, settled \ {a})
      BY <1>o, <3>1, OtherFilesStay
    <3>3. QED  BY <1>1, <3>2 DEF Matches, SoonMatches, c, a
  <2>2. Matches(work.source.catalog, settled \ {AlbumID(work.page)})'
    <3> DEFINE c == work.source.catalog
    <3>1. /\ Range(c) \subseteq AllPages /\ \A b \in DOMAIN c : AlbumID(c[b]) = b
          /\ Matches(c, settled \ {a})
      BY <1>3 DEF SourceInv, Kinds, SourceOK, Matching
    <3> HIDE DEF c, a
    <3>2. SoonMatches(c, settled \ {a})
      BY <1>o, <3>1, OtherFilesStay
    <3>3. QED  BY <1>1, <3>2 DEF Matches, SoonMatches, c, a
  <2>3. ~work.skip => \A f \in ToSet(Downloads(work.page)) :
                        f \in ToSet(work.todo) \/ assets'[f] = Saved(work.page, f)
    <3> SUFFICES ASSUME ~work.skip, NEW f \in ToSet(Downloads(work.page)), f \notin ToSet(work.todo)
                 PROVE  assets'[f] = Saved(work.page, f)
      OBVIOUS
    <3>1. assets[f] = Saved(work.page, f) /\ f # h
      BY <1>2, <1>3 DEF SourceInv, Matching
    <3>2. work.page \in AllPages
      BY <1>1 DEF SourceInv, Kinds, Busy, AllPages
    <3>3. f \in Files
      BY <3>2, DownloadsAreFiles DEF ToSet
    <3>4. QED  BY <1>1, <3>1, <3>3 DEF SourceInv, Kinds
  <2>4. /\ a \in DOMAIN work.source.catalog /\ work.source.catalog[a] = work.page
        /\ ToSet(work.todo) \subseteq ToSet(Downloads(work.page))
    BY <1>3 DEF SourceInv, Matching
  <2>5. QED  BY <1>1, <2>1, <2>2, <2>3, <2>4 DEF Matching, Readable
<1>7. QED  BY <1>4, <1>5, <1>6 DEF SourceInv

LEMMA ImportCopies ==
  ASSUME SiteInv, SourceInv, Copy
  PROVE  SourceInv'
<1> DEFINE h == Head(work.todo)  a == AlbumID(work.page)
<1>1. /\ pc = "copy" /\ pc' = "download" /\ UNCHANGED <<sourceFile, exit, settled>>
      /\ assets' = [assets EXCEPT ![h] = Saved(work.page, h)]
      /\ work' = [work EXCEPT !.todo = Tail(work.todo)]
  BY DEF Copy, ghosts
<1>2. work' = [page |-> work.page, skip |-> work.skip, ident |-> work.ident, menu |-> work.menu,
               before |-> work.before, source |-> work.source, todo |-> Tail(work.todo)]
  BY <1>1 DEF SiteInv, Importer, WorkShape
<1>3. /\ work'.page = work.page /\ work'.skip = work.skip /\ work'.before = work.before
      /\ work'.source = work.source /\ work'.todo = Tail(work.todo)
  BY <1>2
<1>4. /\ work.todo # <<>> /\ work.page \in Pages /\ work.page \in AllPages
      /\ h \in Files /\ h[1] = a /\ a \notin settled
      /\ Tail(work.todo) \in Seq(Files) /\ ToSet(Tail(work.todo)) \subseteq ToSet(work.todo)
      /\ \A f \in ToSet(work.todo) : f = h \/ f \in ToSet(Tail(work.todo))
  BY <1>1, FileAtHand DEF SourceInv, Kinds, Matching, AllPages
<1>o. \A f \in Files : f[1] # a => assets'[f] = assets[f]
  BY <1>1, <1>4 DEF SourceInv, Kinds
<1>5. Merging /\ Merging' /\ Saved(work.page, h) \in AllPages \cup {Torn}
  BY <1>1, <1>4 DEF Merging, Saved
<1>6. Kinds'
  BY <1>1, <1>3, <1>4, <1>5 DEF SourceInv, Kinds, Readable, SourceOK, Busy
<1>7. Kept'
  BY <1>1, <1>3, <1>5 DEF SourceInv, Kept, Readable, Busy, Publishing, Generating
<1>8. Matching'
  <2>1. Readable(sourceFile) => Matches(sourceFile.catalog, settled)'
    <3> SUFFICES ASSUME Readable(sourceFile) PROVE Matches(sourceFile.catalog, settled)'
      OBVIOUS
    <3> DEFINE c == sourceFile.catalog
    <3>1. /\ Range(c) \subseteq AllPages /\ \A b \in DOMAIN c : AlbumID(c[b]) = b
          /\ Matches(c, settled \ {a})
      BY DEF SourceInv, Kinds, SourceOK, Matching, Matches
    <3> HIDE DEF c, a
    <3>2. SoonMatches(c, settled \ {a})
      BY <1>o, <3>1, OtherFilesStay
    <3>3. QED  BY <1>1, <1>4, <3>2 DEF Matches, SoonMatches, c, a
  <2>2. Matches(work.source.catalog, settled \ {AlbumID(work.page)})'
    <3> DEFINE c == work.source.catalog
    <3>1. /\ Range(c) \subseteq AllPages /\ \A b \in DOMAIN c : AlbumID(c[b]) = b
          /\ Matches(c, settled \ {a})
      BY <1>5 DEF SourceInv, Kinds, SourceOK, Matching
    <3> HIDE DEF c, a
    <3>2. SoonMatches(c, settled \ {a})
      BY <1>o, <3>1, OtherFilesStay
    <3>3. QED  BY <1>1, <1>3, <3>2 DEF Matches, SoonMatches, c, a
  <2>3. ~work.skip => \A f \in ToSet(Downloads(work.page)) :
                        f \in ToSet(Tail(work.todo)) \/ assets'[f] = Saved(work.page, f)
    <3> SUFFICES ASSUME ~work.skip, NEW f \in ToSet(Downloads(work.page)),
                        f \notin ToSet(Tail(work.todo))
                 PROVE  assets'[f] = Saved(work.page, f)
      OBVIOUS
    <3>1. f = h \/ assets[f] = Saved(work.page, f)
      BY <1>4, <1>5 DEF SourceInv, Matching
    <3>2. f \in Files
      BY <1>4, DownloadsAreFiles DEF ToSet
    <3>3. QED  BY <1>1, <1>4, <3>1, <3>2 DEF SourceInv, Kinds
  <2>4. /\ a \in DOMAIN work.source.catalog /\ work.source.catalog[a] = work.page
        /\ ToSet(Tail(work.todo)) \subseteq ToSet(Downloads(work.page))
    BY <1>4, <1>5 DEF SourceInv, Matching
  <2>5. QED  BY <1>1, <1>3, <2>1, <2>2, <2>3, <2>4 DEF Matching, Readable
<1>9. QED  BY <1>6, <1>7, <1>8 DEF SourceInv

LEMMA ImportStores ==
  ASSUME SourceInv, TruncateSource \/ FillSource
  PROVE  SourceInv'
<1> DEFINE a == AlbumID(work.page)
<1>1. CASE TruncateSource
  <2>1. /\ pc = "truncate" /\ pc' = "fill" /\ sourceFile' = Torn
        /\ UNCHANGED <<assets, work, exit, settled>>
    BY <1>1 DEF TruncateSource, ghosts
  <2>2. Merging /\ Merging' /\ ~Readable(sourceFile')
    BY <2>1 DEF Merging, Readable
  <2>3. Kinds'
    BY <2>1, <2>2 DEF SourceInv, Kinds, SourceOK, Busy
  <2>4. Kept'
    BY <2>1, <2>2 DEF SourceInv, Kept, Readable, Busy, Publishing, Generating
  <2>5. Matching'
    BY <2>1, <2>2 DEF SourceInv, Matching, Matches
  <2>6. QED  BY <2>3, <2>4, <2>5 DEF SourceInv
<1>2. CASE FillSource
  <2>1. /\ pc = "fill" /\ pc' = "idle" /\ exit' = "imported" /\ sourceFile' = work.source
        /\ settled' = IF work.skip THEN settled \ {a} ELSE settled \cup {a}
        /\ UNCHANGED <<assets, work>>
    BY <1>2 DEF FillSource
  <2>2. Merging /\ ~Merging' /\ work.page \in Pages /\ Readable(work.source)
    BY <2>1, SourcesAreReadable DEF Merging, SourceInv, Kinds, Busy
  <2>3. Kinds'
    <3>1. SourceOK(sourceFile')
      BY <2>1, <2>2 DEF SourceInv, Kinds
    <3>2. a \in AlbumIDs
      BY <2>2 DEF AlbumIDs
    <3>3. QED  BY <2>1, <2>2, <3>1, <3>2 DEF SourceInv, Kinds, SourceOK, Busy
  <2>4. Kept'
    BY <2>1, <2>2 DEF SourceInv, Kept, Readable, Busy, Publishing, Generating
  <2>5. Matching'
    <3>1. /\ work.source.catalog[a] = work.page
          /\ Matches(work.source.catalog, settled \ {a})
          /\ ~work.skip => \A f \in ToSet(Downloads(work.page)) : assets[f] = Saved(work.page, f)
      BY <2>1, <2>2 DEF SourceInv, Matching, ToSet
    <3>2. Matches(sourceFile.catalog, settled)'
      BY <2>1, <3>1 DEF Matches
    <3>3. QED  BY <2>1, <2>2, <3>2 DEF Matching
  <2>6. QED  BY <2>3, <2>4, <2>5 DEF SourceInv
<1>3. QED  BY <1>1, <1>2

LEMMA PublishMoves ==
  ASSUME SourceInv,
         \/ StagePair \/ StageMissing \/ StageBreaks \/ EnsureRepo \/ InitRepo \/ RemoveOrigin \/ AddOrigin
         \/ AddAll \/ Commit \/ Push \/ PushRejected \/ EnablePages \/ CommandFails
  PROVE  SourceInv'
<1>1. /\ UNCHANGED <<sourceFile, assets, work, settled>>
      /\ pc \in Publishing \cup Generating /\ pc' \in Publishing \cup {"idle"}
      /\ pc' = "idle" => exit' \in {"failed", "published"}
  <2>1. CASE StagePair \/ StageMissing \/ StageBreaks \/ EnsureRepo
    BY <2>1 DEF StagePair, StageMissing, StageBreaks, EnsureRepo, PublishAt, Publishing, files, ghosts
  <2>2. CASE InitRepo \/ RemoveOrigin \/ AddOrigin \/ AddAll
    BY <2>2 DEF InitRepo, RemoveOrigin, AddOrigin, AddAll, PublishAt, Publishing, files, ghosts
  <2>3. CASE Commit \/ Push \/ PushRejected \/ EnablePages
    BY <2>3 DEF Commit, Push, PushRejected, EnablePages, PublishAt, Publishing, files, ghosts
  <2>4. CASE CommandFails
    BY <2>4 DEF CommandFails, Publishing, Generating, files
  <2>5. QED  BY <2>1, <2>2, <2>3, <2>4
<1>2. QED  BY <1>1, MovesOn DEF Merging, Busy, Publishing, Generating

\* What generate and publish work on is none of import's, and the source stays as it is.
LEMMA PublishWorks ==
  ASSUME SourceInv, UNCHANGED <<sourceFile, assets, settled>>, pc' \in Publishing \cup Generating,
         work'.todo \in Seq(Files), work'.before = sourceFile
  PROVE  SourceInv'
<1>1. ~Merging' /\ pc' \notin Busy /\ pc' # "idle"
  BY DEF Merging, Busy, Publishing, Generating
<1>2. Kinds'
  BY <1>1 DEF SourceInv, Kinds, Readable, SourceOK, Busy
<1>3. Kept'
  BY <1>1 DEF Kept, Busy
<1>4. Matching'
  BY <1>1 DEF SourceInv, Matching, Matches, Readable, Busy
<1>5. QED  BY <1>2, <1>3, <1>4 DEF SourceInv

LEMMA PublishReads ==
  ASSUME SiteInv, SourceInv, BeginPublish \/ stageAsset
  PROVE  SourceInv'
<1>1. CASE BeginPublish
  <2> DEFINE q == SetToSeq(AssetsOf(manifestFile))
  <2>1. /\ Readable(manifestFile) /\ pc' = "pair" /\ UNCHANGED <<sourceFile, assets, settled>>
        /\ work' = [Idle EXCEPT !.before = sourceFile, !.source = manifestFile, !.todo = q]
    BY <1>1 DEF BeginPublish, PublishAt, files, ghosts
  <2>2. work' = [page |-> Idle.page, skip |-> Idle.skip, ident |-> Idle.ident, menu |-> Idle.menu,
                 before |-> sourceFile, source |-> manifestFile, todo |-> q]
    BY <2>1 DEF Idle
  <2>3. AssetsOf(manifestFile) \subseteq Files /\ IsFiniteSet(AssetsOf(manifestFile))
    BY <2>1, AssetsAreFiles DEF SiteInv, Staging
  <2>4. q \in Seq(Files)
    BY <2>3, AllOfSeq, SeqOfMore
  <2>5. work'.todo \in Seq(Files) /\ work'.before = sourceFile
    BY <2>2, <2>4
  <2>6. QED  BY <2>1, <2>5, PublishWorks DEF Publishing
<1>2. CASE stageAsset
  <2>1. /\ pc = "stage" /\ pc' = "stage" /\ work.todo # <<>>
        /\ UNCHANGED <<sourceFile, assets, settled>>
        /\ work' = [work EXCEPT !.todo = Tail(work.todo)]
    BY <1>2 DEF stageAsset, PublishAt, files, ghosts
  <2>2. work' = [page |-> work.page, skip |-> work.skip, ident |-> work.ident, menu |-> work.menu,
                 before |-> work.before, source |-> work.source, todo |-> Tail(work.todo)]
    BY <2>1 DEF SiteInv, Importer, WorkShape
  <2>3. work'.todo \in Seq(Files) /\ work'.before = sourceFile
    <3>1. Tail(work.todo) \in Seq(Files)
      BY <2>1 DEF SourceInv, Kinds
    <3>2. work.before = sourceFile
      BY <2>1 DEF SourceInv, Kept, Publishing
    <3>3. QED  BY <2>2, <3>1, <3>2
  <2>4. QED  BY <2>1, <2>3, PublishWorks DEF Publishing
<1>3. QED  BY <1>1, <1>2

LEMMA GenerateSource ==
  ASSUME SourceInv, generate
  PROVE  SourceInv'
<1>1. UNCHANGED <<sourceFile, assets, settled>>
  BY GenerateApart
<1>2. CASE BeginGenerate
  <2>1. PICK n : work' = [Idle EXCEPT !.before = sourceFile,
                              !.source = [log |-> n, catalog |-> sourceFile.catalog]]
    BY <1>2 DEF BeginGenerate
  <2>2. work'.todo \in Seq(Files) /\ work'.before = sourceFile
    BY <2>1 DEF Idle
  <2>3. pc' \in Generating
    BY <1>2 DEF BeginGenerate, Generating
  <2>4. QED  BY <1>1, <2>2, <2>3, PublishWorks
<1>3. CASE TruncateManifest \/ FillManifest \/ TruncateHistory \/ FillHistory
  <2>1. /\ pc \in Generating /\ pc' \in Generating \cup {"idle"} /\ UNCHANGED work
        /\ pc' = "idle" => exit' = "generated"
    BY <1>3 DEF TruncateManifest, FillManifest, TruncateHistory, FillHistory, Writing, Generating
  <2>2. QED  BY <1>1, <2>1, MovesOn DEF Merging, Busy, Publishing, Generating
<1>4. QED  BY <1>2, <1>3 DEF generate

LEMMA SourceInit == Init => SourceInv
<1> SUFFICES ASSUME Init PROVE SourceInv
  OBVIOUS
<1>1. /\ sourceFile \in Handwritten \cup {NoFile}
      /\ assets = [f \in Files |->
           IF Readable(sourceFile) /\ f[1] \in DOMAIN sourceFile.catalog
              /\ f \in Declared(sourceFile.catalog[f[1]])
           THEN sourceFile.catalog[f[1]] ELSE NoFile]
      /\ pc = "idle" /\ exit = "none" /\ settled = {} /\ work.todo = <<>>
  BY DEF Init, ImportInit, Idle
<1>2. Readable(sourceFile) => SourceOK(sourceFile)
  <2> SUFFICES ASSUME sourceFile \in Handwritten PROVE SourceOK(sourceFile)
    BY <1>1 DEF Readable
  <2>1. DOMAIN sourceFile.catalog \subseteq AlbumIDs
    BY DEF AlbumIDs
  <2>2. Range(sourceFile.catalog) \subseteq AllPages
    BY DEF AllPages
  <2>3. QED  BY <2>1, <2>2, ImportAssumption DEF SourceOK
<1>3. assets \in [Files -> AllPages \cup {NoFile, Torn}]
  <2> SUFFICES ASSUME NEW f \in Files, Readable(sourceFile), f[1] \in DOMAIN sourceFile.catalog
               PROVE  sourceFile.catalog[f[1]] \in AllPages
    BY <1>1
  <2>1. QED  BY <1>2 DEF SourceOK, Range
<1>4. Kinds
  BY <1>1, <1>2, <1>3 DEF Kinds, Merging, Busy
<1>5. Kept /\ Matching
  BY <1>1 DEF Kept, Matching, Matches, Merging, Busy, Publishing, Generating
<1>6. QED  BY <1>4, <1>5 DEF SourceInv

LEMMA SourceStep ==
  ASSUME SiteInv, SourceInv, [Next]_vars
  PROVE  SourceInv'
<1>1. CASE UNCHANGED vars
  BY <1>1, StandsStill DEF vars, importVars
<1>2. CASE LoseOut
  BY <1>2, StandsStill DEF LoseOut, importVars
<1>3. CASE generate \/ publishGithub \/ CommandFails
  BY <1>3, GenerateSource, PublishMoves, PublishReads DEF publishGithub
<1>4. CASE Importing(ImportNext)
  BY <1>4, ImportMoves, ImportBegins, ImportFetches, ImportCreates, ImportCopies, ImportStores
  DEF Importing, ImportNext, importBandcamp
<1>5. QED  BY <1>1, <1>2, <1>3, <1>4 DEF Next

\* An import that fails before it writes, or is refused, leaves the source as it was; one
\* that succeeds changes its own album and no other that could be read; one whose write fails
\* leaves the old source or a cut one, whatever came before and goes on beside it.
THEOREM SourceIsKept == Spec => []SourceKept
<1>1. Spec => []SourceInv
  BY InitOK, InitSite, SourceInit, Step, SiteStep, SourceStep, PTL DEF Spec
<1>2. SourceInv => SourceKept
  <2> SUFFICES ASSUME SourceInv, pc = "idle" PROVE SourceKept
    BY DEF SourceKept
  <2> DEFINE old == CatalogOf(work.before)  id == AlbumID(work.page)
  <2>1. exit \in {"failed", "refused"} => sourceFile = work.before
    BY DEF SourceInv, Kept
  <2>2. exit = "unwritten" => sourceFile \in {work.before, Torn}
    BY DEF SourceInv, Kept
  <2>3. ASSUME exit = "imported"
        PROVE  Readable(sourceFile) /\ sourceFile.catalog = upsertAlbum(old, work.page)
    BY <2>3 DEF SourceInv, Kept
  <2>4. /\ DOMAIN upsertAlbum(old, work.page) = DOMAIN old \cup {id}
        /\ upsertAlbum(old, work.page)[id] = work.page
        /\ \A a \in DOMAIN old \ {id} : upsertAlbum(old, work.page)[a] = old[a]
    BY DEF upsertAlbum
  <2>5. QED  BY <2>1, <2>2, <2>3, <2>4 DEF SourceKept
<1>3. QED  BY <1>1, <1>2, PTL

\* The files that the page of an album offers are that page's after its import with
\* downloads, whichever imports of the same and of other albums came between.
THEOREM FilesAreTheSources == Spec => []AssetsMatchSource
<1>1. Spec => []SourceInv
  BY InitOK, InitSite, SourceInit, Step, SiteStep, SourceStep, PTL DEF Spec
<1>2. SourceInv => AssetsMatchSource
  BY DEF SourceInv, Matching, Matches, AssetsMatchSource
<1>3. QED  BY <1>1, <1>2, PTL

-----------------------------------------------------------------------------
\* The spinner and the bounds.

SpinnerKinds ==
  /\ orphans \subseteq Messages /\ message \in Messages /\ drawn \subseteq Messages
  /\ stop \in BOOLEAN /\ done \in BOOLEAN /\ lastLen \in Nat /\ screen \in Nat
  /\ imports \in 0 .. MaxImports /\ faults \in 0 .. MaxFaults

PublishKinds ==
  /\ historyFile \in {NoFile, Torn} \cup 1 .. logs /\ logs \in 0 .. MaxRevs
  /\ pc \in Generating => work.source.log \in 1 .. logs
  /\ out.files \in [Files -> AllPages \cup {NoFile, Torn}]
  /\ \A i \in DOMAIN repo.log : repo.log[i].clone \in 0 .. losses
  /\ losses \in 0 .. 1

LEMMA DrawnWidth ==
  ASSUME SpinnerKinds, NEW m \in Messages
  PROVE  renderLine(m) \in {screen, Columns[m]} /\ renderLine(m) \in Nat /\ Bytes[m] \in Nat
BY SpinnerAssumption DEF renderLine, Overwritten, SpinnerKinds

LEMMA SpinnerKindsStep ==
  ASSUME SpinnerKinds, [Next]_vars
  PROVE  SpinnerKinds'
<1> USE DEF SpinnerKinds
<1>0. /\ {"fetching", "fetched", "downloading"} \subseteq Messages
      /\ MaxImports \in Nat /\ MaxFaults \in Nat
  BY ImportAssumption
<1>1. CASE UNCHANGED vars
  BY <1>1 DEF vars, importVars, spinnerVars
<1>2. CASE generate \/ LoseOut
  BY <1>2, GenerateApart DEF LoseOut, importVars, spinnerVars
<1>3. CASE CommandFails \/ StageBreaks
  BY <1>0, <1>3 DEF CommandFails, StageBreaks, spinnerVars
<1>4. CASE publishGithub /\ ~StageBreaks
  <2>1. UNCHANGED <<orphans, ghosts, spinnerVars>>
    BY <1>4 DEF publishGithub, PublishAt, BeginPublish, StagePair, stageAsset, StageMissing, EnsureRepo,
                InitRepo, RemoveOrigin, AddOrigin, AddAll, Commit, Push, PushRejected, EnablePages
  <2>2. QED  BY <2>1 DEF ghosts, spinnerVars
<1>5. CASE Begin
  <2>1. orphans' \subseteq orphans /\ message' = "fetching" /\ stop' = FALSE /\ done' = FALSE
        /\ lastLen' = 0 /\ screen' = 0 /\ drawn' = {}
        /\ imports < MaxImports /\ imports' = imports + 1
        /\ UNCHANGED faults
    BY <1>5 DEF Begin, New
  <2>2. orphans' \subseteq Messages /\ message' \in Messages /\ drawn' \subseteq Messages
    BY <1>0, <2>1
  <2>3. stop' \in BOOLEAN /\ done' \in BOOLEAN
    BY <2>1
  <2>4. lastLen' \in Nat /\ screen' \in Nat
    BY <2>1
  <2>5. imports' \in 0 .. MaxImports /\ faults' \in 0 .. MaxFaults
    BY <1>0, <2>1
  <2>6. QED  BY <2>2, <2>3, <2>4, <2>5
<1>6. CASE Refuse \/ Crash
  <2>1. orphans' \subseteq orphans \cup {"fetched"} /\ stop' = FALSE /\ done' = TRUE
        /\ UNCHANGED <<message, lastLen, screen, drawn, imports>>
        /\ faults' \in {faults, faults + 1} /\ (faults' # faults => faults < MaxFaults)
    BY <1>6 DEF Refuse, Crash, Exit, ghosts
  <2>2. orphans' \subseteq Messages /\ message' \in Messages /\ drawn' \subseteq Messages
    BY <1>0, <2>1
  <2>3. stop' \in BOOLEAN /\ done' \in BOOLEAN
    BY <2>1
  <2>4. lastLen' \in Nat /\ screen' \in Nat
    BY <2>1
  <2>5. imports' \in 0 .. MaxImports /\ faults' \in 0 .. MaxFaults
    BY <1>0, <2>1
  <2>6. QED  BY <2>2, <2>3, <2>4, <2>5
<1>7. CASE FetchFails \/ DownloadFails \/ Downloaded
  <2>1. /\ stop' = TRUE /\ UNCHANGED <<orphans, message, done, lastLen, screen, drawn, imports>>
        /\ faults' \in {faults, faults + 1} /\ (faults' # faults => faults < MaxFaults)
    BY <1>7 DEF FetchFails, DownloadFails, Downloaded, Stopping, CallStop, ghosts
  <2>2. QED  BY <1>0, <2>1
<1>8. CASE Fetched \/ Create
  <2>1. /\ message' \in {"fetched", "downloading"}
        /\ UNCHANGED <<orphans, stop, done, lastLen, screen, drawn, imports, faults>>
    BY <1>8 DEF Fetched, Create, Update, ghosts
  <2>2. QED  BY <1>0, <2>1
<1>9. CASE Copy \/ StopReturns \/ TruncateSource \/ FillSource
  BY <1>9 DEF Copy, StopReturns, TruncateSource, FillSource, ghosts, spinnerVars
<1>10. CASE SpinnerTicks
  <2>1. /\ screen' = renderLine(message) /\ lastLen' = Bytes[message]
        /\ drawn' = drawn \cup {message}
        /\ UNCHANGED <<orphans, message, stop, done, imports, faults>>
    BY <1>10 DEF SpinnerTicks, Tick, ghosts
  <2>2. QED  BY <2>1, DrawnWidth
<1>11. CASE SpinnerEnds
  <2>1. /\ screen' \in {screen, 0} /\ done' = TRUE
        /\ UNCHANGED <<orphans, message, stop, lastLen, drawn, imports, faults>>
    BY <1>11 DEF SpinnerEnds, Finish, Overwritten, ghosts
  <2>2. QED  BY <2>1
<1>12. CASE OrphanTicks
  <2>1. /\ \E m \in Messages : screen' \in {screen, Columns[m]}
        /\ UNCHANGED <<orphans, message, stop, done, lastLen, drawn, imports, faults>>
    BY <1>12 DEF OrphanTicks, ghosts
  <2>2. QED  BY <2>1, SpinnerAssumption
<1>13. CASE WriteFails
  BY <1>0, <1>13 DEF WriteFails, spinnerVars
<1>14. QED
  BY <1>13, <1>1, <1>2, <1>3, <1>4, <1>5, <1>6, <1>7, <1>8, <1>9, <1>10, <1>11, <1>12
  DEF Next, Importing, ImportNext, importBandcamp

LEMMA PublishKindsStep ==
  ASSUME PublishInv, SiteInv, SourceInv, PublishKinds, [Next]_vars
  PROVE  PublishKinds'
<1> USE DEF PublishKinds
<1>1. CASE UNCHANGED vars
  BY <1>1 DEF vars, importVars, publishVars, pair
<1>2. CASE Importing(ImportNext)
  <2>1. /\ UNCHANGED <<historyFile, logs, out, repo, losses>>
        /\ pc' \in Generating => UNCHANGED <<pc, work>>
    BY <1>2, ImportApart DEF PublishInv, OnItsWay
  <2>2. QED  BY <2>1
<1>3. CASE generate
  <2>1. UNCHANGED <<out, repo, losses>> /\ logs \in Nat /\ MaxRevs \in Nat
    BY <1>3, GenerateApart, PublishAssumption
  <2>2. CASE BeginGenerate
    <3>1. PICK n \in {historyFile, logs + 1} :
            /\ work' = [Idle EXCEPT !.before = sourceFile,
                                    !.source = [log |-> n, catalog |-> sourceFile.catalog]]
            /\ n = logs + 1 \/ Readable(historyFile)
            /\ logs' = IF n = logs + 1 THEN logs + 1 ELSE logs
            /\ logs < MaxRevs /\ UNCHANGED historyFile
      <4> DEFINE same == manifestFile # NoFile /\ manifestFile.catalog = sourceFile.catalog
      <4>1. /\ work' = [Idle EXCEPT !.before = sourceFile,
                          !.source = [log |-> IF same THEN historyFile ELSE logs + 1,
                                      catalog |-> sourceFile.catalog]]
            /\ logs' = IF same THEN logs ELSE logs + 1
            /\ logs < MaxRevs /\ UNCHANGED historyFile
            /\ manifestFile # NoFile => Readable(historyFile)
        BY <2>2 DEF BeginGenerate, pair
      <4>2. CASE same
        <5>1. historyFile \in 1 .. logs
          BY <4>1, <4>2 DEF Readable
        <5>2. historyFile # logs + 1
          BY <2>1, <5>1
        <5>3. QED  BY <4>1, <4>2, <5>2
      <4>3. CASE ~same
        BY <4>1, <4>3
      <4>4. QED  BY <4>2, <4>3
    <3>2. n \in 1 .. logs' /\ logs' \in 0 .. MaxRevs
      BY <2>1, <3>1 DEF Readable
    <3>3. work'.source.log = n
      BY <3>1 DEF Idle
    <3>4. historyFile' \in {NoFile, Torn} \cup 1 .. logs'
      BY <2>1, <3>1
    <3>5. QED  BY <2>1, <3>2, <3>3, <3>4
  <2>3. CASE TruncateManifest \/ FillManifest \/ TruncateHistory \/ FillHistory
    <3>1. /\ pc \in Generating /\ UNCHANGED <<work, logs>>
          /\ historyFile' \in {historyFile, Torn, work.source.log}
      BY <2>3 DEF TruncateManifest, FillManifest, TruncateHistory, FillHistory, Writing, Generating
    <3>2. historyFile' \in {NoFile, Torn} \cup 1 .. logs'
      BY <3>1
    <3>3. QED  BY <2>1, <3>1, <3>2
  <2>4. QED  BY <1>3, <2>2, <2>3 DEF generate
<1>4. CASE LoseOut
  <2>1. /\ losses = 0 /\ losses' = losses + 1 /\ out' = EmptyTree /\ repo' = NoRepo
        /\ UNCHANGED <<historyFile, logs, pc>> /\ pc = "idle"
    BY <1>4 DEF LoseOut, pair, importVars
  <2>2. QED  BY <2>1 DEF EmptyTree, NoRepo, Generating
<1>5. CASE publishGithub \/ CommandFails
  <2>1. UNCHANGED <<historyFile, logs, losses>> /\ pc' \notin Generating
    BY <1>5 DEF publishGithub, CommandFails, PublishAt, BeginPublish, StagePair, stageAsset,
                StageMissing, StageBreaks, EnsureRepo, InitRepo, RemoveOrigin, AddOrigin, AddAll,
                Commit, Push, PushRejected, EnablePages, publishVars, pair, Generating
  <2>2. out'.files \in [Files -> AllPages \cup {NoFile, Torn}]
    <3>1. CASE UNCHANGED out
      BY <3>1
    <3>2. CASE StagePair \/ StageMissing \/ (StageBreaks /\ pc = "pair")
      <4>1. \E m, h : out' = [manifest |-> m, history |-> h, files |-> out.files]
        BY <3>2 DEF StagePair, StageMissing, StageBreaks, PublishInv, Shapes
      <4>2. QED  BY <4>1
    <3>3. CASE stageAsset \/ (StageBreaks /\ pc # "pair")
      <4>1. PICK x \in {assets[Head(work.todo)], Torn} :
              /\ work.todo # <<>>
              /\ out' = [out EXCEPT !.files[Head(work.todo)] = x]
        BY <3>3 DEF stageAsset, StageBreaks
      <4>2. out' = [manifest |-> out.manifest, history |-> out.history,
                    files |-> [out.files EXCEPT ![Head(work.todo)] = x]]
        BY <4>1 DEF PublishInv, Shapes
      <4>3. Head(work.todo) \in Files
        BY <4>1 DEF SourceInv, Kinds
      <4>4. x \in AllPages \cup {NoFile, Torn}
        BY <4>1, <4>3 DEF SourceInv, Kinds
      <4>5. QED  BY <4>2, <4>3, <4>4
    <3>4. QED
      BY <1>5, <3>1, <3>2, <3>3
      DEF publishGithub, CommandFails, BeginPublish, EnsureRepo, InitRepo, RemoveOrigin, AddOrigin,
          AddAll, Commit, Push, PushRejected, EnablePages, publishVars
  <2>3. \A i \in DOMAIN repo'.log : repo'.log[i].clone \in 0 .. losses
    <3>1. CASE repo'.log = repo.log
      BY <3>1
    <3>2. CASE Commit
      <4> DEFINE new == [tree |-> repo.index, clone |-> losses]
      <4>1. repo' = IF repo.index = Tip(repo.log) THEN repo
                    ELSE [repo EXCEPT !.log = Append(repo.log, new)]
        BY <3>2 DEF Commit
      <4>2. CASE repo.index # Tip(repo.log)
        <5>1. repo' = [init |-> repo.init, origin |-> repo.origin, index |-> repo.index,
                       log |-> Append(repo.log, new)]
          BY <4>1, <4>2 DEF PublishInv, Shapes
        <5>2. repo'.log = Append(repo.log, new) /\ repo.log \in Seq(ToSet(repo.log) \cup {new})
          BY <5>1, SeqOfMore DEF PublishInv, Shapes, IsSeq
        <5>3. \A i \in DOMAIN repo'.log :
                repo'.log[i] = new \/ (i \in DOMAIN repo.log /\ repo'.log[i] = repo.log[i])
          BY <5>2
        <5>4. new.clone \in 0 .. losses
          OBVIOUS
        <5>5. QED  BY <5>3, <5>4
      <4>3. QED  BY <4>1, <4>2
    <3>3. CASE InitRepo \/ RemoveOrigin \/ AddOrigin \/ AddAll
      <4>1. repo'.log = repo.log
        BY <3>3 DEF InitRepo, RemoveOrigin, AddOrigin, AddAll, PublishInv, Shapes
      <4>2. QED  BY <4>1
    <3>4. CASE ~(Commit \/ InitRepo \/ RemoveOrigin \/ AddOrigin \/ AddAll)
      <4>1. UNCHANGED repo
        BY <1>5, <3>4 DEF publishGithub, CommandFails, BeginPublish, StagePair, stageAsset, StageMissing,
             StageBreaks, EnsureRepo, Push, PushRejected, EnablePages, publishVars
      <4>2. QED  BY <4>1
    <3>5. QED  BY <3>2, <3>3, <3>4
  <2>4. QED  BY <2>1, <2>2, <2>3
<1>6. QED  BY <1>1, <1>2, <1>3, <1>4, <1>5 DEF Next

LEMMA KindsInit == Init => SpinnerKinds /\ PublishKinds
<1>1. Init => SpinnerKinds
  <2> SUFFICES ASSUME Init PROVE SpinnerKinds
    OBVIOUS
  <2>1. (CHOOSE m \in Messages : TRUE) \in Messages
    BY ImportAssumption
  <2>2. /\ orphans = {} /\ stop = FALSE /\ done = TRUE /\ lastLen = 0 /\ screen = 0 /\ drawn = {}
        /\ message = CHOOSE m \in Messages : TRUE
        /\ imports = 0 /\ faults = 0
    BY DEF Init, ImportInit, SpinnerInit
  <2>3. message \in Messages
    BY <2>1, <2>2
  <2>4. stop \in BOOLEAN /\ done \in BOOLEAN
    BY <2>2
  <2>5. /\ lastLen \in Nat /\ screen \in Nat
        /\ imports \in 0 .. MaxImports /\ faults \in 0 .. MaxFaults
    BY <2>2, ImportAssumption
  <2>6. QED  BY <2>2, <2>3, <2>4, <2>5 DEF SpinnerKinds
<1>2. Init => PublishKinds
  BY PublishAssumption
  DEF Init, ImportInit, PublishInit, PublishKinds, EmptyTree, NoRepo, Generating
<1>3. QED  BY <1>1, <1>2

\* The state of imports, generates and publishes is well formed: what is downloaded and staged
\* are files that some page declares, whatever went on before.
THEOREM PublishTypeCorrect == Spec => []TypeOK
<1>1. Init => PublishInv /\ SiteInv /\ SourceInv /\ SpinnerKinds /\ PublishKinds
  BY InitOK, InitSite, SourceInit, KindsInit
<1>2. PublishInv /\ SiteInv /\ SourceInv /\ SpinnerKinds /\ PublishKinds /\ [Next]_vars
      => (PublishInv /\ SiteInv /\ SourceInv /\ SpinnerKinds /\ PublishKinds)'
  BY Step, SiteStep, SourceStep, SpinnerKindsStep, PublishKindsStep
<1>3. SourceInv /\ SpinnerKinds /\ PublishKinds => TypeOK
  BY DEF SourceInv, Kinds, SourceOK, SpinnerKinds, PublishKinds, TypeOK, ImportTypeOK
<1>4. QED  BY <1>1, <1>2, <1>3, PTL DEF Spec

-----------------------------------------------------------------------------
\* The line of the spinner.

\* What the goroutine believes to be on its line, as long as bytes tell which line is longer.
KnowsLine ==
  Alike(drawn) => \/ drawn = {} /\ screen = 0 /\ lastLen = 0
                  \/ \E m \in drawn : screen = Columns[m] /\ lastLen = Bytes[m]

Blank == Alike(drawn) => screen = 0

Fetching == pc \in {"fetch", "download", "copy"}

LineInv ==
  /\ ~done /\ orphans = {} => KnowsLine
  /\ Fetching => ~stop /\ ~done
  /\ stop /\ ~done => pc = "stopping"
  /\ stop /\ done /\ orphans = {} => Blank

\* A message drawn over one that is alike.
LEMMA DrawnOver ==
  ASSUME NEW l \in Messages, NEW m \in Messages, Bytes[l] - Columns[l] = Bytes[m] - Columns[m],
         screen = Columns[l], lastLen = Bytes[l]
  PROVE  renderLine(m) = Columns[m]
<1>1. Columns[m] \in Nat /\ Bytes[m] \in Nat /\ Columns[l] \in Nat /\ Bytes[l] \in Nat
  BY SpinnerAssumption
<1>2. CASE Bytes[l] > Bytes[m]
  <2>1. Columns[m] + (lastLen - Bytes[m]) = screen
    BY <1>1
  <2>2. QED  BY <1>1, <1>2, <2>1 DEF renderLine, Overwritten
<1>3. CASE ~(Bytes[l] > Bytes[m])
  <2>1. ~(screen > Columns[m])
    BY <1>1, <1>3
  <2>2. QED  BY <1>1, <1>3, <2>1 DEF renderLine, Overwritten
<1>4. QED  BY <1>2, <1>3

LEMMA KnownByTick ==
  ASSUME SpinnerKinds, KnowsLine, SpinnerTicks
  PROVE  KnowsLine'
<1> DEFINE m == message
<1>1. /\ screen' = renderLine(m) /\ lastLen' = Bytes[m] /\ drawn' = drawn \cup {m}
      /\ m \in Messages /\ drawn \subseteq Messages
  BY DEF SpinnerTicks, Tick, SpinnerKinds
<1> HIDE DEF m
<1> SUFFICES ASSUME Alike(drawn') PROVE renderLine(m) = Columns[m]
  BY <1>1 DEF KnowsLine
<1>2. Alike(drawn) /\ \A l \in drawn : Bytes[l] - Columns[l] = Bytes[m] - Columns[m]
  BY <1>1 DEF Alike
<1>3. CASE screen = 0 /\ lastLen = 0
  BY <1>1, <1>3, SpinnerAssumption DEF renderLine, Overwritten
<1>4. CASE \E l \in drawn : screen = Columns[l] /\ lastLen = Bytes[l]
  BY <1>1, <1>2, <1>4, DrawnOver
<1>5. QED  BY <1>2, <1>3, <1>4 DEF KnowsLine

LEMMA BlankByClear ==
  ASSUME SpinnerKinds, KnowsLine, SpinnerEnds
  PROVE  Blank'
<1>1. screen' = Overwritten(screen, lastLen, 0) /\ drawn' = drawn /\ drawn \subseteq Messages
  BY DEF SpinnerEnds, Finish, SpinnerKinds
<1> SUFFICES ASSUME Alike(drawn) PROVE screen' = 0
  BY <1>1 DEF Blank
<1>2. CASE screen = 0 /\ lastLen = 0
  BY <1>1, <1>2 DEF Overwritten
<1>3. CASE \E l \in drawn : screen = Columns[l] /\ lastLen = Bytes[l]
  BY <1>1, <1>3, SpinnerAssumption DEF Overwritten
<1>4. QED  BY <1>2, <1>3 DEF KnowsLine

\* A step that leaves the line alone keeps what holds of it.
LEMMA LineBeside ==
  ASSUME LineInv, UNCHANGED <<orphans, stop, done>>, UNCHANGED <<lastLen, screen, drawn>>,
         Fetching' => Fetching, pc = "stopping" => pc' = "stopping" \/ done
  PROVE  LineInv'
<1>1. (KnowsLine' <=> KnowsLine) /\ (Blank' <=> Blank)
  BY DEF KnowsLine, Blank
<1>2. QED  BY <1>1, Zenon DEF LineInv

LEMMA LineStep ==
  ASSUME SpinnerKinds, LineInv, [Next]_vars
  PROVE  LineInv'
<1>1. CASE UNCHANGED vars \/ LoseOut
  <2>1. UNCHANGED <<orphans, stop, done>> /\ UNCHANGED <<lastLen, screen, drawn>> /\ pc' = pc
    BY <1>1 DEF vars, LoseOut, importVars, spinnerVars
  <2>2. Fetching' => Fetching
    BY <2>1 DEF Fetching
  <2>3. QED  BY <2>1, <2>2, LineBeside
<1>2. CASE generate \/ publishGithub \/ CommandFails
  <2>1. UNCHANGED <<orphans, stop, done>> /\ UNCHANGED <<lastLen, screen, drawn>>
    BY <1>2, GenerateApart
    DEF publishGithub, CommandFails, PublishAt, BeginPublish, StagePair, stageAsset, StageMissing,
        StageBreaks, EnsureRepo, InitRepo, RemoveOrigin, AddOrigin, AddAll, Commit, Push,
        PushRejected, EnablePages, spinnerVars
  <2>2. /\ pc \in Publishing \cup Generating \cup {"idle"}
        /\ pc' \in Publishing \cup Generating \cup {"idle"}
    BY <1>2, GenerateApart
    DEF publishGithub, CommandFails, PublishAt, BeginPublish, StagePair, stageAsset, StageMissing,
        StageBreaks, EnsureRepo, InitRepo, RemoveOrigin, AddOrigin, AddAll, Commit, Push,
        PushRejected, EnablePages, Publishing, Generating
  <2>3. ~Fetching' /\ pc # "stopping"
    BY <2>2 DEF Fetching, Publishing, Generating
  <2>4. QED  BY <2>1, <2>3, LineBeside
<1>3. CASE Importing(Begin)
  <2>1. pc' = "fetch" /\ ~stop' /\ ~done'
    BY <1>3 DEF Importing, Begin, New
  <2>2. KnowsLine'
    BY <1>3 DEF Importing, Begin, New, KnowsLine
  <2>3. QED  BY <2>1, <2>2, Zenon DEF LineInv
<1>4. CASE Importing(Refuse) \/ Importing(Crash)
  <2>1. pc' = "idle" /\ ~stop' /\ done'
    BY <1>4 DEF Importing, Refuse, Crash, Exit
  <2>2. ~Fetching'
    BY <2>1 DEF Fetching
  <2>3. QED  BY <2>1, <2>2, Zenon DEF LineInv
<1>5. CASE Importing(FetchFails) \/ Importing(DownloadFails) \/ Importing(Downloaded)
  <2>1. Fetching /\ pc' = "stopping"
    BY <1>5 DEF Importing, FetchFails, DownloadFails, Downloaded, Stopping, Fetching
  <2>2. UNCHANGED <<orphans, done>> /\ UNCHANGED <<lastLen, screen, drawn>>
    BY <1>5 DEF Importing, FetchFails, DownloadFails, Downloaded, Stopping, CallStop
  <2>3. ~Fetching' /\ (KnowsLine' <=> KnowsLine)
    BY <2>1, <2>2 DEF Fetching, KnowsLine
  <2>4. ~done'
    BY <2>1, <2>2, Zenon DEF LineInv
  <2>5. QED  BY <2>1, <2>2, <2>3, <2>4, Zenon DEF LineInv
<1>6. CASE Importing(Fetched) \/ Importing(Create) \/ Importing(Copy)
  <2>1. Fetching /\ pc # "stopping"
    BY <1>6 DEF Importing, Fetched, Create, Copy, Fetching
  <2>2. UNCHANGED <<orphans, stop, done>> /\ UNCHANGED <<lastLen, screen, drawn>>
    BY <1>6 DEF Importing, Fetched, Create, Copy, Update, spinnerVars
  <2>3. QED  BY <2>1, <2>2, LineBeside
<1>7. CASE \/ Importing(StopReturns) \/ Importing(TruncateSource)
           \/ Importing(FillSource) \/ Importing(WriteFails)
  <2>1. pc' \in {"truncate", "fill", "idle"}
    BY <1>7 DEF Importing, StopReturns, TruncateSource, FillSource, WriteFails
  <2>2. UNCHANGED <<orphans, stop, done>> /\ UNCHANGED <<lastLen, screen, drawn>>
    BY <1>7 DEF Importing, StopReturns, TruncateSource, FillSource, WriteFails, spinnerVars
  <2>3. pc = "stopping" => done
    BY <1>7 DEF Importing, StopReturns, TruncateSource, FillSource, WriteFails
  <2>4. ~Fetching'
    BY <2>1 DEF Fetching
  <2>5. QED  BY <2>2, <2>3, <2>4, LineBeside
<1>8. CASE Importing(SpinnerTicks)
  <2>1. ~done /\ UNCHANGED <<orphans, stop, done>> /\ pc' = pc
    BY <1>8 DEF Importing, SpinnerTicks, Tick
  <2>3. orphans = {} => KnowsLine
    BY <2>1, Zenon DEF LineInv
  <2>4. orphans = {} => KnowsLine'
    BY <1>8, <2>3, KnownByTick DEF Importing
  <2>5. Fetching' <=> Fetching
    BY <2>1 DEF Fetching
  <2>6. QED  BY <2>1, <2>4, <2>5, Zenon DEF LineInv
<1>9. CASE Importing(SpinnerEnds)
  <2>1. stop /\ ~done /\ done' /\ UNCHANGED <<orphans, pc, stop>>
    BY <1>9 DEF Importing, SpinnerEnds, Finish
  <2>3. orphans = {} => KnowsLine
    BY <2>1, Zenon DEF LineInv
  <2>4. orphans = {} => Blank'
    BY <1>9, <2>3, BlankByClear DEF Importing
  <2>5. ~Fetching
    BY <2>1, Zenon DEF LineInv
  <2>6. ~Fetching'
    BY <2>1, <2>5 DEF Fetching
  <2>7. QED  BY <2>1, <2>4, <2>6, Zenon DEF LineInv
<1>10. CASE Importing(OrphanTicks)
  <2>1. orphans # {} /\ UNCHANGED <<orphans, pc, stop, done>>
    BY <1>10 DEF Importing, OrphanTicks
  <2>2. Fetching' <=> Fetching
    BY <2>1 DEF Fetching
  <2>3. QED  BY <2>1, <2>2, Zenon DEF LineInv
<1>11. QED
  BY <1>1, <1>2, <1>3, <1>4, <1>5, <1>6, <1>7, <1>8, <1>9, <1>10
  DEF Next, Importing, ImportNext, importBandcamp

\* When Stop has returned its goroutine draws no more and has left the line blank, in
\* whichever order ticks, updates and the stop were seen, if bytes told which of the lines it
\* drew was longer and no spinner of an earlier import was left running.
THEOREM LineIsCleared == Spec => []LineIsBlankAfterStop
<1>1. Init => SpinnerKinds /\ LineInv
  <2> SUFFICES ASSUME Init PROVE SpinnerKinds /\ LineInv
    OBVIOUS
  <2>1. pc = "idle" /\ ~stop /\ done
    BY DEF Init, ImportInit, SpinnerInit
  <2>2. ~Fetching
    BY <2>1 DEF Fetching
  <2>3. QED  BY <2>1, <2>2, KindsInit, Zenon DEF LineInv
<1>2. SpinnerKinds /\ LineInv /\ [Next]_vars => (SpinnerKinds /\ LineInv)'
  BY SpinnerKindsStep, LineStep
<1>3. LineInv => LineIsBlankAfterStop
  <2> SUFFICES ASSUME LineInv, stop, pc # "stopping", orphans = {} PROVE done /\ Blank
    BY DEF LineIsBlankAfterStop, Blank
  <2>1. QED  BY Zenon DEF LineInv
<1>4. QED  BY <1>1, <1>2, <1>3, PTL DEF Spec

=============================================================================
