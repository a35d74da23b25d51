------------------------------- MODULE Publish -------------------------------
(***************************************************************************)
(* endonend-artist-cli publish github (cli/cmd/publish_cmd.go and          *)
(* cli/internal/ghpublish), after imports: the manifest's site is staged   *)
(* in a directory, committed there, pushed to a repository on GitHub and   *)
(* served as its Pages.                                                    *)
(*                                                                         *)
(* What a git or gh command does is taken from git and GitHub.  A command  *)
(* that fails has done nothing; one that does its work and then reports a  *)
(* failure is the same to publishGithub as a failure of the next.          *)
(* Of generate only its inputs and its two writes are here; ArtistCLI has  *)
(* the rest.                                                               *)
(***************************************************************************)
EXTENDS Import

CONSTANT
  MaxRevs  \* bound: generates that change the manifest

ASSUME PublishAssumption == MaxRevs \in Nat

VARIABLES
  manifestFile,  \* manifest.json: [log, catalog], the log that it binds and what it lists
  historyFile,   \* history.json: the number of the log that it holds
  logs,          \* the logs that generate has made so far
  out,           \* the staging directory: [manifest, history, files]
  repo,          \* its git repository: [init, origin, index, log]
  remote,        \* the one on GitHub: [exists, pages, log]
  losses         \* staging directories lost so far

pair == <<manifestFile, historyFile>>
publishVars == <<pair, logs, out, repo, remote, losses>>
vars == <<importVars, publishVars>>

EmptyTree == [manifest |-> NoFile, history |-> NoFile, files |-> [f \in Files |-> NoFile]]
NoRepo == [init |-> FALSE, origin |-> FALSE, index |-> EmptyTree, log |-> <<>>]

PublishInit ==
  /\ manifestFile = NoFile /\ historyFile = NoFile /\ logs = 0
  /\ out = EmptyTree
  /\ repo = NoRepo
  /\ remote = [exists |-> FALSE, pages |-> FALSE, log |-> <<>>]
  /\ losses = 0

Init == ImportInit /\ PublishInit

-----------------------------------------------------------------------------
\* generate, up to its writes: it ends with an error when the manifest that is there cannot
\* be read, or its log cannot; the log gets new entries when the catalog has changed.
BeginGenerate ==
  /\ pc = "idle" /\ logs < MaxRevs
  /\ Readable(sourceFile) /\ sourceFile.hasURL
  /\ manifestFile # NoFile => Readable(manifestFile) /\ Readable(historyFile)
  /\ LET same == manifestFile # NoFile /\ manifestFile.catalog = sourceFile.catalog
         log  == IF same THEN historyFile ELSE logs + 1
     IN /\ logs' = IF same THEN logs ELSE logs + 1
        /\ work' = [Idle EXCEPT !.before = sourceFile,
                                !.source = [log |-> log, catalog |-> sourceFile.catalog]]
        /\ work'.source # manifestFile \* the same files again otherwise
  /\ pc' = "truncate-manifest" /\ exit' = "running"
  /\ UNCHANGED <<files, orphans, ghosts, spinnerVars, pair, out, repo, remote, losses>>

\* One of the two writes, first of nothing, then of the contents.
Writing(here, there) ==
  /\ pc = here /\ pc' = there
  /\ exit' = IF there = "idle" THEN "generated" ELSE exit
  /\ UNCHANGED <<files, work, orphans, ghosts, spinnerVars, logs, out, repo, remote, losses>>

TruncateManifest ==
  /\ Writing("truncate-manifest", "fill-manifest")
  /\ manifestFile' = Torn
  /\ UNCHANGED historyFile

FillManifest ==
  /\ Writing("fill-manifest", "truncate-history")
  /\ manifestFile' = work.source
  /\ UNCHANGED historyFile

TruncateHistory ==
  /\ Writing("truncate-history", "fill-history")
  /\ historyFile' = Torn
  /\ UNCHANGED manifestFile

FillHistory ==
  /\ Writing("fill-history", "idle")
  /\ historyFile' = work.source.log
  /\ UNCHANGED manifestFile

generate ==
  BeginGenerate \/ TruncateManifest \/ FillManifest \/ TruncateHistory \/ FillHistory

-----------------------------------------------------------------------------
AssetsOf(m) == UNION {Declared(m.catalog[a]) : a \in DOMAIN m.catalog}

\* A step of publish: of import's state it uses only pc, work and exit.
PublishAt(here, there) ==
  /\ pc = here /\ pc' = there
  /\ UNCHANGED <<files, orphans, ghosts, spinnerVars, pair, logs, losses>>

\* Mutant: the staging directory is emptied first, so that nothing stale is left in it.
BeginPublishClean ==
  /\ Readable(manifestFile)
  /\ PublishAt("idle", "pair")
  /\ work' = [Idle EXCEPT !.before = sourceFile, !.source = manifestFile,
                         !.todo = SetToSeq(AssetsOf(manifestFile))]
  /\ exit' = "running"
  /\ out' = EmptyTree
  /\ repo' = NoRepo
  /\ UNCHANGED remote

\* publishGithub reads and parses the manifest.
BeginPublish ==
  /\ Readable(manifestFile)
  /\ PublishAt("idle", "pair")
  /\ work' = [Idle EXCEPT !.before = sourceFile, !.source = manifestFile,
                         !.todo = SetToSeq(AssetsOf(manifestFile))]
  /\ exit' = "running"
  /\ UNCHANGED <<out, repo, remote>>

\* Stage copies the pair, as it is, before the files.
StagePair ==
  /\ historyFile # NoFile
  /\ PublishAt("pair", "stage")
  /\ out' = [out EXCEPT !.manifest = manifestFile, !.history = historyFile]
  /\ UNCHANGED <<work, exit, repo, remote>>

stageAsset ==
  /\ work.todo # <<>> /\ assets[Head(work.todo)] # NoFile
  /\ PublishAt("stage", "stage")
  /\ out' = [out EXCEPT !.files[Head(work.todo)] = assets[Head(work.todo)]]
  /\ work' = [work EXCEPT !.todo = Tail(@)]
  /\ UNCHANGED <<exit, repo, remote>>

\* A copy breaks off, or the tool is killed in it.
StageBreaks ==
  /\ \/ /\ pc = "pair"
        /\ \/ out' = [out EXCEPT !.manifest = Torn]
           \/ out' = [out EXCEPT !.manifest = manifestFile]
           \/ out' = [out EXCEPT !.manifest = manifestFile, !.history = Torn]
     \/ /\ pc = "stage" /\ work.todo # <<>> /\ assets[Head(work.todo)] # NoFile
        /\ out' = [out EXCEPT !.files[Head(work.todo)] = Torn]
  /\ faults < MaxFaults
  /\ faults' = faults + 1
  /\ pc' = "idle" /\ exit' = "failed"
  /\ UNCHANGED <<files, work, orphans, settled, imports, spinnerVars,
                 pair, logs, repo, remote, losses>>

\* Mutant: an asset that is not there is skipped.
StageSkips ==
  /\ work.todo # <<>> /\ assets[Head(work.todo)] = NoFile
  /\ PublishAt("stage", "stage")
  /\ work' = [work EXCEPT !.todo = Tail(@)]
  /\ UNCHANGED <<exit, out, repo, remote>>

\* The log, or an asset that the manifest declares, is not there: publish ends before the
\* first command.
StageMissing ==
  /\ \/ /\ historyFile = NoFile
        /\ PublishAt("pair", "idle")
        /\ out' = [out EXCEPT !.manifest = manifestFile]
     \/ /\ work.todo # <<>> /\ assets[Head(work.todo)] = NoFile
        /\ PublishAt("stage", "idle")
        /\ UNCHANGED out
  /\ exit' = "failed"
  /\ UNCHANGED <<work, repo, remote>>

EnsureRepo ==
  /\ work.todo = <<>>
  /\ PublishAt("stage", "init")
  /\ remote' = [remote EXCEPT !.exists = TRUE]
  /\ UNCHANGED <<work, exit, out, repo>>

\* git rev-parse, and git init unless the directory is in a work tree.
InitRepo ==
  /\ PublishAt("init", "origin")
  /\ repo' = [repo EXCEPT !.init = TRUE]
  /\ UNCHANGED <<work, exit, out, remote>>

\* git remote remove, whose error is ignored, and git remote add, each of its own.
RemoveOrigin ==
  /\ PublishAt("origin", "add-origin")
  /\ repo' = [repo EXCEPT !.origin = FALSE]
  /\ UNCHANGED <<work, exit, out, remote>>

AddOrigin ==
  /\ PublishAt("add-origin", "add")
  /\ repo' = [repo EXCEPT !.origin = TRUE]
  /\ UNCHANGED <<work, exit, out, remote>>

\* git add -A; the directory is the root of its work tree.
AddAll ==
  /\ PublishAt("add", "commit")
  /\ repo' = [repo EXCEPT !.index = out]
  /\ UNCHANGED <<work, exit, out, remote>>

\* The tree of the last commit of a log; git's commits of equal trees differ.
Tip(log) == IF log = <<>> THEN EmptyTree ELSE Last(log).tree

\* Mutant: a publish with nothing to commit is done.
CommitOrDone ==
  /\ PublishAt("commit", IF repo.index = Tip(repo.log) THEN "pages" ELSE "push")
  /\ repo' = IF repo.index = Tip(repo.log) THEN repo
             ELSE [repo EXCEPT !.log = Append(@, [tree |-> repo.index, clone |-> losses])]
  /\ UNCHANGED <<work, exit, out, remote>>

\* git commit, unless git status has nothing to tell.
Commit ==
  /\ PublishAt("commit", "push")
  /\ repo' = IF repo.index = Tip(repo.log) THEN repo
             ELSE [repo EXCEPT !.log = Append(@, [tree |-> repo.index, clone |-> losses])]
  /\ UNCHANGED <<work, exit, out, remote>>

\* git push, which takes only what extends the branch.
Accepted == remote.exists /\ repo.origin /\ IsPrefix(remote.log, repo.log)

Push ==
  /\ Accepted
  /\ PublishAt("push", "pages")
  /\ remote' = [remote EXCEPT !.log = repo.log]
  /\ UNCHANGED <<work, exit, out, repo>>

PushRejected ==
  /\ ~Accepted
  /\ PublishAt("push", "idle")
  /\ exit' = "failed"
  /\ UNCHANGED <<work, out, repo, remote>>

EnablePages ==
  /\ PublishAt("pages", "idle")
  /\ remote' = [remote EXCEPT !.pages = TRUE]
  /\ exit' = "published"
  /\ UNCHANGED <<work, out, repo>>

\* A command or a write of generate fails, or the tool is killed before it.
CommandFails ==
  /\ pc \in {"truncate-manifest", "fill-manifest", "truncate-history", "fill-history",
             "stage", "init", "origin", "add-origin", "add", "commit", "push", "pages"}
  /\ faults < MaxFaults
  /\ pc' = "idle" /\ exit' = "failed"
  /\ faults' = faults + 1
  /\ UNCHANGED <<files, work, orphans, settled, imports, spinnerVars, publishVars>>

\* The artist goes on from another machine, or has cleaned up.
LoseOut ==
  /\ pc = "idle" /\ losses = 0 /\ repo.log # <<>>
  /\ out' = EmptyTree /\ repo' = NoRepo
  /\ losses' = losses + 1
  /\ UNCHANGED <<importVars, pair, logs, remote>>

publishGithub ==
  \/ BeginPublish \/ StagePair \/ stageAsset \/ StageMissing \/ StageBreaks \/ EnsureRepo \/ InitRepo
  \/ RemoveOrigin \/ AddOrigin \/ AddAll \/ Commit \/ Push \/ PushRejected \/ EnablePages

Importing(A) == A /\ UNCHANGED publishVars

Next == Importing(ImportNext) \/ generate \/ publishGithub \/ CommandFails \/ LoseOut

\* Both goroutines of a Stop are scheduled.  The rest is under no fairness: a download
\* has no timeout, and the artist may stop.
Spec ==
  /\ Init /\ [][Next]_vars
  /\ WF_vars(Importing(StopReturns))
  /\ WF_vars(Importing(SpinnerEnds))

-----------------------------------------------------------------------------
\* Properties.

TypeOK ==
  /\ ImportTypeOK
  /\ historyFile \in {NoFile, Torn} \cup 1 .. logs /\ logs \in 0 .. MaxRevs
  /\ out.files \in [Files -> AllPages \cup {NoFile, Torn}]
  /\ \A i \in DOMAIN repo.log : repo.log[i].clone \in 0 .. losses
  /\ losses \in 0 .. 1

\* What the tree of a commit should be: the pair as it is here, and all the files that the
\* manifest declares as they are here.
IsLocalSite(tree) ==
  /\ tree.manifest = manifestFile /\ tree.history = historyFile
  /\ \A f \in AssetsOf(manifestFile) : assets[f] # NoFile /\ tree.files[f] = assets[f]

\* What is pushed, and then served, is the site as it is here when publish runs, every
\* declared file included, whatever half-made copies, old files and commits the publishes
\* before have left in the staging directory.  (stage.go:22-38, publish.go:25-30)
PushedIsLocalSite ==
  /\ pc = "push" => IsLocalSite(Tip(repo.log))
  /\ pc = "pages" => IsLocalSite(Tip(remote.log))

\* As long as the staging directory is there every push is a fast-forward: whichever
\* command an earlier publish failed at, it has left nothing that GitHub refuses.
\* (publish.go:25-30)
RerunFastForwards == pc = "push" /\ losses = 0 => Accepted

\* A publish that reports success has published the manifest it read, whatever failed
\* in the publishes before it.  (KB/0004-endonend-artist-cli.md:52)
SuccessIsServed ==
  exit = "published" =>
    /\ remote.pages
    /\ Tip(remote.log).manifest = work.source
=============================================================================
