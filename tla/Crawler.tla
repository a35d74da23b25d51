------------------------------- MODULE Crawler -------------------------------
(***************************************************************************)
(* The catalog server's crawler (api/internal/crawler), the writes it does *)
(* to the index (api/internal/store), and the submissions of the admin     *)
(* console that run the same code concurrently (api/internal/graphqlapi).  *)
(*                                                                         *)
(* The web is reduced to what the crawler can tell apart.  Host h serves a *)
(* manifest and a history log as two files.  Each has an owner, the        *)
(* lineage of keys that its rotations authorise, and a revision.  A        *)
(* manifest binds the log of its own revision through history.headHash,    *)
(* except at revision 0, the manifest of a label that has recorded nothing *)
(* yet, whose headHash is empty.  Time is the age of each row since its    *)
(* last successful fetch, counted up to its TTL.                           *)
(***************************************************************************)
EXTENDS Integers, Sequences, FiniteSets, SequencesExt

CONSTANTS
  Urls,      \* values of identity.url
  Trim,      \* Trim[u]: the URL u without trailing slashes
  Merging,   \* the hosts that take two slashes in a path for one, or redirect so
  Owners,    \* lineages of keys
  FirstOwner,  \* FirstOwner[h]: whose lineage h starts with
  Troubles,  \* what may be wrong with a host in a run
  Flaws,     \* what may be wrong with a manifest in a run
  Claims,    \* Claims[h]: the values of identity.url that manifests at h carry
  TTL,       \* TTL[h]: the refresh.ttlSeconds that h declares, in clock steps
  Admins,    \* concurrent submissions of the admin console
  MaxRev,    \* bound: revisions of a manifest
  Takeovers, \* may a host pass to an owner with other keys?
  SeedRows,  \* may the server start with rows that earlier runs have left?
  Restarts,  \* may the server be restarted?
  DBErrors,  \* may a statement of the database fail?
  None

Hosts == {Trim[u] : u \in Urls}

\* The fetch target: the polled URL with the fixed suffix.
ManifestURL(u) == u \o "/.well-known/endonend/manifest.json"

\* The manifest cannot be fetched or parsed; the log cannot be fetched or parsed.
TroubleKinds == {"noManifest", "noLog"}

\* The manifest fails a check of the validator that concerns it alone; it lists
\* an artist twice in its roster, which the validator lets pass and the UNIQUE
\* constraint of label_rosters does not.
FlawKinds == {"invalid", "duplicate"}

ASSUME CrawlerAssumption ==
  /\ Hosts \subseteq Urls
  /\ Trim \in [Urls -> Hosts]
  /\ IsFiniteSet(Urls)
  /\ \A u, w \in Urls : ManifestURL(u) \notin Urls /\ (ManifestURL(u) = ManifestURL(w) => u = w)
  /\ \A h \in Hosts : Trim[h] = h
  /\ Merging \subseteq Hosts
  /\ FirstOwner \in [Hosts -> Owners]
  /\ Claims \in [Hosts -> SUBSET Urls]
  /\ TTL \in [Hosts -> Nat \ {0}]
  /\ Troubles \subseteq TroubleKinds
  /\ Flaws \subseteq FlawKinds
  /\ MaxRev \in Nat \ {0}
  /\ {Takeovers, SeedRows, Restarts, DBErrors} \subseteq BOOLEAN
  /\ "poller" \notin Admins
  /\ None \notin Urls

VARIABLES
  site,    \* site[h]: what host h serves
  rows,    \* rows[u]: the row of u in identities and what hangs from it
  queue,   \* the due identities that the current PollDue has not polled yet
  pc,      \* pc[t]: the next step of thread t in PollOne
  job,     \* job[t]: the URL that t polls, and what it has fetched
  verdict  \* verdict[u]: for the properties, the last verdict that a poll of u came to

vars == <<site, rows, queue, pc, job, verdict>>

Threads == {"poller"} \cup Admins

Manifests == [claim : Urls, owner : Owners, rev : 0 .. MaxRev, flaw : Flaws \cup {"none"}]
Logs      == [owner : Owners, rev : 0 .. MaxRev]
Sites     == [manifest : Manifests, log : Logs, trouble : Troubles \cup {"none"}]
Rows      == [owner : Owners, rev : 0 .. MaxRev, log : Logs, ttl : Nat, age : Nat,
              error : Urls \cup {None}]  \* last_error: which poll failed, if any
NoJob     == [url |-> None, manifest |-> None, log |-> None]

-----------------------------------------------------------------------------
\* What the index holds for the manifest m and the log l, just fetched.
RowOf(m, l) == [owner |-> m.owner, rev |-> m.rev, log |-> l,
                ttl |-> TTL[Trim[m.claim]], age |-> 0, error |-> None]

FirstSite(h) ==
  {s \in Sites : /\ s.trouble = "none"
                 /\ s.manifest.flaw = "none" /\ s.manifest.claim = h /\ s.manifest.owner = FirstOwner[h]
                 /\ s.manifest.rev \in {0, 1}
                 /\ s.log = [owner |-> s.manifest.owner, rev |-> s.manifest.rev]}

Init ==
  /\ site \in [Hosts -> Sites] /\ \A h \in Hosts : site[h] \in FirstSite(h)
  /\ \E known \in IF SeedRows THEN SUBSET Hosts ELSE {{}} :
       rows = [u \in Urls |-> IF u \in known THEN RowOf(site[u].manifest, site[u].log) ELSE None]
  /\ queue = <<>>
  /\ pc = [t \in Threads |-> "idle"]
  /\ job = [t \in Threads |-> NoJob]
  /\ verdict = [u \in Urls |-> "none"]

-----------------------------------------------------------------------------
\* The hosts.  An artist uploads two files; which one arrives first is open.

UploadManifest(h) ==
  LET m == site[h].manifest IN
  /\ m.rev < MaxRev
  /\ m.rev <= site[h].log.rev
  /\ m.owner = site[h].log.owner
  /\ \E c \in Claims[h], f \in Flaws \cup {"none"} :
       site' = [site EXCEPT ![h].manifest = [m EXCEPT !.rev = m.rev + 1, !.claim = c, !.flaw = f]]

UploadLog(h) ==
  LET l == site[h].log IN
  /\ l.rev < MaxRev
  /\ l.rev <= site[h].manifest.rev
  /\ l.owner = site[h].manifest.owner
  /\ site' = [site EXCEPT ![h].log.rev = l.rev + 1]

ChangeTrouble(h) ==
  \E w \in (Troubles \cup {"none"}) \ {site[h].trouble} :
    site' = [site EXCEPT ![h].trouble = w]

\* The host passes to an owner who starts a log of its own.
TakeOver(h) ==
  /\ Takeovers
  /\ \E o \in Owners \ {site[h].manifest.owner} :
       site' = [site EXCEPT ![h] =
                  [manifest |-> [claim |-> h, owner |-> o, rev |-> 1, flaw |-> "none"],
                   log |-> [owner |-> o, rev |-> 1],
                   trouble |-> @.trouble]]

Web ==
  /\ \E h \in Hosts : UploadManifest(h) \/ UploadLog(h) \/ ChangeTrouble(h) \/ TakeOver(h)
  /\ UNCHANGED <<rows, queue, pc, job, verdict>>

\* A clock step: the rows grow older.
Tick ==
  /\ rows' = [u \in Urls |->
                IF rows[u] = None \/ rows[u].age = rows[u].ttl THEN rows[u]
                ELSE [rows[u] EXCEPT !.age = @ + 1]]
  /\ rows' # rows
  /\ UNCHANGED <<site, queue, pc, job, verdict>>

-----------------------------------------------------------------------------
\* The store.

Indexed(u) == rows[u] # None

\* Mutant: an identity whose last poll has failed is not polled again.
DueUnlessFailed(u) == Indexed(u) /\ rows[u].age = rows[u].ttl /\ rows[u].error = None

Due(u) == Indexed(u) /\ rows[u].age = rows[u].ttl

\* DueIdentities: the URLs due now.  The order by fetched_at is left open.
DueIdentities == {u \in Urls : Due(u)}

\* One transaction per manifest: the row is replaced as a whole, last_error cleared.
UpsertManifest(m, l) ==
  rows' = [rows EXCEPT ![m.claim] = RowOf(m, l)]

\* Mutant: an upsert, which makes a row of nothing but the error.
RecordFetchErrorUpsert(key, polled) ==
  IF key \in Urls
  THEN rows' = [rows EXCEPT ![key] = IF @ = None THEN [error |-> polled]
                                     ELSE [@ EXCEPT !.error = polled]]
  ELSE UNCHANGED rows

\* UPDATE ... WHERE url = key: of no effect when no row has that key.  PollOne
\* drops the error it may return.
RecordFetchError(key, polled) ==
  \/ key \in Urls /\ Indexed(key) /\ rows' = [rows EXCEPT ![key].error = polled]
  \/ (DBErrors \/ ~(key \in Urls /\ Indexed(key))) /\ UNCHANGED rows

-----------------------------------------------------------------------------
\* PollOne, in the thread t.

Start(t, u) ==
  /\ pc[t] = "idle"
  /\ pc' = [pc EXCEPT ![t] = "manifest"]
  /\ job' = [job EXCEPT ![t] = [NoJob EXCEPT !.url = u]]

\* How a poll ends: the row is written; the validator rejects the manifest; there is no
\* verdict that reaches the row, as no manifest is to be had or the database refuses it.
Ends == {"ok", "invalid", "none"}

\* The poll of t has ended so.
Finish(t, end) ==
  /\ pc' = [pc EXCEPT ![t] = "idle"]
  /\ job' = [job EXCEPT ![t] = NoJob]
  /\ verdict' = IF end = "none" THEN verdict ELSE [verdict EXCEPT ![job[t].url] = end]

\* The path of the fetch target leads to the host's file.  A URL with a trailing slash
\* makes it one with two slashes before the suffix.
Reaches(u) == u \in Hosts \/ Trim[u] \in Merging

ServesManifest(u) == Reaches(u) /\ site[Trim[u]].trouble # "noManifest"

\* The first GET of ValidateURL.
FetchManifest(t) ==
  LET u == job[t].url IN
  /\ pc[t] = "manifest"
  /\ ServesManifest(u)
  /\ job' = [job EXCEPT ![t].manifest = site[Trim[u]].manifest]
  /\ pc' = [pc EXCEPT ![t] = "log"]
  /\ UNCHANGED <<site, rows, queue, verdict>>

\* It fails, or what comes back does not parse: the error is recorded under the
\* fetch target.
FetchManifestFails(t) ==
  LET u == job[t].url IN
  /\ pc[t] = "manifest"
  /\ ~ServesManifest(u)
  /\ RecordFetchError(ManifestURL(u), u)
  /\ Finish(t, "none")
  /\ UNCHANGED <<site, queue>>

\* Mutant: the location is not checked.
ValidAnywhere(u, m, l) ==
  /\ m.flaw # "invalid"
  /\ l.owner = m.owner
  /\ m.rev # 0 => l.rev = m.rev

\* Mutant: headHash is not compared with the log.
ValidUnbound(u, m, l) ==
  /\ m.flaw # "invalid"
  /\ ManifestURL(Trim[m.claim]) = ManifestURL(u)
  /\ l.owner = m.owner

\* checkFetchLocation and checkHistory: the manifest m, fetched from ManifestURL(u)
\* next to the log l, has no failure.
Valid(u, m, l) ==
  /\ m.flaw # "invalid"
  /\ ManifestURL(Trim[m.claim]) = ManifestURL(u)
  /\ l.owner = m.owner
  /\ m.rev # 0 => l.rev = m.rev

\* The second GET of ValidateURL, and the verdict.
FetchLog(t) ==
  LET u == job[t].url
      m == job[t].manifest
      l == site[Trim[u]].log
  IN
  /\ pc[t] = "log"
  /\ job' = [job EXCEPT ![t].log = l]
  /\ pc' = [pc EXCEPT ![t] =
              IF site[Trim[u]].trouble # "noLog" /\ Valid(u, m, l)
                THEN "index" ELSE "reject"]
  /\ UNCHANGED <<site, rows, queue, verdict>>

\* Mutant: the error goes to the fetch target.
RejectUnderTarget(t) ==
  /\ pc[t] = "reject"
  /\ RecordFetchError(ManifestURL(job[t].url), job[t].url)
  /\ Finish(t, "invalid")
  /\ UNCHANGED <<site, queue>>

\* A manifest that fails validation: the error goes to the row it claims.
Reject(t) ==
  /\ pc[t] = "reject"
  /\ RecordFetchError(job[t].manifest.claim, job[t].url)
  /\ Finish(t, "invalid")
  /\ UNCHANGED <<site, queue>>

Index(t) ==
  /\ pc[t] = "index"
  /\ job[t].manifest.flaw # "duplicate"
  /\ UpsertManifest(job[t].manifest, job[t].log)
  /\ Finish(t, "ok")
  /\ UNCHANGED <<site, queue>>

\* The transaction fails and is rolled back; PollOne returns the error.
IndexFails(t) ==
  /\ pc[t] = "index"
  /\ job[t].manifest.flaw = "duplicate" \/ DBErrors
  /\ Finish(t, "none")
  /\ UNCHANGED <<site, rows, queue>>

PollOne(t) ==
  \/ FetchManifest(t) \/ FetchManifestFails(t)
  \/ FetchLog(t) \/ Reject(t)
  \/ Index(t) \/ IndexFails(t)

-----------------------------------------------------------------------------
\* RunLoop and PollDue: the ticker fires when the last round is over, and the
\* due identities read then are polled one after the other.

PollDue ==
  /\ pc["poller"] = "idle" /\ queue = <<>>
  /\ DueIdentities # {}
  /\ queue' \in SetToSeqs(DueIdentities)
  /\ UNCHANGED <<site, rows, pc, job, verdict>>

PollNext ==
  /\ queue # <<>>
  /\ Start("poller", Head(queue))
  /\ queue' = Tail(queue)
  /\ UNCHANGED <<site, rows, verdict>>

\* submitManifestUrl: an admin has any URL polled, indexed or not.
Submit(t, u) ==
  /\ Start(t, u)
  /\ UNCHANGED <<site, rows, queue, verdict>>

\* The server is stopped and started: what its threads held is gone.
Restart ==
  /\ Restarts
  /\ queue' = <<>>
  /\ pc' = [t \in Threads |-> "idle"]
  /\ job' = [t \in Threads |-> NoJob]
  /\ UNCHANGED <<site, rows, verdict>>

Poller == PollDue \/ PollNext \/ PollOne("poller")

Admin(t) == PollOne(t) \/ \E u \in Urls : Submit(t, u)

Next == Web \/ Tick \/ Restart \/ Poller \/ \E t \in Admins : Admin(t)

Spec == Init /\ [][Next]_vars

\* The ticker of RunLoop keeps firing, every GET ends within the client's
\* timeout and every statement returns; time passes.
FairSpec == Spec /\ WF_vars(Poller) /\ WF_vars(Tick)

-----------------------------------------------------------------------------
\* Properties.

\* Every variable holds a value of its type (crawler.go, poller.go, store.go).
TypeOK ==
  /\ site \in [Hosts -> Sites]
  /\ rows \in [Urls -> Rows \cup {None}]
  /\ queue \in Seq(Urls)
  /\ pc \in [Threads -> {"idle", "manifest", "log", "reject", "index"}]
  /\ job \in [Threads -> [url : Urls \cup {None}, manifest : Manifests \cup {None},
                          log : Logs \cup {None}]]
  /\ verdict \in [Urls -> Ends]

\* A manifest that binds its log is never indexed beside a log of another
\* revision, although the two are fetched one after the other while the artist
\* uploads both (ValidateURL, checkHistory).
HeadedPairMatches ==
  \A u \in Urls : Indexed(u) /\ rows[u].rev # 0 =>
    rows[u].log = [owner |-> rows[u].owner, rev |-> rows[u].rev]

\* What is indexed under a URL was served by the host of that URL and by no
\* other, whatever the manifests of other hosts claim (checkFetchLocation).
RowFromOwnHost ==
  \A u \in Urls : Indexed(u) /\ ~Takeovers =>
    /\ rows[u].owner = site[Trim[u]].manifest.owner
    /\ rows[u].rev <= site[Trim[u]].manifest.rev

\* The index never goes back to an older revision of an identity ("A crawl
\* always reflects the manifest's current, complete state", store.go:42).
NeverRegresses ==
  [][\A u \in Urls : Indexed(u) /\ rows'[u].owner = rows[u].owner =>
       rows'[u].rev >= rows[u].rev]_vars

\* The hosts that claim no URL but their own, that no other host claims, and whose
\* manifest is to be had under no other URL.
Undisputed ==
  {u \in Hosts :
     /\ Claims[u] \subseteq {u}
     /\ \A h \in Hosts \ {u} : u \notin Claims[h]
     /\ \A w \in Urls : Reaches(w) /\ Trim[w] = u => w = u}

\* The row of an identity that nobody disputes tells the last verdict on it.  A rejection
\* is shown and stays, through polls that find no manifest, writes that the database
\* refuses, other submissions and restarts, until a manifest is accepted and written;
\* after that no error is shown until the next rejection.  (crawler.go:35-55,
\* store.go:72-95)
RowTellsVerdict ==
  \A u \in Undisputed : Indexed(u) =>
    /\ verdict[u] = "invalid" => rows[u].error = u
    /\ verdict[u] = "ok" => rows[u].error = None

\* The host of u serves a pair that the validator accepts and the store takes.
Healthy(u) ==
  /\ u \in Hosts
  /\ site[u].trouble = "none"
  /\ site[u].manifest.claim = u /\ site[u].manifest.flaw = "none"
  /\ site[u].log = [owner |-> site[u].manifest.owner, rev |-> site[u].manifest.rev]

\* What is indexed of an identity whose host stays healthy is brought up to what the host
\* serves and stays so, even if all other identities fail for ever ("A failure on one
\* identity ... does not stop the rest from being polled", poller.go:8-10), and also when
\* another host claims its URL.  That host can still put its own errors on the row.
HealthyIsMirrored ==
  \A u \in Urls :
    <>[]Healthy(u) => <>[](Indexed(u) => /\ rows[u].rev = site[u].manifest.rev
                                        /\ rows[u].log = site[u].log)
=============================================================================
