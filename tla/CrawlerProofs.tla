---------------------------- MODULE CrawlerProofs ----------------------------
(***************************************************************************)
(* Theorems about Crawler, for any hosts, owners, claims, troubles and     *)
(* flaws, any number of concurrent submissions and any restarts.           *)
(***************************************************************************)
EXTENDS Crawler, FiniteSetTheorems, TLAPS

-----------------------------------------------------------------------------
\* What a thread holds between its two fetches and the write.
JobOK(t) ==
  /\ pc[t] # "idle" => job[t].url \in Urls
  /\ pc[t] \in {"log", "reject", "index"} => Reaches(job[t].url) /\ job[t].manifest \in Manifests
  /\ pc[t] \in {"reject", "index"} => job[t].log \in Logs

TypeInv == TypeOK /\ \A t \in Threads : JobOK(t)

\* Only what the validator has accepted waits to be written.
Accepted(t) == pc[t] = "index" => Valid(job[t].url, job[t].manifest, job[t].log)

PairInv == HeadedPairMatches /\ \A t \in Threads : Accepted(t)

\* What a thread has fetched is no newer than what its host serves now.
Fetched(t) ==
  pc[t] \in {"log", "reject", "index"} =>
    /\ job[t].manifest.owner = site[Trim[job[t].url]].manifest.owner
    /\ job[t].manifest.rev <= site[Trim[job[t].url]].manifest.rev

OwnInv == RowFromOwnHost /\ (~Takeovers => \A t \in Threads : Fetched(t))

-----------------------------------------------------------------------------
\* The values that steps produce.

LEMMA RowType ==
  ASSUME NEW m \in Manifests, NEW l \in Logs
  PROVE  RowOf(m, l) \in Rows
<1>1. m.claim \in Urls /\ m.owner \in Owners /\ m.rev \in 0 .. MaxRev
  BY DEF Manifests
<1>2. Trim[m.claim] \in Hosts
  BY <1>1, CrawlerAssumption
<1>3. TTL[Trim[m.claim]] \in Nat
  BY <1>2, CrawlerAssumption
<1>4. QED  BY <1>1, <1>3 DEF RowOf, Rows

LEMMA QueueType ==
  ASSUME NEW q \in SetToSeqs(DueIdentities)
  PROVE  q \in Seq(Urls)
<1>1. DueIdentities \subseteq Urls
  BY DEF DueIdentities
<1>2. Cardinality(DueIdentities) \in Nat
  BY <1>1, CrawlerAssumption, FS_Subset, FS_CardinalityType
<1>3. q \in [1 .. Cardinality(DueIdentities) -> Urls]
  BY <1>1 DEF SetToSeqs
<1>4. QED  BY <1>2, <1>3

\* An error recorded on a row leaves everything else in it.
LEMMA ErrorKeepsRow ==
  ASSUME TypeOK, NEW key, NEW polled \in Urls, RecordFetchError(key, polled)
  PROVE  /\ rows' \in [Urls -> Rows \cup {None}]
         /\ \A u \in Urls : rows'[u] # None => /\ rows[u] # None
                                              /\ rows'[u].owner = rows[u].owner
                                              /\ rows'[u].rev = rows[u].rev
                                              /\ rows'[u].log = rows[u].log
<1>1. CASE UNCHANGED rows
  BY <1>1 DEF TypeOK
<1>2. CASE key \in Urls /\ Indexed(key) /\ rows' = [rows EXCEPT ![key].error = polled]
  <2>1. rows[key] \in Rows
    BY <1>2 DEF TypeOK, Indexed
  <2>2. [rows[key] EXCEPT !.error = polled] \in Rows
    BY <2>1 DEF Rows
  <2>3. QED  BY <1>2, <2>1, <2>2 DEF TypeOK, Rows, Indexed
<1>3. QED  BY <1>1, <1>2 DEF RecordFetchError

\* The end of a poll.
LEMMA FinishType ==
  ASSUME TypeOK, NEW t \in Threads, NEW o \in Ends, Finish(t, o)
  PROVE  /\ pc' \in [Threads -> {"idle", "manifest", "log", "reject", "index"}]
         /\ job' \in [Threads -> [url : Urls \cup {None}, manifest : Manifests \cup {None},
                                  log : Logs \cup {None}]]
         /\ verdict' \in [Urls -> Ends]
         /\ pc'[t] = "idle"
         /\ \A s \in Threads \ {t} : pc'[s] = pc[s] /\ job'[s] = job[s]
<1>1. NoJob \in [url : Urls \cup {None}, manifest : Manifests \cup {None}, log : Logs \cup {None}]
  BY DEF NoJob
<1>2. QED  BY <1>1 DEF Finish, TypeOK

-----------------------------------------------------------------------------
\* Type correctness.

LEMMA InitType == Init => TypeInv
<1> SUFFICES ASSUME Init PROVE TypeInv
  OBVIOUS
<1>1. \A h \in Hosts : site[h] \in Sites
  BY DEF Init
<1>2. rows \in [Urls -> Rows \cup {None}]
  <2>1. PICK known \in SUBSET Hosts :
          rows = [u \in Urls |-> IF u \in known THEN RowOf(site[u].manifest, site[u].log) ELSE None]
    BY DEF Init
  <2>2. \A h \in Hosts : RowOf(site[h].manifest, site[h].log) \in Rows
    BY <1>1, RowType DEF Sites
  <2>3. QED  BY <2>1, <2>2
<1>3. NoJob \in [url : Urls \cup {None}, manifest : Manifests \cup {None}, log : Logs \cup {None}]
  BY DEF NoJob
<1>4. QED  BY <1>2, <1>3 DEF Init, TypeInv, TypeOK, JobOK, Threads, Ends

LEMMA WebType ==
  ASSUME TypeInv, Web
  PROVE  /\ TypeInv'
         /\ ~Takeovers => \A h \in Hosts : /\ site'[h].manifest.owner = site[h].manifest.owner
                                         /\ site'[h].manifest.rev >= site[h].manifest.rev
<1> USE DEF TypeInv, TypeOK
<1>1. PICK h \in Hosts : UploadManifest(h) \/ UploadLog(h) \/ ChangeTrouble(h) \/ TakeOver(h)
  BY DEF Web
<1>2. MaxRev \in Nat \ {0} /\ h \in Urls /\ Claims[h] \subseteq Urls
  BY CrawlerAssumption
<1>3. /\ site[h].manifest \in Manifests /\ site[h].log \in Logs
      /\ site[h].trouble \in Troubles \cup {"none"}
  BY DEF Sites
<1>4. /\ site' \in [Hosts -> Sites]
      /\ \A g \in Hosts \ {h} : site'[g] = site[g]
      /\ ~Takeovers => site'[h].manifest.owner = site[h].manifest.owner
      /\ ~Takeovers => site'[h].manifest.rev >= site[h].manifest.rev
  <2> DEFINE m == site[h].manifest
             l == site[h].log
  <2>0. /\ site[h] = [manifest |-> m, log |-> l, trouble |-> site[h].trouble]
        /\ m = [claim |-> m.claim, owner |-> m.owner, rev |-> m.rev, flaw |-> m.flaw]
        /\ l = [owner |-> l.owner, rev |-> l.rev]
        /\ m.owner \in Owners /\ l.owner \in Owners
        /\ m.rev \in 0 .. MaxRev /\ l.rev \in 0 .. MaxRev
    BY <1>3 DEF Sites, Manifests, Logs
  <2>1. CASE UploadManifest(h)
    <3>1. PICK c \in Claims[h], f \in Flaws \cup {"none"} :
            site' = [site EXCEPT ![h].manifest = [m EXCEPT !.rev = m.rev + 1, !.claim = c, !.flaw = f]]
      BY <2>1 DEF UploadManifest
    <3>2. PICK n : /\ n = [m EXCEPT !.rev = m.rev + 1, !.claim = c, !.flaw = f]
                   /\ site' = [site EXCEPT ![h].manifest = n]
      BY <3>1
    <3>3. n = [claim |-> c, owner |-> m.owner, rev |-> m.rev + 1, flaw |-> f]
      BY <1>3, <3>2 DEF Manifests
    <3>4. m.rev < MaxRev
      BY <2>1 DEF UploadManifest
    <3>5. n \in Manifests /\ n.owner = m.owner /\ n.rev >= m.rev
      BY <1>2, <2>0, <3>3, <3>4 DEF Manifests
    <3>6. site'[h] = [manifest |-> n, log |-> l, trouble |-> site[h].trouble]
      BY <3>2 DEF Sites
    <3>7. site'[h] \in Sites
      BY <1>3, <3>5, <3>6 DEF Sites
    <3>8. QED  BY <3>2, <3>5, <3>6, <3>7
  <2>2. CASE UploadLog(h)
    <3>1. site' = [site EXCEPT ![h].log.rev = l.rev + 1] /\ l.rev < MaxRev
      BY <2>2 DEF UploadLog
    <3>2. site'[h] = [manifest |-> m, log |-> [owner |-> l.owner, rev |-> l.rev + 1],
                      trouble |-> site[h].trouble]
      BY <3>1 DEF Sites, Logs
    <3>3. [owner |-> l.owner, rev |-> l.rev + 1] \in Logs
      BY <1>2, <2>0, <3>1 DEF Logs
    <3>4. site'[h] \in Sites
      BY <1>3, <3>2, <3>3 DEF Sites
    <3>5. m.rev >= m.rev
      BY <1>2, <2>0
    <3>6. QED  BY <3>1, <3>2, <3>4, <3>5
  <2>3. CASE ChangeTrouble(h)
    <3>1. PICK w \in Troubles \cup {"none"} : site' = [site EXCEPT ![h].trouble = w]
      BY <2>3 DEF ChangeTrouble
    <3>2. site'[h] = [manifest |-> m, log |-> l, trouble |-> w]
      BY <3>1 DEF Sites
    <3>3. site'[h] \in Sites
      BY <1>3, <3>2 DEF Sites
    <3>4. m.rev >= m.rev
      BY <1>2, <2>0
    <3>5. QED  BY <3>1, <3>2, <3>3, <3>4
  <2>4. CASE TakeOver(h)
    <3>1. PICK o \in Owners :
            site' = [site EXCEPT ![h] =
                       [manifest |-> [claim |-> h, owner |-> o, rev |-> 1, flaw |-> "none"],
                        log |-> [owner |-> o, rev |-> 1],
                        trouble |-> site[h].trouble]]
      BY <2>4 DEF TakeOver
    <3>2. [claim |-> h, owner |-> o, rev |-> 1, flaw |-> "none"] \in Manifests
      BY <1>2 DEF Manifests
    <3>3. [owner |-> o, rev |-> 1] \in Logs
      BY <1>2 DEF Logs
    <3>4. site'[h] \in Sites
      BY <1>3, <3>1, <3>2, <3>3 DEF Sites
    <3>5. Takeovers
      BY <2>4 DEF TakeOver
    <3>6. QED  BY <3>1, <3>4, <3>5
  <2>5. QED  BY <1>1, <2>1, <2>2, <2>3, <2>4
<1>5. \A g \in Hosts : site[g].manifest.rev \in Nat
  BY <1>2 DEF Sites, Manifests
<1>6. UNCHANGED <<rows, queue, pc, job, verdict>>
  BY DEF Web
<1>7. QED  BY <1>4, <1>5, <1>6 DEF JobOK

\* A step of PollOne, seen from the threads and the rows.
LEMMA PollType ==
  ASSUME TypeInv, NEW t \in Threads, PollOne(t)
  PROVE  /\ TypeInv'
         /\ site' = site
         /\ \A s \in Threads \ {t} : pc'[s] = pc[s] /\ job'[s] = job[s]
<1> USE DEF TypeInv, TypeOK
<1>0. JobOK(t)
  OBVIOUS
<1>1. CASE FetchManifest(t)
  <2>0. job[t].url \in Urls /\ Reaches(job[t].url)
    BY <1>0, <1>1 DEF FetchManifest, ServesManifest, JobOK
  <2>1. site[Trim[job[t].url]].manifest \in Manifests
    BY <2>0, CrawlerAssumption DEF Sites
  <2>2. job'[t] = [url |-> job[t].url, manifest |-> site[Trim[job[t].url]].manifest, log |-> job[t].log]
    BY <1>1 DEF FetchManifest
  <2>3. job'[t] \in [url : Urls \cup {None}, manifest : Manifests \cup {None}, log : Logs \cup {None}]
    BY <2>1, <2>2
  <2>4. /\ pc' = [pc EXCEPT ![t] = "log"] /\ UNCHANGED <<site, rows, queue, verdict>>
        /\ job' = [job EXCEPT ![t].manifest = site[Trim[job[t].url]].manifest]
    BY <1>1 DEF FetchManifest
  <2>5. /\ job' \in [Threads -> [url : Urls \cup {None}, manifest : Manifests \cup {None}, log : Logs \cup {None}]]
        /\ \A s \in Threads \ {t} : pc'[s] = pc[s] /\ job'[s] = job[s]
    BY <2>3, <2>4
  <2>6. \A s \in Threads : JobOK(s)'
    <3>1. JobOK(t)'
      BY <2>0, <2>1, <2>2, <2>4 DEF JobOK
    <3>2. QED  BY <2>4, <2>5, <3>1 DEF JobOK
  <2>7. QED  BY <2>4, <2>5, <2>6
<1>2. CASE FetchLog(t)
  <2>1. /\ job' = [job EXCEPT ![t].log = site[Trim[job[t].url]].log]
        /\ pc[t] = "log" /\ UNCHANGED <<site, rows, queue, verdict>>
        /\ pc' \in {[pc EXCEPT ![t] = "index"], [pc EXCEPT ![t] = "reject"]}
    BY <1>2 DEF FetchLog
  <2>2. site[Trim[job[t].url]].log \in Logs
    BY <1>0, <2>1, CrawlerAssumption DEF JobOK, Sites
  <2>3. job'[t] = [url |-> job[t].url, manifest |-> job[t].manifest, log |-> site[Trim[job[t].url]].log]
    BY <2>1
  <2>4. job'[t] \in [url : Urls \cup {None}, manifest : Manifests \cup {None}, log : Logs \cup {None}]
    BY <2>2, <2>3
  <2>5. /\ job' \in [Threads -> [url : Urls \cup {None}, manifest : Manifests \cup {None}, log : Logs \cup {None}]]
        /\ \A s \in Threads \ {t} : pc'[s] = pc[s] /\ job'[s] = job[s]
    BY <2>1, <2>4
  <2>6. \A s \in Threads : JobOK(s)'
    <3>1. JobOK(t)'
      BY <1>0, <2>1, <2>2, <2>3 DEF JobOK
    <3>2. QED  BY <2>5, <3>1 DEF JobOK
  <2>7. QED  BY <2>1, <2>5, <2>6
<1>3. CASE FetchManifestFails(t) \/ Reject(t) \/ Index(t) \/ IndexFails(t)
  <2>1. PICK o \in Ends : Finish(t, o)
    BY <1>3 DEF FetchManifestFails, Reject, Index, IndexFails, Ends
  <2>2. UNCHANGED <<site, queue>> /\ pc[t] # "idle"
    BY <1>3 DEF FetchManifestFails, Reject, Index, IndexFails
  <2>3. job[t].url \in Urls
    BY <1>0, <2>2 DEF JobOK
  <2>4. rows' \in [Urls -> Rows \cup {None}]
    <3>1. CASE FetchManifestFails(t) \/ Reject(t)
      BY <2>3, <3>1, ErrorKeepsRow DEF FetchManifestFails, Reject
    <3>2. CASE Index(t)
      <4>1. job[t].manifest \in Manifests /\ job[t].log \in Logs
        BY <1>0, <3>2 DEF JobOK, Index
      <4>2. RowOf(job[t].manifest, job[t].log) \in Rows
        BY <4>1, RowType
      <4>3. QED  BY <3>2, <4>2 DEF Index, UpsertManifest
    <3>3. CASE IndexFails(t)
      BY <3>3 DEF IndexFails
    <3>4. QED  BY <1>3, <3>1, <3>2, <3>3
  <2>5. QED  BY <2>1, <2>2, <2>4, FinishType DEF JobOK
<1>4. QED  BY <1>1, <1>2, <1>3 DEF PollOne

\* A poll begins.
LEMMA StartType ==
  ASSUME TypeInv, NEW t \in Threads, NEW u \in Urls, Start(t, u),
         queue' \in Seq(Urls), UNCHANGED <<site, rows, verdict>>
  PROVE  /\ TypeInv'
         /\ pc'[t] = "manifest"
         /\ \A s \in Threads \ {t} : pc'[s] = pc[s] /\ job'[s] = job[s]
<1> USE DEF TypeInv, TypeOK
<1>1. [NoJob EXCEPT !.url = u] \in [url : Urls \cup {None}, manifest : Manifests \cup {None}, log : Logs \cup {None}]
  BY DEF NoJob
<1>2. job' = [job EXCEPT ![t] = [NoJob EXCEPT !.url = u]] /\ pc' = [pc EXCEPT ![t] = "manifest"]
  BY DEF Start
<1>3. job'[t].url = u
  BY <1>2 DEF NoJob
<1>4. QED  BY <1>1, <1>2, <1>3 DEF JobOK

\* Rows grow older, and keep the rest.
LEMMA TickType ==
  ASSUME TypeInv, Tick
  PROVE  /\ TypeInv'
         /\ \A u \in Urls : rows'[u] # None => /\ rows[u] # None
                                             /\ rows'[u].owner = rows[u].owner
                                             /\ rows'[u].rev = rows[u].rev
                                             /\ rows'[u].log = rows[u].log
<1> USE DEF TypeInv, TypeOK
<1>1. ASSUME NEW u \in Urls
      PROVE  /\ rows'[u] \in Rows \cup {None}
             /\ rows'[u] # None => /\ rows[u] # None
                                   /\ rows'[u].owner = rows[u].owner
                                   /\ rows'[u].rev = rows[u].rev
                                   /\ rows'[u].log = rows[u].log
  <2>1. CASE rows[u] = None \/ rows[u].age = rows[u].ttl
    BY <2>1 DEF Tick
  <2>2. CASE ~(rows[u] = None \/ rows[u].age = rows[u].ttl)
    <3>1. rows[u] \in Rows /\ rows'[u] = [rows[u] EXCEPT !.age = @ + 1]
      BY <2>2 DEF Tick
    <3>2. rows'[u] \in Rows
      BY <3>1 DEF Rows
    <3>3. QED  BY <2>2, <3>1, <3>2 DEF Rows
  <2>3. QED  BY <2>1, <2>2
<1>2. rows' \in [Urls -> Rows \cup {None}]
  BY <1>1 DEF Tick
<1>3. QED  BY <1>1, <1>2 DEF Tick, JobOK

LEMMA RestartType ==
  ASSUME TypeInv, Restart
  PROVE  TypeInv' /\ \A t \in Threads : pc'[t] = "idle"
<1>1. NoJob \in [url : Urls \cup {None}, manifest : Manifests \cup {None}, log : Logs \cup {None}]
  BY DEF NoJob
<1>2. QED  BY <1>1 DEF Restart, TypeInv, TypeOK, JobOK

\* The poller takes the next identity of its round.
LEMMA PollNextStarts ==
  ASSUME TypeInv, PollNext
  PROVE  /\ \E u \in Urls : Start("poller", u)
         /\ queue' \in Seq(Urls)
<1>1. queue \in Seq(Urls) /\ queue # <<>>
  BY DEF TypeInv, TypeOK, PollNext
<1>2. Head(queue) \in Urls /\ Tail(queue) \in Seq(Urls)
  BY <1>1
<1>3. QED  BY <1>2 DEF PollNext

LEMMA PollDueType ==
  ASSUME TypeInv, PollDue
  PROVE  TypeInv' /\ UNCHANGED <<site, rows, pc, job>>
<1>1. queue' \in Seq(Urls)
  BY QueueType DEF PollDue
<1>2. QED  BY <1>1 DEF PollDue, TypeInv, TypeOK, JobOK

LEMMA ThreadsAre ==
  "poller" \in Threads /\ Admins \subseteq Threads
BY DEF Threads

LEMMA TypeStep ==
  ASSUME TypeInv, [Next]_vars
  PROVE  TypeInv'
<1>1. CASE Web
  BY <1>1, WebType
<1>2. CASE Tick
  BY <1>2, TickType
<1>3. CASE Restart
  BY <1>3, RestartType
<1>4. CASE PollDue
  BY <1>4, PollDueType
<1>5. CASE PollNext
  <2>1. PICK u \in Urls : Start("poller", u)
    BY <1>5, PollNextStarts
  <2>2. QED  BY <1>5, <2>1, ThreadsAre, PollNextStarts, StartType DEF PollNext
<1>6. ASSUME NEW t \in Threads, PollOne(t) PROVE TypeInv'
  BY <1>6, PollType
<1>7. ASSUME NEW t \in Admins, NEW u \in Urls, Submit(t, u) PROVE TypeInv'
  <2>1. queue' \in Seq(Urls)
    BY <1>7 DEF Submit, TypeInv, TypeOK
  <2>2. QED  BY <1>7, <2>1, ThreadsAre, StartType DEF Submit
<1>8. CASE UNCHANGED vars
  BY <1>8 DEF vars, TypeInv, TypeOK, JobOK
<1>9. QED
  BY <1>1, <1>2, <1>3, <1>4, <1>5, <1>6, <1>7, <1>8, ThreadsAre DEF Next, Poller, Admin

\* Every variable holds a value of its type, with any number of hosts, manifests and
\* concurrent polls.
THEOREM TypeCorrect == Spec => []TypeOK
<1>1. Spec => []TypeInv
  BY InitType, TypeStep, PTL DEF Spec
<1>2. TypeInv => TypeOK
  BY DEF TypeInv
<1>3. QED  BY <1>1, <1>2, PTL

-----------------------------------------------------------------------------
\* What is indexed was valid when it was fetched, in two requests.

LEMMA HeadedKept ==
  ASSUME HeadedPairMatches,
         \A u \in Urls : rows'[u] # None => /\ rows[u] # None
                                            /\ rows'[u].owner = rows[u].owner
                                            /\ rows'[u].rev = rows[u].rev
                                            /\ rows'[u].log = rows[u].log
  PROVE  HeadedPairMatches'
BY DEF HeadedPairMatches, Indexed

LEMMA PairPoll ==
  ASSUME TypeInv, PairInv, NEW t \in Threads, PollOne(t)
  PROVE  PairInv'
<1> USE DEF PairInv
<1>1. \A s \in Threads \ {t} : Accepted(s)'
  BY PollType DEF Accepted
<1>2. CASE FetchManifest(t)
  <2>1. rows' = rows /\ pc'[t] = "log"
    BY <1>2 DEF FetchManifest, TypeInv, TypeOK
  <2>2. QED  BY <1>1, <2>1 DEF Accepted, HeadedPairMatches, Indexed
<1>3. CASE FetchLog(t)
  <2>1. rows' = rows
    BY <1>3 DEF FetchLog
  <2>2. job[t] = [url |-> job[t].url, manifest |-> job[t].manifest, log |-> job[t].log]
    BY DEF TypeInv, TypeOK
  <2>3. job'[t] = [url |-> job[t].url, manifest |-> job[t].manifest, log |-> site[Trim[job[t].url]].log]
    BY <1>3, <2>2 DEF FetchLog, TypeInv, TypeOK
  <2>4. pc'[t] = "index" => Valid(job[t].url, job[t].manifest, site[Trim[job[t].url]].log)
    BY <1>3 DEF FetchLog, TypeInv, TypeOK
  <2>5. Accepted(t)'
    BY <2>3, <2>4 DEF Accepted, Valid
  <2>6. QED  BY <1>1, <2>1, <2>5 DEF HeadedPairMatches, Indexed
<1>4. CASE FetchManifestFails(t) \/ Reject(t)
  <2>1. PICK o \in Ends : Finish(t, o)
    BY <1>4 DEF FetchManifestFails, Reject, Ends
  <2>2. Accepted(t)'
    BY <2>1, FinishType DEF Accepted, TypeInv, Ends
  <2>3. job[t].url \in Urls
    BY <1>4 DEF FetchManifestFails, Reject, TypeInv, JobOK
  <2>4. PICK key : RecordFetchError(key, job[t].url)
    BY <1>4 DEF FetchManifestFails, Reject
  <2>5. HeadedPairMatches'
    BY <2>3, <2>4, ErrorKeepsRow, HeadedKept DEF TypeInv
  <2>6. QED  BY <1>1, <2>2, <2>5
<1>5. CASE Index(t)
  <2> DEFINE m == job[t].manifest
             l == job[t].log
  <2>1. Finish(t, "ok") /\ pc[t] = "index" /\ rows' = [rows EXCEPT ![m.claim] = RowOf(m, l)]
    BY <1>5 DEF Index, UpsertManifest
  <2>2. Accepted(t)'
    BY <2>1, FinishType DEF Accepted, TypeInv, Ends
  <2>3. l \in Logs
    BY <2>1 DEF TypeInv, JobOK
  <2>4. l = [owner |-> l.owner, rev |-> l.rev]
    BY <2>3 DEF Logs
  <2>5. l.owner = m.owner /\ (m.rev # 0 => l.rev = m.rev)
    BY <2>1 DEF Accepted, Valid
  <2>6. HeadedPairMatches'
    <3> SUFFICES ASSUME NEW u \in Urls, rows'[u] # None, rows'[u].rev # 0
                 PROVE  rows'[u].log = [owner |-> rows'[u].owner, rev |-> rows'[u].rev]
      BY DEF HeadedPairMatches, Indexed
    <3>1. CASE u = m.claim
      <4>1. rows'[u] = RowOf(m, l)
        BY <2>1, <3>1 DEF TypeInv, TypeOK
      <4>2. rows'[u].rev = m.rev /\ rows'[u].owner = m.owner /\ rows'[u].log = l
        BY <4>1 DEF RowOf
      <4>3. QED  BY <2>4, <2>5, <4>2
    <3>2. CASE u # m.claim
      BY <2>1, <3>2 DEF HeadedPairMatches, Indexed, TypeInv, TypeOK
    <3>3. QED  BY <3>1, <3>2
  <2>7. QED  BY <1>1, <2>2, <2>6
<1>6. CASE IndexFails(t)
  <2>1. Finish(t, "none") /\ rows' = rows
    BY <1>6 DEF IndexFails
  <2>2. Accepted(t)'
    BY <2>1, FinishType DEF Accepted, TypeInv, Ends
  <2>3. QED  BY <1>1, <2>1, <2>2 DEF HeadedPairMatches, Indexed
<1>7. QED  BY <1>2, <1>3, <1>4, <1>5, <1>6 DEF PollOne

LEMMA PairStart ==
  ASSUME TypeInv, PairInv, NEW t \in Threads, NEW u \in Urls, Start(t, u),
         queue' \in Seq(Urls), UNCHANGED <<site, rows, verdict>>
  PROVE  PairInv'
<1>1. \A s \in Threads : Accepted(s)'
  BY StartType DEF PairInv, Accepted
<1>2. QED  BY <1>1 DEF PairInv, HeadedPairMatches, Indexed

LEMMA PairInit == Init => PairInv
<1> SUFFICES ASSUME Init PROVE PairInv
  OBVIOUS
<1>1. \A t \in Threads : Accepted(t)
  BY DEF Init, Accepted
<1>2. HeadedPairMatches
  <2> SUFFICES ASSUME NEW u \in Urls, rows[u] # None
               PROVE  rows[u].log = [owner |-> rows[u].owner, rev |-> rows[u].rev]
    BY DEF HeadedPairMatches, Indexed
  <2>1. u \in Hosts /\ rows[u] = RowOf(site[u].manifest, site[u].log)
    BY DEF Init
  <2>2. site[u].log = [owner |-> site[u].manifest.owner, rev |-> site[u].manifest.rev]
    BY <2>1 DEF Init, FirstSite
  <2>3. QED  BY <2>1, <2>2 DEF RowOf
<1>3. QED  BY <1>1, <1>2 DEF PairInv

LEMMA PairStep ==
  ASSUME TypeInv, PairInv, [Next]_vars
  PROVE  PairInv'
<1>1. CASE Web
  BY <1>1 DEF Web, PairInv, HeadedPairMatches, Indexed, Accepted
<1>2. CASE Tick
  <2>1. HeadedPairMatches'
    BY <1>2, TickType, HeadedKept DEF PairInv
  <2>2. QED  BY <1>2, <2>1 DEF Tick, PairInv, Accepted
<1>3. CASE Restart
  <2>1. \A t \in Threads : Accepted(t)'
    BY <1>3, RestartType DEF Accepted
  <2>2. QED  BY <1>3, <2>1 DEF Restart, PairInv, HeadedPairMatches, Indexed
<1>4. CASE PollDue
  BY <1>4 DEF PollDue, PairInv, HeadedPairMatches, Indexed, Accepted
<1>5. CASE PollNext
  <2>1. PICK u \in Urls : Start("poller", u)
    BY <1>5, PollNextStarts
  <2>2. QED  BY <1>5, <2>1, ThreadsAre, PollNextStarts, PairStart DEF PollNext
<1>6. ASSUME NEW t \in Threads, PollOne(t) PROVE PairInv'
  BY <1>6, PairPoll
<1>7. ASSUME NEW t \in Admins, NEW u \in Urls, Submit(t, u) PROVE PairInv'
  <2>1. queue' \in Seq(Urls)
    BY <1>7 DEF Submit, TypeInv, TypeOK
  <2>2. QED  BY <1>7, <2>1, ThreadsAre, PairStart DEF Submit
<1>8. CASE UNCHANGED vars
  BY <1>8 DEF vars, PairInv, HeadedPairMatches, Indexed, Accepted
<1>9. QED
  BY <1>1, <1>2, <1>3, <1>4, <1>5, <1>6, <1>7, <1>8, ThreadsAre DEF Next, Poller, Admin

\* However uploads, polls, submissions and restarts interleave, a manifest that binds
\* its log is never indexed beside a log of another revision or owner.
THEOREM HeadedPairs == Spec => []HeadedPairMatches
<1>1. Spec => [](TypeInv /\ PairInv)
  BY InitType, PairInit, TypeStep, PairStep, PTL DEF Spec
<1>2. PairInv => HeadedPairMatches
  BY DEF PairInv
<1>3. QED  BY <1>1, <1>2, PTL

-----------------------------------------------------------------------------
\* What is indexed comes from the host that the URL names.

LEMMA OwnKept ==
  ASSUME RowFromOwnHost, site' = site,
         \A u \in Urls : rows'[u] # None => /\ rows[u] # None
                                            /\ rows'[u].owner = rows[u].owner
                                            /\ rows'[u].rev = rows[u].rev
                                            /\ rows'[u].log = rows[u].log
  PROVE  RowFromOwnHost'
BY DEF RowFromOwnHost, Indexed

LEMMA OwnWeb ==
  ASSUME TypeInv, OwnInv, Web
  PROVE  OwnInv'
<1> SUFFICES ASSUME ~Takeovers PROVE OwnInv'
  BY DEF OwnInv, RowFromOwnHost
<1>1. \A h \in Hosts : /\ site[h].manifest.rev \in Nat /\ site'[h].manifest.rev \in Nat
                       /\ site'[h].manifest.owner = site[h].manifest.owner
                       /\ site'[h].manifest.rev >= site[h].manifest.rev
  <2>1. TypeInv' /\ \A h \in Hosts : /\ site'[h].manifest.owner = site[h].manifest.owner
                                    /\ site'[h].manifest.rev >= site[h].manifest.rev
    BY WebType
  <2>2. \A h \in Hosts : site[h] \in Sites /\ site'[h] \in Sites
    BY <2>1 DEF TypeInv, TypeOK
  <2>3. \A h \in Hosts : site[h].manifest.rev \in Nat /\ site'[h].manifest.rev \in Nat
    BY <2>2, CrawlerAssumption DEF Sites, Manifests
  <2>4. QED  BY <2>1, <2>3
<1>2. UNCHANGED <<rows, pc, job>>
  BY DEF Web
<1>3. RowFromOwnHost'
  <2> SUFFICES ASSUME NEW u \in Urls, rows[u] # None
               PROVE  /\ rows[u].owner = site'[Trim[u]].manifest.owner
                      /\ rows[u].rev <= site'[Trim[u]].manifest.rev
    BY <1>2 DEF RowFromOwnHost, Indexed
  <2>1. rows[u].owner = site[Trim[u]].manifest.owner /\ rows[u].rev <= site[Trim[u]].manifest.rev
    BY DEF OwnInv, RowFromOwnHost, Indexed
  <2>2. Trim[u] \in Hosts /\ rows[u].rev \in Nat
    BY CrawlerAssumption DEF TypeInv, TypeOK, Rows
  <2>3. QED  BY <1>1, <2>1, <2>2
<1>4. \A t \in Threads : Fetched(t)'
  <2> SUFFICES ASSUME NEW t \in Threads, pc[t] \in {"log", "reject", "index"}
               PROVE  /\ job[t].manifest.owner = site'[Trim[job[t].url]].manifest.owner
                      /\ job[t].manifest.rev <= site'[Trim[job[t].url]].manifest.rev
    BY <1>2 DEF Fetched
  <2>1. /\ job[t].manifest.owner = site[Trim[job[t].url]].manifest.owner
        /\ job[t].manifest.rev <= site[Trim[job[t].url]].manifest.rev
    BY DEF OwnInv, Fetched
  <2>2. Trim[job[t].url] \in Hosts /\ job[t].manifest \in Manifests
    BY CrawlerAssumption DEF TypeInv, JobOK
  <2>3. job[t].manifest.rev \in Nat
    BY <2>2, CrawlerAssumption DEF Manifests
  <2>4. QED  BY <1>1, <2>1, <2>2, <2>3
<1>5. QED  BY <1>3, <1>4 DEF OwnInv

LEMMA OwnPoll ==
  ASSUME TypeInv, PairInv, OwnInv, NEW t \in Threads, PollOne(t)
  PROVE  OwnInv'
<1> USE DEF OwnInv
<1>0. site' = site
  BY PollType
<1>1. ~Takeovers => \A s \in Threads \ {t} : Fetched(s)'
  BY <1>0, PollType DEF Fetched
<1>2. CASE FetchManifest(t)
  <2>1. rows' = rows
    BY <1>2 DEF FetchManifest
  <2>2. job'[t].url = job[t].url /\ job'[t].manifest = site[Trim[job[t].url]].manifest
    BY <1>2 DEF FetchManifest, TypeInv, TypeOK
  <2>3. Trim[job[t].url] \in Hosts
    BY <1>2, CrawlerAssumption DEF FetchManifest, TypeInv, JobOK
  <2>4. site[Trim[job[t].url]].manifest.rev \in Nat
    BY <2>3, CrawlerAssumption DEF TypeInv, TypeOK, Sites, Manifests
  <2>5. Fetched(t)'
    BY <1>0, <2>2, <2>4 DEF Fetched
  <2>6. QED  BY <1>0, <1>1, <2>1, <2>5 DEF RowFromOwnHost, Indexed
<1>3. CASE FetchLog(t)
  <2>1. rows' = rows /\ pc[t] = "log"
    BY <1>3 DEF FetchLog
  <2>2. job'[t].url = job[t].url /\ job'[t].manifest = job[t].manifest
    BY <1>3 DEF FetchLog, TypeInv, TypeOK
  <2>3. ~Takeovers => Fetched(t)'
    BY <1>0, <2>1, <2>2 DEF Fetched
  <2>4. QED  BY <1>0, <1>1, <2>1, <2>3 DEF RowFromOwnHost, Indexed
<1>4. CASE FetchManifestFails(t) \/ Reject(t)
  <2>1. PICK o \in Ends : Finish(t, o)
    BY <1>4 DEF FetchManifestFails, Reject, Ends
  <2>2. Fetched(t)'
    BY <2>1, FinishType DEF Fetched, TypeInv, Ends
  <2>3. job[t].url \in Urls
    BY <1>4 DEF FetchManifestFails, Reject, TypeInv, JobOK
  <2>4. PICK key : RecordFetchError(key, job[t].url)
    BY <1>4 DEF FetchManifestFails, Reject
  <2>5. RowFromOwnHost'
    BY <1>0, <2>3, <2>4, ErrorKeepsRow, OwnKept DEF TypeInv
  <2>6. QED  BY <1>1, <2>2, <2>5
<1>5. CASE Index(t)
  <2> DEFINE m == job[t].manifest
             l == job[t].log
  <2>1. Finish(t, "ok") /\ pc[t] = "index" /\ rows' = [rows EXCEPT ![m.claim] = RowOf(m, l)]
    BY <1>5 DEF Index, UpsertManifest
  <2>2. Fetched(t)'
    BY <2>1, FinishType DEF Fetched, TypeInv, Ends
  <2>3. job[t].url \in Urls /\ m.claim \in Urls
    BY <2>1 DEF TypeInv, JobOK, Manifests
  <2>4. Trim[m.claim] = Trim[job[t].url]
    <3>1. ManifestURL(Trim[m.claim]) = ManifestURL(job[t].url)
      BY <2>1 DEF PairInv, Accepted, Valid
    <3>2. Trim[m.claim] \in Urls /\ job[t].url \in Urls
      BY <2>3, CrawlerAssumption
    <3>3. Trim[m.claim] = job[t].url /\ Trim[m.claim] \in Hosts
      BY <2>3, <3>1, <3>2, CrawlerAssumption
    <3>4. QED  BY <3>3, CrawlerAssumption
  <2>5. RowFromOwnHost'
    <3> SUFFICES ASSUME NEW u \in Urls, rows'[u] # None, ~Takeovers
                 PROVE  /\ rows'[u].owner = site[Trim[u]].manifest.owner
                        /\ rows'[u].rev <= site[Trim[u]].manifest.rev
      BY <1>0 DEF RowFromOwnHost, Indexed
    <3>1. CASE u = m.claim
      <4>1. rows'[u] = RowOf(m, l)
        BY <2>1, <3>1 DEF TypeInv, TypeOK
      <4>2. rows'[u].rev = m.rev /\ rows'[u].owner = m.owner
        BY <4>1 DEF RowOf
      <4>3. QED  BY <2>1, <2>4, <3>1, <4>2 DEF Fetched
    <3>2. CASE u # m.claim
      BY <2>1, <3>2 DEF RowFromOwnHost, Indexed, TypeInv, TypeOK
    <3>3. QED  BY <3>1, <3>2
  <2>6. QED  BY <1>1, <2>2, <2>5
<1>6. CASE IndexFails(t)
  <2>1. Finish(t, "none") /\ rows' = rows
    BY <1>6 DEF IndexFails
  <2>2. Fetched(t)'
    BY <2>1, FinishType DEF Fetched, TypeInv, Ends
  <2>3. QED  BY <1>0, <1>1, <2>1, <2>2 DEF RowFromOwnHost, Indexed
<1>7. QED  BY <1>2, <1>3, <1>4, <1>5, <1>6 DEF PollOne

LEMMA OwnStart ==
  ASSUME TypeInv, OwnInv, NEW t \in Threads, NEW u \in Urls, Start(t, u),
         queue' \in Seq(Urls), UNCHANGED <<site, rows, verdict>>
  PROVE  OwnInv'
<1>1. \A s \in Threads : (~Takeovers => Fetched(s)) => (~Takeovers => Fetched(s)')
  BY StartType DEF Fetched
<1>2. QED  BY <1>1 DEF OwnInv, RowFromOwnHost, Indexed

LEMMA OwnInit == Init => OwnInv
<1> SUFFICES ASSUME Init PROVE OwnInv
  OBVIOUS
<1>1. \A t \in Threads : Fetched(t)
  BY DEF Init, Fetched
<1>2. RowFromOwnHost
  <2> SUFFICES ASSUME NEW u \in Urls, rows[u] # None
               PROVE  /\ rows[u].owner = site[Trim[u]].manifest.owner
                      /\ rows[u].rev <= site[Trim[u]].manifest.rev
    BY DEF RowFromOwnHost, Indexed
  <2>1. u \in Hosts /\ rows[u] = RowOf(site[u].manifest, site[u].log)
    BY DEF Init
  <2>2. Trim[u] = u /\ site[u].manifest.rev \in Nat
    BY <2>1, CrawlerAssumption DEF Init, Sites, Manifests
  <2>3. QED  BY <2>1, <2>2 DEF RowOf
<1>3. QED  BY <1>1, <1>2 DEF OwnInv

LEMMA OwnStep ==
  ASSUME TypeInv, PairInv, OwnInv, [Next]_vars
  PROVE  OwnInv'
<1>1. CASE Web
  BY <1>1, OwnWeb
<1>2. CASE Tick
  <2>1. UNCHANGED <<site, pc, job>>
    BY <1>2 DEF Tick
  <2>2. RowFromOwnHost'
    BY <1>2, <2>1, TickType, OwnKept DEF OwnInv
  <2>3. QED  BY <2>1, <2>2 DEF OwnInv, Fetched
<1>3. CASE Restart
  <2>1. \A t \in Threads : Fetched(t)'
    BY <1>3, RestartType DEF Fetched
  <2>2. QED  BY <1>3, <2>1 DEF Restart, OwnInv, RowFromOwnHost, Indexed
<1>4. CASE PollDue
  BY <1>4 DEF PollDue, OwnInv, RowFromOwnHost, Indexed, Fetched
<1>5. CASE PollNext
  <2>1. PICK u \in Urls : Start("poller", u)
    BY <1>5, PollNextStarts
  <2>2. QED  BY <1>5, <2>1, ThreadsAre, PollNextStarts, OwnStart DEF PollNext
<1>6. ASSUME NEW t \in Threads, PollOne(t) PROVE OwnInv'
  BY <1>6, OwnPoll
<1>7. ASSUME NEW t \in Admins, NEW u \in Urls, Submit(t, u) PROVE OwnInv'
  <2>1. queue' \in Seq(Urls)
    BY <1>7 DEF Submit, TypeInv, TypeOK
  <2>2. QED  BY <1>7, <2>1, ThreadsAre, OwnStart DEF Submit
<1>8. CASE UNCHANGED vars
  BY <1>8 DEF vars, OwnInv, RowFromOwnHost, Indexed, Fetched
<1>9. QED
  BY <1>1, <1>2, <1>3, <1>4, <1>5, <1>6, <1>7, <1>8, ThreadsAre DEF Next, Poller, Admin

\* Whatever URLs the manifests of other hosts claim, and whoever submits which URL,
\* what is indexed under a URL was served by its own host, in a revision that the
\* host had reached.
THEOREM OwnRows == Spec => []RowFromOwnHost
<1>1. Spec => [](TypeInv /\ PairInv /\ OwnInv)
  BY InitType, PairInit, OwnInit, TypeStep, PairStep, OwnStep, PTL DEF Spec
<1>2. OwnInv => RowFromOwnHost
  BY DEF OwnInv
<1>3. QED  BY <1>1, <1>2, PTL

-----------------------------------------------------------------------------
\* A row tells the verdict of the last poll that reached one.

\* A manifest from h claims an undisputed URL exactly if that is h.
Honest(m, h) == \A u \in Undisputed : m.claim = u <=> h = u

ClaimHeld(t) ==
  pc[t] \in {"log", "reject", "index"} => Honest(job[t].manifest, Trim[job[t].url])

VerdictInv ==
  /\ \A h \in Hosts : Honest(site[h].manifest, h)
  /\ \A t \in Threads : ClaimHeld(t)
  /\ RowTellsVerdict

\* Of the URLs under which a manifest is to be had, only u itself leads to an
\* undisputed u.
LEMMA ReachedAsItself ==
  ASSUME NEW w \in Undisputed, NEW u \in Urls, Reaches(u)
  PROVE  Trim[u] = w <=> u = w
BY CrawlerAssumption DEF Undisputed

LEMMA UndisputedUrls == Undisputed \subseteq Urls
BY CrawlerAssumption DEF Undisputed

LEMMA VerdictKept ==
  ASSUME RowTellsVerdict, verdict' = verdict,
         \A u \in Urls : rows'[u] # None => rows[u] # None /\ rows'[u].error = rows[u].error
  PROVE  RowTellsVerdict'
BY UndisputedUrls DEF RowTellsVerdict, Indexed

LEMMA ClaimsStay ==
  ASSUME TypeInv, \A h \in Hosts : Honest(site[h].manifest, h), Web
  PROVE  \A h \in Hosts : Honest(site'[h].manifest, h)
<1>1. PICK h \in Hosts : UploadManifest(h) \/ UploadLog(h) \/ ChangeTrouble(h) \/ TakeOver(h)
  BY DEF Web
<1>2. site[h] \in Sites /\ site \in [Hosts -> Sites] /\ Honest(site[h].manifest, h)
  BY DEF TypeInv, TypeOK
<1>3. CASE UploadManifest(h)
  <2> DEFINE m == site[h].manifest
  <2>1. PICK c \in Claims[h], f \in Flaws \cup {"none"} :
          site' = [site EXCEPT ![h].manifest = [m EXCEPT !.rev = m.rev + 1, !.claim = c, !.flaw = f]]
    BY <1>3 DEF UploadManifest
  <2>2. m \in Manifests /\ \A u \in Undisputed : c = u <=> h = u
    BY <1>2 DEF Undisputed, Sites
  <2>3. PICK n : n = [m EXCEPT !.rev = m.rev + 1, !.claim = c, !.flaw = f]
    OBVIOUS
  <2>4. Honest(n, h)
    BY <2>2, <2>3 DEF Manifests, Honest
  <2>5. site' = [site EXCEPT ![h].manifest = n]
    BY <2>1, <2>3
  <2>6. QED  BY <1>2, <2>4, <2>5 DEF Sites
<1>4. CASE UploadLog(h) \/ ChangeTrouble(h)
  BY <1>2, <1>4 DEF UploadLog, ChangeTrouble, Sites
<1>5. CASE TakeOver(h)
  BY <1>2, <1>5 DEF TakeOver, Honest
<1>6. QED  BY <1>1, <1>3, <1>4, <1>5

\* The end of a poll, with what it does to the row.
LEMMA VerdictPoll ==
  ASSUME TypeInv, VerdictInv, ~DBErrors, NEW t \in Threads, PollOne(t)
  PROVE  VerdictInv'
<1> USE DEF VerdictInv
<1>0. UNCHANGED site /\ \A s \in Threads \ {t} : ClaimHeld(s)'
  BY PollType DEF ClaimHeld
<1>1. CASE FetchManifest(t)
  <2>1. /\ UNCHANGED <<rows, verdict>> /\ Trim[job[t].url] \in Hosts
        /\ job'[t].url = job[t].url /\ job'[t].manifest = site[Trim[job[t].url]].manifest
    BY <1>1, CrawlerAssumption DEF FetchManifest, TypeInv, TypeOK, JobOK
  <2>2. QED  BY <1>0, <2>1, VerdictKept DEF ClaimHeld
<1>2. CASE FetchLog(t)
  <2>1. /\ UNCHANGED <<rows, verdict>> /\ pc[t] = "log"
        /\ job'[t].url = job[t].url /\ job'[t].manifest = job[t].manifest
    BY <1>2 DEF FetchLog, TypeInv, TypeOK
  <2>2. QED  BY <1>0, <2>1, VerdictKept DEF ClaimHeld
<1>3. CASE FetchManifestFails(t)
  <2>1. job[t].url \in Urls /\ Finish(t, "none")
    BY <1>3 DEF FetchManifestFails, TypeInv, JobOK, Ends
  <2>2. UNCHANGED rows
    BY <1>3, <2>1, CrawlerAssumption DEF FetchManifestFails, RecordFetchError
  <2>3. pc'[t] = "idle" /\ verdict' = verdict
    BY <2>1, FinishType DEF TypeInv, Finish, Ends
  <2>4. RowTellsVerdict'
    BY <2>2, <2>3, VerdictKept
  <2>5. QED  BY <1>0, <2>3, <2>4 DEF ClaimHeld
<1>4. CASE Reject(t)
  <2> DEFINE u == job[t].url
             c == job[t].manifest.claim
  <2>1. /\ u \in Urls /\ c \in Urls /\ Finish(t, "invalid")
        /\ RecordFetchError(c, u)
    BY <1>4 DEF Reject, TypeInv, JobOK, Manifests, Ends
  <2>2. \A w \in Undisputed : c = w <=> u = w
    BY <1>4, ReachedAsItself DEF Reject, ClaimHeld, Honest, TypeInv, JobOK
  <2>3. pc'[t] = "idle" /\ verdict' = [verdict EXCEPT ![u] = "invalid"]
    BY <2>1, FinishType DEF TypeInv, Finish, Ends
  <2>4. \/ Indexed(c) /\ rows' = [rows EXCEPT ![c].error = u]
        \/ ~Indexed(c) /\ UNCHANGED rows
    BY <2>1 DEF RecordFetchError
  <2>5. Indexed(c) => rows[c] \in Rows
    BY <2>1 DEF TypeInv, TypeOK, Indexed
  <2> HIDE DEF u, c
  <2>6. RowTellsVerdict'
    BY <2>1, <2>2, <2>3, <2>4, <2>5, UndisputedUrls
    DEF RowTellsVerdict, Indexed, Rows, TypeInv, TypeOK
  <2>7. QED  BY <1>0, <2>3, <2>6 DEF ClaimHeld
<1>5. CASE Index(t)
  <2> DEFINE u == job[t].url
             c == job[t].manifest.claim
             r == RowOf(job[t].manifest, job[t].log)
  <2>1. /\ u \in Urls /\ c \in Urls /\ Finish(t, "ok")
        /\ rows' = [rows EXCEPT ![c] = r]
    BY <1>5 DEF Index, UpsertManifest, TypeInv, JobOK, Manifests
  <2>2. \A w \in Undisputed : c = w <=> u = w
    BY <1>5, ReachedAsItself DEF Index, ClaimHeld, Honest, TypeInv, JobOK
  <2>3. pc'[t] = "idle" /\ verdict' = [verdict EXCEPT ![u] = "ok"]
    BY <2>1, FinishType DEF TypeInv, Finish, Ends
  <2>4. r.error = None
    BY DEF RowOf
  <2> HIDE DEF u, c, r
  <2>5. RowTellsVerdict'
    BY <2>1, <2>2, <2>3, <2>4, UndisputedUrls DEF RowTellsVerdict, Indexed, TypeInv, TypeOK
  <2>6. QED  BY <1>0, <2>3, <2>5 DEF ClaimHeld
<1>6. CASE IndexFails(t)
  <2>1. job[t].url \in Urls /\ Finish(t, "none") /\ UNCHANGED rows
    BY <1>6 DEF IndexFails, TypeInv, JobOK, Ends
  <2>2. pc'[t] = "idle" /\ verdict' = verdict
    BY <2>1, FinishType DEF TypeInv, Finish, Ends
  <2>3. RowTellsVerdict'
    BY <2>1, <2>2, VerdictKept
  <2>4. QED  BY <1>0, <2>2, <2>3 DEF ClaimHeld
<1>7. QED  BY <1>1, <1>2, <1>3, <1>4, <1>5, <1>6 DEF PollOne

LEMMA VerdictStart ==
  ASSUME TypeInv, VerdictInv, NEW t \in Threads, NEW u \in Urls, Start(t, u),
         queue' \in Seq(Urls), UNCHANGED <<site, rows, verdict>>
  PROVE  VerdictInv'
<1>1. \A s \in Threads : ClaimHeld(s) => ClaimHeld(s)'
  BY StartType DEF ClaimHeld
<1>2. QED  BY <1>1, VerdictKept DEF VerdictInv

LEMMA VerdictInit == Init => VerdictInv
BY UndisputedUrls DEF Init, FirstSite, VerdictInv, ClaimHeld, Honest, RowTellsVerdict

LEMMA VerdictStep ==
  ASSUME TypeInv, VerdictInv, ~DBErrors, [Next]_vars
  PROVE  VerdictInv'
<1>1. CASE Web
  BY <1>1, ClaimsStay, VerdictKept DEF Web, VerdictInv, ClaimHeld
<1>2. CASE Tick
  <2>1. \A u \in Urls : rows'[u] # None => rows[u] # None /\ rows'[u].error = rows[u].error
    BY <1>2 DEF Tick, TypeInv, TypeOK, Rows
  <2>2. QED  BY <1>2, <2>1, VerdictKept DEF Tick, VerdictInv, ClaimHeld
<1>3. CASE Restart
  <2>1. \A t \in Threads : ClaimHeld(t)'
    BY <1>3, RestartType DEF ClaimHeld
  <2>2. QED  BY <1>3, <2>1, VerdictKept DEF Restart, VerdictInv
<1>4. CASE PollDue
  BY <1>4, VerdictKept DEF PollDue, VerdictInv, ClaimHeld
<1>5. CASE PollNext
  <2>1. PICK u \in Urls : Start("poller", u)
    BY <1>5, PollNextStarts
  <2>2. QED  BY <1>5, <2>1, ThreadsAre, PollNextStarts, VerdictStart DEF PollNext
<1>6. ASSUME NEW t \in Threads, PollOne(t) PROVE VerdictInv'
  BY <1>6, VerdictPoll
<1>7. ASSUME NEW t \in Admins, NEW u \in Urls, Submit(t, u) PROVE VerdictInv'
  <2>1. queue' \in Seq(Urls)
    BY <1>7 DEF Submit, TypeInv, TypeOK
  <2>2. QED  BY <1>7, <2>1, ThreadsAre, VerdictStart DEF Submit
<1>8. CASE UNCHANGED vars
  BY <1>8, VerdictKept DEF vars, VerdictInv, ClaimHeld
<1>9. QED
  BY <1>1, <1>2, <1>3, <1>4, <1>5, <1>6, <1>7, <1>8, ThreadsAre DEF Next, Poller, Admin

\* As long as the database does its statements, the row of an identity that nobody
\* disputes shows the rejection of its last verdict, and no error after a success, however
\* many polls, submissions and restarts interleave, and whatever other hosts claim
\* (crawler.go:42-55, store.go:72-95).
THEOREM RowsTellVerdicts == ~DBErrors /\ Spec => []RowTellsVerdict
<1> DEFINE I == ~DBErrors /\ TypeInv /\ VerdictInv
<1>1. ~DBErrors /\ Init => I
  BY InitType, VerdictInit
<1>2. I /\ [Next]_vars => I'
  BY TypeStep, VerdictStep
<1>3. I => RowTellsVerdict
  BY DEF VerdictInv
<1>4. QED  BY <1>1, <1>2, <1>3, PTL DEF Spec
=============================================================================
