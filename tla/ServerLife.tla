----------------------------- MODULE ServerLife -----------------------------
(***************************************************************************)
(* The life of a catalog server (api/cmd/server/main.go): it migrates the  *)
(* database, starts the poller and the HTTP server, and ends on a signal.  *)
(* The poller (RunLoop) and a request's handler are workers; what they do  *)
(* with the index is in Crawler and CatalogReads, here they take a         *)
(* connection of the pool for a statement or a transaction and give it     *)
(* back.                                                                   *)
(*                                                                         *)
(* net/http and pgx are what they document: ListenAndServe returns as soon *)
(* as Shutdown is called, Pool.Close refuses new connections and waits for *)
(* those in use, and a statement under a cancelled context fails.          *)
(***************************************************************************)
EXTENDS Migrations

VARIABLES
  signalled,  \* the servers whose context is cancelled
  server,     \* server[s]: port and pool are "off", "open" or "closing"
  worker      \* worker[s]: the poller and one request, "none", "busy" or "statement" each

lifeVars == <<signalled, server, worker>>
allVars == <<vars, lifeVars>>

Workers == {"poller", "request"}
Nobody == [w \in Workers |-> "none"]

LifeInit ==
  /\ Init
  /\ signalled = {}
  /\ server = [s \in Servers |-> "off"]
  /\ worker = [s \in Servers |-> Nobody]

\* The process of s is gone, with what hangs from it.
Gone(s) ==
  /\ signalled' = signalled \ {s}
  /\ server' = [server EXCEPT ![s] = "off"]
  /\ worker' = [worker EXCEPT ![s] = Nobody]

StartServer(s) == Start(s) /\ UNCHANGED lifeVars

\* A step of Open.
Migrating(s) == migrate(s) /\ UNCHANGED lifeVars

\* Open fails, and run with it; under a cancelled context its next statement does.
OpenFails(s) ==
  /\ \/ RecordFails(s)
     \/ /\ s \in signalled /\ pc[s] \in {"query", "next", "record", "commit"}
        /\ Ends(s) /\ UNCHANGED fails
  /\ Gone(s)

\* Open has returned: go RunLoop, which polls at once, and ListenAndServe.
Listen(s) ==
  /\ Serve(s)
  /\ server' = [server EXCEPT ![s] = "open"]
  /\ worker' = [worker EXCEPT ![s].poller = "busy"]
  /\ UNCHANGED signalled

\* ListenAndServe fails: the port is in use, or accepting connections ends.
ListenFails(s) ==
  /\ server[s] = "open" /\ fails < MaxFails
  /\ server' = [server EXCEPT ![s] = "closing"]
  /\ fails' = fails + 1
  /\ UNCHANGED <<schema, recorded, build, applied, todo, pc, signalled, worker>>

\* The ticker fires, also when the context has ended: select takes either.
Tick(s) ==
  /\ pc[s] = "serving" /\ worker[s].poller = "none"
  /\ worker' = [worker EXCEPT ![s].poller = "busy"]
  /\ UNCHANGED <<vars, signalled, server>>

Request(s) ==
  /\ server[s] = "open" /\ worker[s].request = "none"
  /\ worker' = [worker EXCEPT ![s].request = "busy"]
  /\ UNCHANGED <<vars, signalled, server>>

\* A handler's context is its request's own and knows nothing of the signal.
Acquire(s, w) ==
  /\ worker[s][w] = "busy" /\ server[s] = "open"
  /\ w = "poller" => s \notin signalled
  /\ worker' = [worker EXCEPT ![s][w] = "statement"]
  /\ UNCHANGED <<vars, signalled, server>>

\* The transaction is committed or has failed.
Release(s, w) ==
  /\ worker[s][w] = "statement"
  /\ worker' = [worker EXCEPT ![s][w] = "busy"]
  /\ UNCHANGED <<vars, signalled, server>>

\* The round or the request is over, be it with an error.
Done(s, w) ==
  /\ worker[s][w] = "busy"
  /\ worker' = [worker EXCEPT ![s][w] = "none"]
  /\ UNCHANGED <<vars, signalled, server>>

Signal(s) ==
  /\ pc[s] # "down" /\ s \notin signalled
  /\ signalled' = signalled \cup {s}
  /\ UNCHANGED <<vars, server, worker>>

\* Mutant: Shutdown waits for a moment without requests before it closes the port.
ShutdownWhenIdle(s) ==
  /\ s \in signalled /\ server[s] = "open" /\ worker[s].request = "none"
  /\ server' = [server EXCEPT ![s] = "closing"]
  /\ UNCHANGED <<vars, signalled, worker>>

\* Shutdown begins: ListenAndServe returns, requests that are being handled or not, and
\* run with it, which calls pool.Close.
Shutdown(s) ==
  /\ s \in signalled /\ server[s] = "open"
  /\ server' = [server EXCEPT ![s] = "closing"]
  /\ UNCHANGED <<vars, signalled, worker>>

\* Close has returned, main too; requests that hold no connection are cut short.
Exit(s) ==
  /\ pc[s] = "serving" /\ server[s] = "closing"
  /\ \A w \in Workers : worker[s][w] # "statement"
  /\ Ends(s) /\ Gone(s)
  /\ UNCHANGED fails

Crash(s) == Stop(s) /\ Gone(s)

run(s) ==
  Migrating(s) \/ OpenFails(s) \/ Listen(s) \/ Shutdown(s) \/ Exit(s)

LifeNext == \E s \in Servers :
  \/ StartServer(s) \/ run(s) \/ ListenFails(s) \/ Crash(s)
  \/ Tick(s) \/ Request(s) \/ Signal(s)
  \/ \E w \in Workers : Acquire(s, w) \/ Release(s, w) \/ Done(s, w)

\* A process runs on, and the database ends each statement and lets those that wait
\* for a row have it in turn (hence SF: others may be started and stopped without end).
\* Nothing starts a process, sends a signal or ends a handler.
LifeSpec ==
  /\ LifeInit /\ [][LifeNext]_allVars
  /\ \A s \in Servers : SF_allVars(run(s))
  /\ \A s \in Servers, w \in Workers : WF_allVars(Release(s, w))

-----------------------------------------------------------------------------
\* Properties.

LifeTypeOK ==
  /\ TypeOK
  /\ signalled \subseteq {s \in Servers : pc[s] # "down"}
  /\ server \in [Servers -> {"off", "open", "closing"}]
  /\ worker \in [Servers -> [Workers -> {"none", "busy", "statement"}]]

\* Polls and requests run only on a schema with all migrations of their server's
\* build, whichever other servers start, migrate or end meanwhile.
\* (db.go:61-63, main.go:47-62)
WorksOnItsSchema ==
  \A s \in Servers : worker[s] # Nobody => build[s] \subseteq ToSet(schema)

\* A server that starts either comes to serve or exits: servers that migrate side
\* by side never wait for each other for good.
StartDecides ==
  \A s \in Servers : pc[s] = "query" ~> pc[s] \in {"serving", "down"}

\* A server that has its signal ends, also while it migrates, polls or is asked
\* without a pause.  (main.go:66-73)
SignalEnds == \A s \in Servers : s \in signalled ~> pc[s] = "down"
=============================================================================
