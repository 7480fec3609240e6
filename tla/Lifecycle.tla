----------------------------- MODULE Lifecycle -----------------------------
(***************************************************************************)
(* One walera process from main to exit: the startup checks against a      *)
(* database that another instance is starting against as well, App.Run     *)
(* with its three runnables and the readiness probe, and App.Shutdown with *)
(* its two timers.  The parts that other modules are about appear only     *)
(* with what the process does to them: the WAL reader is up, down or       *)
(* stopped (WalReader), the router is open or closed and a stream is open, *)
(* told to end, or gone (Broadcaster).                                     *)
(*                                                                         *)
(* Time exists only during Shutdown, in seconds: clock counts from its     *)
(* start.  Two things take time there, a handler that does not return and  *)
(* the close of the admin connection; every other step that can be taken   *)
(* is taken before the clock moves on.                                     *)
(***************************************************************************)
EXTENDS Integers

CONSTANTS
  Streams,   \* HTTP handlers
  Stuck,     \* those that do not return when they are told to
  WaitFor,   \* seconds that HTTPServer.Shutdown may take: 9
  Deadline   \* Config.Shutdown.Deadline, in seconds: 10

ASSUME LifecycleAssumption ==
  /\ Stuck \subseteq Streams
  /\ WaitFor \in Nat /\ Deadline \in Nat /\ WaitFor < Deadline

\* A publication: none, one that streams more than a list of tables, a list.
Publications == {"missing", "all", "schemas", "empty", "list"}

VARIABLES
  config,     \* the environment is valid, and whether WALERA_TABLES is set
  prereqs,    \* settings and role of the database are as required
  pub,        \* the publication
  main,       \* main's goroutine
  exit,       \* exit status, "none" while running
  ctxDone,    \* the context of NotifyContext is cancelled
  caught,     \* signals go to that context; otherwise they kill the process
  reader,     \* wal-reader
  ingest,     \* router-ingest
  http,       \* http-server
  probe,      \* the readiness goroutine
  ready,      \* Server.readyCache
  closed,     \* Broadcaster.closed
  stream,     \* handlers
  httpWave,   \* the goroutine that calls HTTPServer.Shutdown
  adminSlow,  \* closing the admin connection hangs
  clock       \* seconds since Shutdown began

envVars == <<config, prereqs, adminSlow>>
sigVars == <<ctxDone, caught>>
runVars == <<reader, ingest, http, probe, ready>>
shutVars == <<closed, httpWave, clock>>
vars == <<envVars, pub, main, exit, sigVars, runVars, stream, shutVars>>

Checks == {"config", "connect", "prereqs", "role", "lookup", "create",
           "schemas", "count", "headroom"}
Stopping == {"wave", "drain", "close"}

Init ==
  /\ config \in {"invalid", "no tables", "tables"}
  /\ prereqs \in BOOLEAN /\ adminSlow \in BOOLEAN
  /\ pub \in Publications
  /\ main = "config" /\ exit = "none"
  /\ ctxDone = FALSE /\ caught = FALSE
  /\ reader = "off" /\ ingest = "off" /\ http = "off" /\ probe = "off"
  /\ ready = "not yet probed"
  /\ closed = FALSE /\ stream = [s \in Streams |-> "none"]
  /\ httpWave = "none" /\ clock = 0

Alive == exit = "none"
----------------------------------------------------------------------------
(* main: each check is a query of its own, and a query that fails, or that *)
(* finds the context cancelled, ends the startup.                          *)

Goto(pc) ==
  /\ main' = pc
  /\ UNCHANGED <<envVars, pub, exit, sigVars, runVars, stream, shutVars>>

\* Before there is an admin connection, the process ends at once.
Fatal ==
  /\ Alive /\ main \in {"config", "connect"}
  /\ main = "config" => config = "invalid"
  /\ exit' = "1"
  /\ UNCHANGED <<envVars, pub, main, sigVars, runVars, stream, shutVars>>

\* Afterwards main closes the connection first.
PrepareDatabaseFails ==
  Alive /\ main \in Checks \ {"config", "connect", "headroom"} /\ Goto("abort")

\* Close(context.Background()), without a timer and with the signals caught,
\* and then the exit: a close that hangs is not left any more.
closeAdminConnOnErr ==
  /\ Alive /\ main = "abort" /\ ~adminSlow
  /\ exit' = "1"
  /\ UNCHANGED <<envVars, pub, main, sigVars, runVars, stream, shutVars>>

StartupFails == Fatal \/ PrepareDatabaseFails \/ closeAdminConnOnErr

\* LoadFromEnv, and NotifyContext, which takes the signals.
LoadFromEnv ==
  /\ Alive /\ main = "config" /\ config # "invalid"
  /\ main' = "connect" /\ caught' = TRUE
  /\ UNCHANGED <<envVars, pub, exit, ctxDone, runVars, stream, shutVars>>

NewAdminConn == Alive /\ main = "connect" /\ ~ctxDone /\ Goto("prereqs")

verifyPGPrereqs == Alive /\ main = "prereqs" /\ ~ctxDone /\ prereqs /\ Goto("role")

verifyReplicationRole == Alive /\ main = "role" /\ ~ctxDone /\ prereqs /\ Goto("lookup")

\* lookupPublication and what bootstrapPublication makes of it.
lookupPublication ==
  /\ Alive /\ main = "lookup" /\ ~ctxDone
  /\ \/ pub = "missing" /\ config = "tables" /\ Goto("create")
     \/ pub \notin {"missing", "all"} /\ Goto("schemas")

\* CREATE PUBLICATION ... FOR TABLE: an error if it is there by now.
createPublication ==
  /\ Alive /\ main = "create" /\ ~ctxDone
  /\ pub = "missing"
  /\ pub' = "list"
  /\ main' = "headroom"
  /\ UNCHANGED <<envVars, exit, sigVars, runVars, stream, shutVars>>

\* Fault: publications that include schemas are not looked for.
SchemasUnchecked == Alive /\ main = "schemas" /\ ~ctxDone /\ Goto("count")

publicationHasSchemas ==
  Alive /\ main = "schemas" /\ ~ctxDone /\ pub # "schemas" /\ Goto("count")

\* The table count; bootstrapVerifyTables only logs.
countTables ==
  Alive /\ main = "count" /\ ~ctxDone /\ pub # "empty" /\ Goto("headroom")

\* checkSlotHeadroom only logs; InitializeApp connects nothing.  Run starts the
\* probe and the runnables and then waits for the context.
Run ==
  /\ Alive /\ main = "headroom"
  /\ main' = "run"
  /\ reader' = "down" /\ ingest' = "on" /\ http' = "spawned" /\ probe' = "on"
  /\ UNCHANGED <<envVars, pub, exit, sigVars, ready, stream, shutVars>>

Startup ==
  \/ LoadFromEnv \/ NewAdminConn \/ verifyPGPrereqs \/ verifyReplicationRole
  \/ lookupPublication \/ createPublication \/ publicationHasSchemas
  \/ countTables \/ Run
----------------------------------------------------------------------------
(* The rest of the world.                                                  *)

\* Another instance that is starting, or an operator, creates the publication.
OtherCreates ==
  /\ pub = "missing"
  /\ pub' \in Publications \ {"missing"}
  /\ UNCHANGED <<envVars, main, exit, sigVars, runVars, stream, shutVars>>

\* SIGTERM or SIGINT: cancels the context, a second one is swallowed; before
\* NotifyContext and after stop() the process is killed.
Signal ==
  /\ Alive
  /\ \/ caught /\ ~ctxDone /\ ctxDone' = TRUE /\ exit' = exit
     \/ ~caught /\ exit' = "killed" /\ ctxDone' = ctxDone
  /\ UNCHANGED <<envVars, pub, main, caught, runVars, stream, shutVars>>

\* A client connects; a router that is closed tells it to end at once.
OpenStream(s) ==
  /\ Alive /\ http = "listening" /\ stream[s] = "none"
  /\ stream' = [stream EXCEPT ![s] = IF closed THEN "told" ELSE "open"]
  /\ UNCHANGED <<envVars, pub, main, exit, sigVars, runVars, shutVars>>

EndStream(s) ==
  /\ Alive /\ stream[s] = "told" /\ s \notin Stuck
  /\ stream' = [stream EXCEPT ![s] = "gone"]
  /\ UNCHANGED <<envVars, pub, main, exit, sigVars, runVars, shutVars>>
----------------------------------------------------------------------------
(* The runnables.  Only an error while the context is live cancels it.     *)

\* The reader: connected or not (Reader.connected).
ReaderUp ==
  /\ Alive /\ reader = "down" /\ ~ctxDone
  /\ reader' = "up"
  /\ UNCHANGED <<envVars, pub, main, exit, sigVars, ingest, http, probe, ready,
                 stream, shutVars>>

ReaderDown ==
  /\ Alive /\ reader = "up"
  /\ reader' = "down"
  /\ UNCHANGED <<envVars, pub, main, exit, sigVars, ingest, http, probe, ready,
                 stream, shutVars>>

ReaderStop ==
  /\ Alive /\ reader \in {"up", "down"} /\ ctxDone
  /\ reader' = "stopped"
  /\ UNCHANGED <<envVars, pub, main, exit, sigVars, ingest, http, probe, ready,
                 stream, shutVars>>

IngestStop ==
  /\ Alive /\ ingest = "on" /\ (ctxDone \/ reader = "stopped")
  /\ ingest' = "stopped"
  /\ UNCHANGED <<envVars, pub, main, exit, sigVars, reader, http, probe, ready,
                 stream, shutVars>>

\* ListenAndServe refuses to start after Shutdown (ErrServerClosed).
ListenAndServe ==
  /\ Alive /\ http = "spawned"
  /\ http' = IF httpWave = "none" THEN "listening" ELSE "closed"
  /\ UNCHANGED <<envVars, pub, main, exit, sigVars, reader, ingest, probe, ready,
                 stream, shutVars>>

\* A port that is taken or a listener that breaks: Run calls OnError, and with
\* it stop(), unless the context is cancelled already.
ListenFails ==
  /\ Alive /\ http \in {"spawned", "listening"} /\ httpWave = "none"
  /\ http' = "failed"
  /\ ctxDone' = TRUE /\ caught' = (caught /\ ctxDone)
  /\ UNCHANGED <<envVars, pub, main, exit, reader, ingest, probe, ready, stream,
                 shutVars>>

\* Fault: the probe runs once, at the start.
ProbeOnce ==
  /\ Alive /\ probe = "on"
  /\ ready = "not yet probed"
  /\ ready' = IF reader = "up" THEN "ok" ELSE "pg disconnected"
  /\ UNCHANGED <<envVars, pub, main, exit, sigVars, reader, ingest, http, probe,
                 stream, shutVars>>

\* CheckPG, every five seconds.
Probe ==
  /\ Alive /\ probe = "on"
  /\ ready' = IF reader = "up" THEN "ok" ELSE "pg disconnected"
  /\ UNCHANGED <<envVars, pub, main, exit, sigVars, reader, ingest, http, probe,
                 stream, shutVars>>

ProbeStop ==
  /\ Alive /\ probe = "on" /\ ctxDone
  /\ probe' = "stopped"
  /\ UNCHANGED <<envVars, pub, main, exit, sigVars, reader, ingest, http, ready,
                 stream, shutVars>>
----------------------------------------------------------------------------
(* App.Shutdown.                                                           *)

RunReturns ==
  /\ Alive /\ main = "run" /\ ctxDone
  /\ main' = "wave"
  /\ UNCHANGED <<envVars, pub, exit, sigVars, runVars, stream, shutVars>>

\* The wave's first goroutine: the listener closes at once, then the handlers
\* are waited for.
HTTPShutdown ==
  /\ Alive /\ main = "wave" /\ httpWave = "none"
  /\ httpWave' = "waiting"
  /\ http' = IF http = "listening" THEN "closed" ELSE http
  /\ UNCHANGED <<envVars, pub, main, exit, sigVars, reader, ingest, probe, ready,
                 stream, closed, clock>>

NobodyServed == \A s \in Streams : stream[s] \in {"none", "gone"}

\* Fault: more time for the handlers than the process has.
WaitTooLong == Deadline + 1

HTTPTimeout == WaitFor

HTTPShutdownReturns ==
  /\ Alive /\ httpWave = "waiting"
  /\ NobodyServed \/ clock = HTTPTimeout
  /\ httpWave' = "done"
  /\ UNCHANGED <<envVars, pub, main, exit, sigVars, runVars, stream, closed, clock>>

\* The second: Broadcaster.Shutdown tells every stream, later ones included.
RouterShutdown ==
  /\ Alive /\ main = "wave" /\ ~closed
  /\ closed' = TRUE
  /\ stream' = [s \in Streams |-> IF stream[s] = "open" THEN "told" ELSE stream[s]]
  /\ UNCHANGED <<envVars, pub, main, exit, sigVars, runVars, httpWave, clock>>

\* wg.Wait and stop().
WaveEnds ==
  /\ Alive /\ main = "wave" /\ httpWave = "done" /\ closed
  /\ main' = "drain" /\ caught' = FALSE
  /\ UNCHANGED <<envVars, pub, exit, ctxDone, runVars, stream, shutVars>>

\* Fault: the channel is not waited for.
DrainNothing == Alive /\ main = "drain" /\ Goto("close")

\* txCh is emptied until the reader closes it.
Drain == Alive /\ main = "drain" /\ reader = "stopped" /\ Goto("close")

\* The admin connection is closed and main returns.
Return ==
  /\ Alive /\ main = "close" /\ ~adminSlow
  /\ exit' = "0"
  /\ UNCHANGED <<envVars, pub, main, sigVars, runVars, stream, shutVars>>

\* Fault: no timer.
NeverForced == Alive /\ clock > Deadline /\ Goto("close")

forceTimer ==
  /\ Alive /\ main \in Stopping /\ clock = Deadline
  /\ exit' = "1"
  /\ UNCHANGED <<envVars, pub, main, sigVars, runVars, stream, shutVars>>

\* Time passes while nothing but a stuck handler or the close is waited for.
Tick ==
  /\ Alive /\ main \in Stopping /\ clock < Deadline
  /\ reader = "stopped" /\ closed /\ main # "drain"
  /\ \A s \in Streams \ Stuck : stream[s] \in {"none", "gone"}
  /\ \/ httpWave = "waiting" /\ ~NobodyServed /\ clock # HTTPTimeout
     \/ main = "close" /\ adminSlow
  /\ clock' = clock + 1
  /\ UNCHANGED <<envVars, pub, main, exit, sigVars, runVars, stream, closed,
                 httpWave>>

Shutdown ==
  \/ RunReturns \/ HTTPShutdown \/ HTTPShutdownReturns \/ RouterShutdown
  \/ WaveEnds \/ Drain \/ Return
----------------------------------------------------------------------------
Next ==
  \/ Startup \/ StartupFails \/ OtherCreates \/ Signal
  \/ \E s \in Streams : OpenStream(s) \/ EndStream(s)
  \/ ReaderUp \/ ReaderDown \/ ReaderStop \/ IngestStop \/ ListenAndServe \/ ListenFails
  \/ Probe \/ ProbeStop \/ Shutdown \/ forceTimer \/ Tick

Spec == Init /\ [][Next]_vars

\* Goroutines run, timers fire, queries return.  Nothing makes clients or
\* signals come, connections hold or stuck handlers return.
FairSpec ==
  /\ Spec
  /\ WF_vars(Startup \/ StartupFails) /\ WF_vars(Shutdown)
  /\ WF_vars(forceTimer) /\ WF_vars(Tick)
  /\ WF_vars(ReaderStop) /\ WF_vars(IngestStop) /\ WF_vars(Probe)
  /\ \A s \in Streams : WF_vars(EndStream(s))
----------------------------------------------------------------------------
(* Properties.                                                             *)

FlagTypeOK ==
  /\ prereqs \in BOOLEAN /\ adminSlow \in BOOLEAN
  /\ ctxDone \in BOOLEAN /\ caught \in BOOLEAN /\ closed \in BOOLEAN

MainTypeOK ==
  /\ config \in {"invalid", "no tables", "tables"} /\ pub \in Publications
  /\ main \in Checks \cup {"abort", "run"} \cup Stopping
  /\ exit \in {"none", "0", "1", "killed"}

RunTypeOK ==
  /\ reader \in {"off", "down", "up", "stopped"}
  /\ ingest \in {"off", "on", "stopped"}
  /\ http \in {"off", "spawned", "listening", "failed", "closed"}
  /\ probe \in {"off", "on", "stopped"}
  /\ ready \in {"not yet probed", "ok", "pg disconnected"}

StopTypeOK ==
  /\ stream \in [Streams -> {"none", "open", "told", "gone"}]
  /\ httpWave \in {"none", "waiting", "done"} /\ clock \in 0 .. Deadline

\* Every variable keeps its type.
TypeOK == FlagTypeOK /\ MainTypeOK /\ RunTypeOK /\ StopTypeOK

\* "No broad publications" (docs/architecture.md): nothing is streamed, and no
\* instance reports ready, unless settings and role were as required and the
\* publication is a list of tables, whoever created it meanwhile.
OnlyListsAreStreamed ==
  (reader = "up" \/ ready = "ok") => prereqs /\ pub = "list"

\* Exit status 0 means that nothing was left behind: the reader has closed its
\* channel (and with it the slot), nothing listens, and every client was told.
CleanExit ==
  exit = "0" => /\ reader = "stopped" /\ http # "listening" /\ closed
                /\ \A s \in Streams : stream[s] # "open"

\* Handlers that never return do not cost the process its clean exit: once Run
\* is told to stop, waiting for them, the wave, the drain and the close all fit
\* before the 10 s timer, so that only a close that hangs, or a second signal
\* after stop(), keeps the exit status from being 0.
StuckHandlersExitCleanly ==
  (main = "run" /\ ctxDone /\ ~adminSlow) ~> exit \in {"0", "killed"}

\* A signal, or a runnable that fails, ends the process, whatever hangs in
\* Shutdown (docs/architecture.md: "A 10 s timer forces exit if anything
\* hangs").  The exception is what no timer watches: a startup check failed and
\* the close of the admin connection, with context.Background(), hangs.
ProcessEnds ==
  (ctxDone \/ http = "failed") ~> (exit # "none" \/ (main = "abort" /\ adminSlow))

\* /readyz does not stay 200 over a lost replication connection.
ReadinessFollows ==
  (ready = "ok" /\ reader = "down") ~> (ready # "ok" \/ reader # "down" \/ ctxDone)
=============================================================================
