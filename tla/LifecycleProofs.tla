-------------------------- MODULE LifecycleProofs --------------------------
(***************************************************************************)
(* Theorems about Lifecycle, for every set of handlers, stuck or not, and  *)
(* every pair of timers of which the first is the shorter.                 *)
(***************************************************************************)
EXTENDS Lifecycle, TLAPS

LEMMA TimerTypes == WaitFor \in Nat /\ Deadline \in Nat /\ WaitFor < Deadline
BY LifecycleAssumption

Running == {"run"} \cup Stopping

\* What main has found out by the time it is at pc, and what the runnables
\* are before it has started them.
StartInv ==
  /\ main \in {"lookup", "create", "schemas", "count", "headroom"} \cup Running
       => prereqs
  /\ main \in {"schemas", "count", "headroom"} \cup Running
       => pub \notin {"missing", "all"}
  /\ main \in {"count", "headroom"} \cup Running => pub # "schemas"
  /\ main \in {"headroom"} \cup Running => pub = "list"
  /\ main \notin Running =>
       reader = "off" /\ http = "off" /\ probe = "off" /\ ready = "not yet probed"

\* How far Shutdown has got: the listener before the handlers are waited for,
\* the wave before the drain, the drain before the close, and the clock.
StopInv ==
  /\ main \notin Stopping => httpWave = "none" /\ ~closed /\ clock = 0
  /\ httpWave # "none" => http # "listening"
  /\ main \in {"drain", "close"} => httpWave = "done" /\ closed
  /\ main = "close" \/ exit = "0" => reader = "stopped"
  /\ exit = "0" => main = "close"
  /\ closed => \A s \in Streams : stream[s] # "open"
  /\ httpWave = "none" => clock = 0
  /\ httpWave = "waiting" => clock <= WaitFor

LifeInv == TypeOK /\ StartInv /\ StopInv

LEMMA InitLife == Init => LifeInv
<1> SUFFICES ASSUME Init PROVE LifeInv
  OBVIOUS
<1>1. TypeOK
  <2>1. FlagTypeOK
    BY DEF Init, FlagTypeOK
  <2>2. MainTypeOK /\ RunTypeOK
    BY DEF Init, MainTypeOK, RunTypeOK, Publications, Checks
  <2>3. StopTypeOK
    <3>1. stream = [s \in Streams |-> "none"] /\ httpWave = "none" /\ clock = 0
      BY DEF Init
    <3> QED BY <3>1, TimerTypes DEF StopTypeOK
  <2> QED BY <2>1, <2>2, <2>3 DEF TypeOK
<1>2. StartInv
  BY DEF Init, StartInv, Running, Stopping
<1>3. StopInv
  BY DEF Init, StopInv, Stopping
<1> QED BY <1>1, <1>2, <1>3 DEF LifeInv

\* main up to Run, the publication that others make, and the signals.
LEMMA StartupLife ==
  ASSUME LifeInv, Startup \/ StartupFails \/ OtherCreates \/ Signal
  PROVE  LifeInv'
<1> USE TimerTypes DEF LifeInv, TypeOK, Goto, envVars, sigVars, runVars, shutVars,
        Running, Stopping, Checks, Publications, HTTPTimeout
<1>1. CASE LoadFromEnv
  <2>1. FlagTypeOK'
    BY <1>1 DEF FlagTypeOK, LoadFromEnv
  <2>2. MainTypeOK'
    BY <1>1 DEF MainTypeOK, LoadFromEnv
  <2>3. RunTypeOK'
    BY <1>1 DEF RunTypeOK, LoadFromEnv
  <2>4. StopTypeOK'
    BY <1>1 DEF StopTypeOK, LoadFromEnv
  <2>5. StartInv'
    BY <1>1 DEF StartInv, LoadFromEnv
  <2>6. StopInv'
    BY <1>1 DEF StopInv, LoadFromEnv
  <2> QED BY <2>1, <2>2, <2>3, <2>4, <2>5, <2>6
<1>2. CASE NewAdminConn
  <2>1. FlagTypeOK'
    BY <1>2 DEF FlagTypeOK, NewAdminConn
  <2>2. MainTypeOK'
    BY <1>2 DEF MainTypeOK, NewAdminConn
  <2>3. RunTypeOK'
    BY <1>2 DEF RunTypeOK, NewAdminConn
  <2>4. StopTypeOK'
    BY <1>2 DEF StopTypeOK, NewAdminConn
  <2>5. StartInv'
    BY <1>2 DEF StartInv, NewAdminConn
  <2>6. StopInv'
    BY <1>2 DEF StopInv, NewAdminConn
  <2> QED BY <2>1, <2>2, <2>3, <2>4, <2>5, <2>6
<1>3. CASE verifyPGPrereqs
  <2>1. FlagTypeOK'
    BY <1>3 DEF FlagTypeOK, verifyPGPrereqs
  <2>2. MainTypeOK'
    BY <1>3 DEF MainTypeOK, verifyPGPrereqs
  <2>3. RunTypeOK'
    BY <1>3 DEF RunTypeOK, verifyPGPrereqs
  <2>4. StopTypeOK'
    BY <1>3 DEF StopTypeOK, verifyPGPrereqs
  <2>5. StartInv'
    BY <1>3 DEF StartInv, verifyPGPrereqs
  <2>6. StopInv'
    BY <1>3 DEF StopInv, verifyPGPrereqs
  <2> QED BY <2>1, <2>2, <2>3, <2>4, <2>5, <2>6
<1>4. CASE verifyReplicationRole
  <2>1. FlagTypeOK'
    BY <1>4 DEF FlagTypeOK, verifyReplicationRole
  <2>2. MainTypeOK'
    BY <1>4 DEF MainTypeOK, verifyReplicationRole
  <2>3. RunTypeOK'
    BY <1>4 DEF RunTypeOK, verifyReplicationRole
  <2>4. StopTypeOK'
    BY <1>4 DEF StopTypeOK, verifyReplicationRole
  <2>5. StartInv'
    BY <1>4 DEF StartInv, verifyReplicationRole
  <2>6. StopInv'
    BY <1>4 DEF StopInv, verifyReplicationRole
  <2> QED BY <2>1, <2>2, <2>3, <2>4, <2>5, <2>6
<1>5. CASE lookupPublication
  <2>1. FlagTypeOK'
    BY <1>5 DEF FlagTypeOK, lookupPublication
  <2>2. MainTypeOK'
    BY <1>5 DEF MainTypeOK, lookupPublication
  <2>3. RunTypeOK'
    BY <1>5 DEF RunTypeOK, lookupPublication
  <2>4. StopTypeOK'
    BY <1>5 DEF StopTypeOK, lookupPublication
  <2>5. StartInv'
    <3>1. \/ main' = "create"
          \/ main' = "schemas" /\ pub \notin {"missing", "all"}
      BY <1>5 DEF lookupPublication
    <3>2. prereqs /\ reader = "off" /\ http = "off" /\ probe = "off"
          /\ ready = "not yet probed"
      BY <1>5 DEF StartInv, lookupPublication
    <3>3. UNCHANGED <<prereqs, pub, reader, http, probe, ready>>
      BY <1>5 DEF lookupPublication
    <3> QED BY <3>1, <3>2, <3>3 DEF StartInv
  <2>6. StopInv'
    <3>1. main = "lookup" /\ main' \in {"create", "schemas"}
      BY <1>5 DEF lookupPublication
    <3>2. UNCHANGED <<httpWave, closed, clock, http, exit, reader, stream>>
      BY <1>5 DEF lookupPublication
    <3> QED BY <3>1, <3>2 DEF StopInv
  <2> QED BY <2>1, <2>2, <2>3, <2>4, <2>5, <2>6
<1>6. CASE createPublication
  <2>1. FlagTypeOK'
    BY <1>6 DEF FlagTypeOK, createPublication
  <2>2. MainTypeOK'
    BY <1>6 DEF MainTypeOK, createPublication
  <2>3. RunTypeOK'
    BY <1>6 DEF RunTypeOK, createPublication
  <2>4. StopTypeOK'
    BY <1>6 DEF StopTypeOK, createPublication
  <2>5. StartInv'
    BY <1>6 DEF StartInv, createPublication
  <2>6. StopInv'
    BY <1>6 DEF StopInv, createPublication
  <2> QED BY <2>1, <2>2, <2>3, <2>4, <2>5, <2>6
<1>7. CASE publicationHasSchemas
  <2>1. FlagTypeOK'
    BY <1>7 DEF FlagTypeOK, publicationHasSchemas
  <2>2. MainTypeOK'
    BY <1>7 DEF MainTypeOK, publicationHasSchemas
  <2>3. RunTypeOK'
    BY <1>7 DEF RunTypeOK, publicationHasSchemas
  <2>4. StopTypeOK'
    BY <1>7 DEF StopTypeOK, publicationHasSchemas
  <2>5. StartInv'
    BY <1>7 DEF StartInv, publicationHasSchemas
  <2>6. StopInv'
    BY <1>7 DEF StopInv, publicationHasSchemas
  <2> QED BY <2>1, <2>2, <2>3, <2>4, <2>5, <2>6
<1>8. CASE countTables
  <2>1. FlagTypeOK'
    BY <1>8 DEF FlagTypeOK, countTables
  <2>2. MainTypeOK'
    BY <1>8 DEF MainTypeOK, countTables
  <2>3. RunTypeOK'
    BY <1>8 DEF RunTypeOK, countTables
  <2>4. StopTypeOK'
    BY <1>8 DEF StopTypeOK, countTables
  <2>5. StartInv'
    BY <1>8 DEF StartInv, MainTypeOK, countTables
  <2>6. StopInv'
    BY <1>8 DEF StopInv, countTables
  <2> QED BY <2>1, <2>2, <2>3, <2>4, <2>5, <2>6
<1>9. CASE Run
  <2>1. FlagTypeOK'
    BY <1>9 DEF FlagTypeOK, Run
  <2>2. MainTypeOK'
    BY <1>9 DEF MainTypeOK, Run
  <2>3. RunTypeOK'
    BY <1>9 DEF RunTypeOK, Run
  <2>4. StopTypeOK'
    BY <1>9 DEF StopTypeOK, Run
  <2>5. StartInv'
    BY <1>9 DEF StartInv, Run
  <2>6. StopInv'
    BY <1>9 DEF StopInv, Run
  <2> QED BY <2>1, <2>2, <2>3, <2>4, <2>5, <2>6
<1>10. CASE Fatal
  <2>1. FlagTypeOK'
    BY <1>10 DEF FlagTypeOK, Fatal
  <2>2. MainTypeOK'
    BY <1>10 DEF MainTypeOK, Fatal
  <2>3. RunTypeOK'
    BY <1>10 DEF RunTypeOK, Fatal
  <2>4. StopTypeOK'
    BY <1>10 DEF StopTypeOK, Fatal
  <2>5. StartInv'
    BY <1>10 DEF StartInv, Fatal
  <2>6. StopInv'
    BY <1>10 DEF StopInv, Fatal
  <2> QED BY <2>1, <2>2, <2>3, <2>4, <2>5, <2>6
<1>11. CASE OtherCreates
  <2>1. FlagTypeOK'
    BY <1>11 DEF FlagTypeOK, OtherCreates
  <2>2. MainTypeOK'
    BY <1>11 DEF MainTypeOK, OtherCreates
  <2>3. RunTypeOK'
    BY <1>11 DEF RunTypeOK, OtherCreates
  <2>4. StopTypeOK'
    BY <1>11 DEF StopTypeOK, OtherCreates
  <2>5. StartInv'
    BY <1>11 DEF StartInv, OtherCreates
  <2>6. StopInv'
    BY <1>11 DEF StopInv, OtherCreates
  <2> QED BY <2>1, <2>2, <2>3, <2>4, <2>5, <2>6
<1>12. CASE Signal
  <2>1. FlagTypeOK'
    BY <1>12 DEF FlagTypeOK, Signal
  <2>2. MainTypeOK'
    BY <1>12 DEF MainTypeOK, Signal
  <2>3. RunTypeOK'
    BY <1>12 DEF RunTypeOK, Signal
  <2>4. StopTypeOK'
    BY <1>12 DEF StopTypeOK, Signal
  <2>5. StartInv'
    BY <1>12 DEF StartInv, Signal
  <2>6. StopInv'
    BY <1>12 DEF StopInv, Signal
  <2> QED BY <2>1, <2>2, <2>3, <2>4, <2>5, <2>6
<1>13. CASE PrepareDatabaseFails
  <2>1. FlagTypeOK'
    BY <1>13 DEF FlagTypeOK, PrepareDatabaseFails
  <2>2. MainTypeOK'
    BY <1>13 DEF MainTypeOK, PrepareDatabaseFails
  <2>3. RunTypeOK'
    BY <1>13 DEF RunTypeOK, PrepareDatabaseFails
  <2>4. StopTypeOK'
    BY <1>13 DEF StopTypeOK, PrepareDatabaseFails
  <2>5. StartInv'
    BY <1>13 DEF StartInv, PrepareDatabaseFails
  <2>6. StopInv'
    BY <1>13 DEF StopInv, PrepareDatabaseFails
  <2> QED BY <2>1, <2>2, <2>3, <2>4, <2>5, <2>6
<1>14. CASE closeAdminConnOnErr
  <2>1. FlagTypeOK'
    BY <1>14 DEF FlagTypeOK, closeAdminConnOnErr
  <2>2. MainTypeOK'
    BY <1>14 DEF MainTypeOK, closeAdminConnOnErr
  <2>3. RunTypeOK'
    BY <1>14 DEF RunTypeOK, closeAdminConnOnErr
  <2>4. StopTypeOK'
    BY <1>14 DEF StopTypeOK, closeAdminConnOnErr
  <2>5. StartInv'
    BY <1>14 DEF StartInv, closeAdminConnOnErr
  <2>6. StopInv'
    BY <1>14 DEF StopInv, closeAdminConnOnErr
  <2> QED BY <2>1, <2>2, <2>3, <2>4, <2>5, <2>6
<1> QED
  BY <1>1, <1>2, <1>3, <1>4, <1>5, <1>6, <1>7, <1>8, <1>9, <1>10, <1>11, <1>12, <1>13,
     <1>14 DEF Startup, StartupFails

\* Clients and runnables.
LEMMA RunLife ==
  ASSUME LifeInv,
         \/ \E s \in Streams : OpenStream(s) \/ EndStream(s)
         \/ ReaderUp \/ ReaderDown \/ ReaderStop \/ IngestStop
         \/ ListenAndServe \/ ListenFails \/ Probe \/ ProbeStop
  PROVE  LifeInv'
<1> USE TimerTypes DEF LifeInv, TypeOK, Goto, envVars, sigVars, runVars, shutVars,
        Running, Stopping, Checks, Publications, HTTPTimeout
<1>1. ASSUME NEW s \in Streams, OpenStream(s)
      PROVE  LifeInv'
  <2>1. FlagTypeOK'
    BY <1>1 DEF FlagTypeOK, OpenStream
  <2>2. MainTypeOK'
    BY <1>1 DEF MainTypeOK, OpenStream
  <2>3. RunTypeOK'
    BY <1>1 DEF RunTypeOK, OpenStream
  <2>4. StopTypeOK'
    BY <1>1 DEF StopTypeOK, OpenStream
  <2>5. StartInv'
    BY <1>1 DEF StartInv, OpenStream
  <2>6. StopInv'
    BY <1>1 DEF StopInv, OpenStream
  <2> QED BY <2>1, <2>2, <2>3, <2>4, <2>5, <2>6
<1>2. ASSUME NEW s \in Streams, EndStream(s)
      PROVE  LifeInv'
  <2>1. FlagTypeOK'
    BY <1>2 DEF FlagTypeOK, EndStream
  <2>2. MainTypeOK'
    BY <1>2 DEF MainTypeOK, EndStream
  <2>3. RunTypeOK'
    BY <1>2 DEF RunTypeOK, EndStream
  <2>4. StopTypeOK'
    BY <1>2 DEF StopTypeOK, EndStream
  <2>5. StartInv'
    BY <1>2 DEF StartInv, EndStream
  <2>6. StopInv'
    BY <1>2 DEF StopInv, EndStream
  <2> QED BY <2>1, <2>2, <2>3, <2>4, <2>5, <2>6
<1>3. CASE ReaderUp
  <2>1. FlagTypeOK'
    BY <1>3 DEF FlagTypeOK, ReaderUp
  <2>2. MainTypeOK'
    BY <1>3 DEF MainTypeOK, ReaderUp
  <2>3. RunTypeOK'
    BY <1>3 DEF RunTypeOK, ReaderUp
  <2>4. StopTypeOK'
    BY <1>3 DEF StopTypeOK, ReaderUp
  <2>5. StartInv'
    BY <1>3 DEF StartInv, ReaderUp
  <2>6. StopInv'
    BY <1>3 DEF StopInv, ReaderUp
  <2> QED BY <2>1, <2>2, <2>3, <2>4, <2>5, <2>6
<1>4. CASE ReaderDown
  <2>1. FlagTypeOK'
    BY <1>4 DEF FlagTypeOK, ReaderDown
  <2>2. MainTypeOK'
    BY <1>4 DEF MainTypeOK, ReaderDown
  <2>3. RunTypeOK'
    BY <1>4 DEF RunTypeOK, ReaderDown
  <2>4. StopTypeOK'
    BY <1>4 DEF StopTypeOK, ReaderDown
  <2>5. StartInv'
    BY <1>4 DEF StartInv, ReaderDown
  <2>6. StopInv'
    BY <1>4 DEF StopInv, ReaderDown
  <2> QED BY <2>1, <2>2, <2>3, <2>4, <2>5, <2>6
<1>5. CASE ReaderStop
  <2>1. FlagTypeOK'
    BY <1>5 DEF FlagTypeOK, ReaderStop
  <2>2. MainTypeOK'
    BY <1>5 DEF MainTypeOK, ReaderStop
  <2>3. RunTypeOK'
    BY <1>5 DEF RunTypeOK, ReaderStop
  <2>4. StopTypeOK'
    BY <1>5 DEF StopTypeOK, ReaderStop
  <2>5. StartInv'
    BY <1>5 DEF StartInv, ReaderStop
  <2>6. StopInv'
    BY <1>5 DEF StopInv, ReaderStop
  <2> QED BY <2>1, <2>2, <2>3, <2>4, <2>5, <2>6
<1>6. CASE IngestStop
  <2>1. FlagTypeOK'
    BY <1>6 DEF FlagTypeOK, IngestStop
  <2>2. MainTypeOK'
    BY <1>6 DEF MainTypeOK, IngestStop
  <2>3. RunTypeOK'
    BY <1>6 DEF RunTypeOK, IngestStop
  <2>4. StopTypeOK'
    BY <1>6 DEF StopTypeOK, IngestStop
  <2>5. StartInv'
    BY <1>6 DEF StartInv, IngestStop
  <2>6. StopInv'
    BY <1>6 DEF StopInv, IngestStop
  <2> QED BY <2>1, <2>2, <2>3, <2>4, <2>5, <2>6
<1>7. CASE ListenAndServe
  <2>1. FlagTypeOK'
    BY <1>7 DEF FlagTypeOK, ListenAndServe
  <2>2. MainTypeOK'
    BY <1>7 DEF MainTypeOK, ListenAndServe
  <2>3. RunTypeOK'
    BY <1>7 DEF RunTypeOK, ListenAndServe
  <2>4. StopTypeOK'
    BY <1>7 DEF StopTypeOK, ListenAndServe
  <2>5. StartInv'
    BY <1>7 DEF StartInv, ListenAndServe
  <2>6. StopInv'
    BY <1>7 DEF StopInv, ListenAndServe
  <2> QED BY <2>1, <2>2, <2>3, <2>4, <2>5, <2>6
<1>8. CASE ListenFails
  <2>1. FlagTypeOK'
    BY <1>8 DEF FlagTypeOK, ListenFails
  <2>2. MainTypeOK'
    BY <1>8 DEF MainTypeOK, ListenFails
  <2>3. RunTypeOK'
    BY <1>8 DEF RunTypeOK, ListenFails
  <2>4. StopTypeOK'
    BY <1>8 DEF StopTypeOK, ListenFails
  <2>5. StartInv'
    BY <1>8 DEF StartInv, ListenFails
  <2>6. StopInv'
    BY <1>8 DEF StopInv, ListenFails
  <2> QED BY <2>1, <2>2, <2>3, <2>4, <2>5, <2>6
<1>9. CASE Probe
  <2>1. FlagTypeOK'
    BY <1>9 DEF FlagTypeOK, Probe
  <2>2. MainTypeOK'
    BY <1>9 DEF MainTypeOK, Probe
  <2>3. RunTypeOK'
    BY <1>9 DEF RunTypeOK, Probe
  <2>4. StopTypeOK'
    BY <1>9 DEF StopTypeOK, Probe
  <2>5. StartInv'
    BY <1>9 DEF StartInv, Probe
  <2>6. StopInv'
    BY <1>9 DEF StopInv, Probe
  <2> QED BY <2>1, <2>2, <2>3, <2>4, <2>5, <2>6
<1>10. CASE ProbeStop
  <2>1. FlagTypeOK'
    BY <1>10 DEF FlagTypeOK, ProbeStop
  <2>2. MainTypeOK'
    BY <1>10 DEF MainTypeOK, ProbeStop
  <2>3. RunTypeOK'
    BY <1>10 DEF RunTypeOK, ProbeStop
  <2>4. StopTypeOK'
    BY <1>10 DEF StopTypeOK, ProbeStop
  <2>5. StartInv'
    BY <1>10 DEF StartInv, ProbeStop
  <2>6. StopInv'
    BY <1>10 DEF StopInv, ProbeStop
  <2> QED BY <2>1, <2>2, <2>3, <2>4, <2>5, <2>6
<1> QED BY <1>1, <1>2, <1>3, <1>4, <1>5, <1>6, <1>7, <1>8, <1>9, <1>10

\* App.Shutdown and its timers.
LEMMA ShutdownLife ==
  ASSUME LifeInv, Shutdown \/ forceTimer \/ Tick
  PROVE  LifeInv'
<1> USE TimerTypes DEF LifeInv, TypeOK, Goto, envVars, sigVars, runVars, shutVars,
        Running, Stopping, Checks, Publications, HTTPTimeout
<1>1. CASE RunReturns
  <2>1. FlagTypeOK'
    BY <1>1 DEF FlagTypeOK, RunReturns
  <2>2. MainTypeOK'
    BY <1>1 DEF MainTypeOK, RunReturns
  <2>3. RunTypeOK'
    BY <1>1 DEF RunTypeOK, RunReturns
  <2>4. StopTypeOK'
    BY <1>1 DEF StopTypeOK, RunReturns
  <2>5. StartInv'
    BY <1>1 DEF StartInv, RunReturns
  <2>6. StopInv'
    BY <1>1 DEF StopInv, RunReturns
  <2> QED BY <2>1, <2>2, <2>3, <2>4, <2>5, <2>6
<1>2. CASE HTTPShutdown
  <2>1. FlagTypeOK'
    BY <1>2 DEF FlagTypeOK, HTTPShutdown
  <2>2. MainTypeOK'
    BY <1>2 DEF MainTypeOK, HTTPShutdown
  <2>3. RunTypeOK'
    BY <1>2 DEF RunTypeOK, HTTPShutdown
  <2>4. StopTypeOK'
    BY <1>2 DEF StopTypeOK, HTTPShutdown
  <2>5. StartInv'
    BY <1>2 DEF StartInv, HTTPShutdown
  <2>6. StopInv'
    <3>1. main = "wave" /\ main' = "wave" /\ httpWave' = "waiting"
          /\ http' # "listening" /\ clock = 0
      BY <1>2 DEF StopInv, HTTPShutdown
    <3>2. UNCHANGED <<closed, clock, exit, reader, stream>>
      BY <1>2 DEF HTTPShutdown
    <3> QED BY <3>1, <3>2 DEF StopInv
  <2> QED BY <2>1, <2>2, <2>3, <2>4, <2>5, <2>6
<1>3. CASE HTTPShutdownReturns
  <2>1. FlagTypeOK'
    BY <1>3 DEF FlagTypeOK, HTTPShutdownReturns
  <2>2. MainTypeOK'
    BY <1>3 DEF MainTypeOK, HTTPShutdownReturns
  <2>3. RunTypeOK'
    BY <1>3 DEF RunTypeOK, HTTPShutdownReturns
  <2>4. StopTypeOK'
    BY <1>3 DEF StopTypeOK, HTTPShutdownReturns
  <2>5. StartInv'
    BY <1>3 DEF StartInv, HTTPShutdownReturns
  <2>6. StopInv'
    BY <1>3 DEF StopInv, HTTPShutdownReturns
  <2> QED BY <2>1, <2>2, <2>3, <2>4, <2>5, <2>6
<1>4. CASE RouterShutdown
  <2>1. FlagTypeOK'
    BY <1>4 DEF FlagTypeOK, RouterShutdown
  <2>2. MainTypeOK'
    BY <1>4 DEF MainTypeOK, RouterShutdown
  <2>3. RunTypeOK'
    BY <1>4 DEF RunTypeOK, RouterShutdown
  <2>4. StopTypeOK'
    BY <1>4 DEF StopTypeOK, RouterShutdown
  <2>5. StartInv'
    BY <1>4 DEF StartInv, RouterShutdown
  <2>6. StopInv'
    BY <1>4 DEF StopInv, RouterShutdown
  <2> QED BY <2>1, <2>2, <2>3, <2>4, <2>5, <2>6
<1>5. CASE WaveEnds
  <2>1. FlagTypeOK'
    BY <1>5 DEF FlagTypeOK, WaveEnds
  <2>2. MainTypeOK'
    BY <1>5 DEF MainTypeOK, WaveEnds
  <2>3. RunTypeOK'
    BY <1>5 DEF RunTypeOK, WaveEnds
  <2>4. StopTypeOK'
    BY <1>5 DEF StopTypeOK, WaveEnds
  <2>5. StartInv'
    BY <1>5 DEF StartInv, WaveEnds
  <2>6. StopInv'
    BY <1>5 DEF StopInv, WaveEnds
  <2> QED BY <2>1, <2>2, <2>3, <2>4, <2>5, <2>6
<1>6. CASE Drain
  <2>1. FlagTypeOK'
    BY <1>6 DEF FlagTypeOK, Drain
  <2>2. MainTypeOK'
    BY <1>6 DEF MainTypeOK, Drain
  <2>3. RunTypeOK'
    BY <1>6 DEF RunTypeOK, Drain
  <2>4. StopTypeOK'
    BY <1>6 DEF StopTypeOK, Drain
  <2>5. StartInv'
    BY <1>6 DEF StartInv, Drain
  <2>6. StopInv'
    BY <1>6 DEF StopInv, Drain
  <2> QED BY <2>1, <2>2, <2>3, <2>4, <2>5, <2>6
<1>7. CASE Return
  <2>1. FlagTypeOK'
    BY <1>7 DEF FlagTypeOK, Return
  <2>2. MainTypeOK'
    BY <1>7 DEF MainTypeOK, Return
  <2>3. RunTypeOK'
    BY <1>7 DEF RunTypeOK, Return
  <2>4. StopTypeOK'
    BY <1>7 DEF StopTypeOK, Return
  <2>5. StartInv'
    BY <1>7 DEF StartInv, Return
  <2>6. StopInv'
    BY <1>7 DEF StopInv, Return
  <2> QED BY <2>1, <2>2, <2>3, <2>4, <2>5, <2>6
<1>8. CASE forceTimer
  <2>1. FlagTypeOK'
    BY <1>8 DEF FlagTypeOK, forceTimer
  <2>2. MainTypeOK'
    BY <1>8 DEF MainTypeOK, forceTimer
  <2>3. RunTypeOK'
    BY <1>8 DEF RunTypeOK, forceTimer
  <2>4. StopTypeOK'
    BY <1>8 DEF StopTypeOK, forceTimer
  <2>5. StartInv'
    BY <1>8 DEF StartInv, forceTimer
  <2>6. StopInv'
    BY <1>8 DEF StopInv, forceTimer
  <2> QED BY <2>1, <2>2, <2>3, <2>4, <2>5, <2>6
<1>9. CASE Tick
  <2>1. FlagTypeOK'
    BY <1>9 DEF FlagTypeOK, Tick
  <2>2. MainTypeOK'
    BY <1>9 DEF MainTypeOK, Tick
  <2>3. RunTypeOK'
    BY <1>9 DEF RunTypeOK, Tick
  <2>4. StopTypeOK'
    BY <1>9 DEF StopTypeOK, Tick
  <2>5. StartInv'
    BY <1>9 DEF StartInv, Tick
  <2>6. StopInv'
    <3>1. UNCHANGED <<main, httpWave, http, closed, exit, reader, stream>>
      BY <1>9 DEF Tick
    <3>2. main \in Stopping /\ httpWave # "none"
      BY <1>9 DEF Tick, StopInv
    <3>3. httpWave = "waiting" => clock' <= WaitFor
      <4>1. httpWave = "waiting" => main # "close" /\ clock # WaitFor
        BY <1>9 DEF Tick, StopInv
      <4>2. clock \in Nat /\ clock' = clock + 1
        BY <1>9 DEF Tick, StopTypeOK
      <4> QED BY <4>1, <4>2 DEF StopInv
    <3> QED BY <3>1, <3>2, <3>3 DEF StopInv
  <2> QED BY <2>1, <2>2, <2>3, <2>4, <2>5, <2>6
<1> QED BY <1>1, <1>2, <1>3, <1>4, <1>5, <1>6, <1>7, <1>8, <1>9 DEF Shutdown

LEMMA NextLife == LifeInv /\ [Next]_vars => LifeInv'
<1> SUFFICES ASSUME LifeInv, [Next]_vars PROVE LifeInv'
  OBVIOUS
<1>1. CASE UNCHANGED vars
  <2> USE <1>1 DEF vars, envVars, sigVars, runVars, shutVars, LifeInv
  <2>1. TypeOK'
    <3>1. FlagTypeOK' /\ MainTypeOK'
      BY DEF TypeOK, FlagTypeOK, MainTypeOK
    <3>2. RunTypeOK' /\ StopTypeOK'
      BY DEF TypeOK, RunTypeOK, StopTypeOK
    <3> QED BY <3>1, <3>2 DEF TypeOK
  <2>2. StartInv'
    BY DEF StartInv
  <2>3. StopInv'
    BY DEF StopInv
  <2> QED BY <2>1, <2>2, <2>3
<1>2. CASE Next
  BY <1>2, StartupLife, RunLife, ShutdownLife DEF Next
<1> QED BY <1>1, <1>2

LEMMA AlwaysLife == Spec => []LifeInv
BY InitLife, NextLife, PTL DEF Spec

\* Startup, runnables, readiness and shutdown keep the types of their state, and
\* the clock of Shutdown never passes the deadline.
THEOREM TypeCorrect == Spec => []TypeOK
<1>1. LifeInv => TypeOK
  BY DEF LifeInv
<1> QED BY <1>1, AlwaysLife, PTL

\* However the startup checks interleave with whoever creates the publication:
\* nothing is streamed and no probe says ready with a broad publication.
THEOREM BroadPublicationsAreRefused == Spec => []OnlyListsAreStreamed
<1>1. LifeInv => OnlyListsAreStreamed
  BY DEF LifeInv, StartInv, OnlyListsAreStreamed
<1> QED BY <1>1, AlwaysLife, PTL

\* Exit status 0 is only given after the wave and the drain.
THEOREM ExitZeroIsClean == Spec => []CleanExit
<1>1. LifeInv => CleanExit
  BY DEF LifeInv, StopInv, CleanExit
<1> QED BY <1>1, AlwaysLife, PTL
=============================================================================
