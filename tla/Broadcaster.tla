---------------------------- MODULE Broadcaster ----------------------------
(***************************************************************************)
(* The delivery pipeline of walera, from a committed transaction to the    *)
(* bytes a subscriber reads:                                               *)
(*                                                                         *)
(*   Postgres --> wal.Reader --> txCh --> router.Broadcaster (Ingest)      *)
(*            --> one bounded queue per subscriber --> sse.Handler.stream  *)
(*                                                                         *)
(* Every goroutine has its own program counter: the reader (its position   *)
(* and the transaction it is delivering), the router (rpc), one HTTP       *)
(* handler per subscriber (hpc) and the shutdown sequence (spc).  The auth *)
(* refresh goroutine of a subscriber appears here only through what it can *)
(* do to the pipeline: drop the subscriber at any moment.                  *)
(*                                                                         *)
(* The commit LSN of a transaction is its position in wal.  The content of *)
(* a transaction is abstracted to what the router decides from it: which   *)
(* subscribers' index keys each change hits, and, per subscriber, what     *)
(* dispatchEvent finds once it has filtered and encoded the transaction:   *)
(* nothing to send ("silent": filtered away, no anchor left, multi root),  *)
(* more than a cap allows ("large"), or a frame ("frame").                 *)
(***************************************************************************)
EXTENDS Integers, Sequences, FiniteSets

CONSTANTS
  Subs,            \* subscribers: one HTTP request, one router.Subscriber
  Exact,           \* those of kind "exact"; the others are "wildcard"
  ExactBuffer,     \* router.Config.ExactBuffer
  WildcardBuffer,  \* router.Config.WildcardBuffer
  ChanCap,         \* capacity of txCh
  TxShapes,        \* the transactions that writers commit
  SinceLSNs,       \* explicit ?since_lsn= values clients send
  AuthReasons,     \* reasons the refresh goroutine drops with
  WriteReasons,    \* reasons writeFailureReason finds, and "client_closed"
  MaxTx            \* bound: transactions committed in Postgres

Fates == {"silent", "large", "frame"}
Reasons == {"auth_revoked", "auth_unavailable", "slow_consumer",
            "client_closed", "tx_too_large", "shutdown"}

ASSUME SubsAssumption == Exact \subseteq Subs
ASSUME ReasonAssumption ==
  /\ AuthReasons \subseteq {"auth_revoked", "auth_unavailable"}
  /\ WriteReasons \subseteq {"slow_consumer", "client_closed"}
ASSUME BufferAssumption ==
  /\ ExactBuffer \in Nat \ {0}
  /\ WildcardBuffer \in Nat \ {0}
  /\ ChanCap \in Nat \ {0}
ASSUME TxAssumption ==
  /\ MaxTx \in Nat
  /\ SinceLSNs \subseteq Nat
  /\ TxShapes \subseteq [hits : Seq(SUBSET Subs), fate : [Subs -> Fates]]

VARIABLES
  wal,         \* committed transactions, in commit order
  lost,        \* LSNs that no replication slot of ours will ever send
  currentLSN,  \* wal.lastCommittedLSN: also the reader's position
  pending,     \* LSN that deliver() is handing to txCh, 0 if none
  txCh,        \* the channel, as a sequence of LSNs
  txClosed,    \* the reader has returned and closed txCh
  ctxDone,     \* the root context is cancelled (signal or fatal error)
  rpc,         \* router goroutine
  cur,         \* LSN of the transaction in routeTx
  chg,         \* index of the change mergeMatches looks at
  eligible,    \* routeTx's eligible set, shrinking as it is dispatched
  target,      \* the subscriber in dispatchEvent, {} between two of them
  registered,  \* members of the two indexes
  closed,      \* Broadcaster.closed
  spc,         \* App.Shutdown goroutine
  snap,        \* Shutdown's subs slice, what is left of it
  victim,      \* the subscriber Shutdown is dropping
  hpc,         \* handler goroutine, per subscriber
  hwhy,        \* the reason the handler drops its subscriber with
  startLSN,    \* Subscriber.startLSN
  reason,      \* Subscriber.reasonPtr, "none" while nil
  done,        \* Subscriber.ctx cancelled
  queue,       \* stream's queue
  batch,       \* stream's frames
  wire,        \* history: tx frames written to the client
  farewell,    \* history: the terminal frame written, "none" if none
  asked,       \* history: explicit since_lsn, 0 when the client gave none
  promise      \* history: commits so far when the response was flushed

readerVars == <<wal, lost, currentLSN, pending, txClosed, ctxDone>>
routerVars == <<rpc, cur, chg, eligible, target>>
shutVars == <<closed, spc, snap, victim>>
dropVars == <<reason, done>>
startVars == <<startLSN, asked>>
outVars == <<wire, farewell, promise>>
handlerVars == <<hpc, hwhy, startVars, batch, outVars>>
vars == <<readerVars, txCh, routerVars, registered, shutVars, handlerVars,
          dropVars, queue>>

LSNs == 1 .. MaxTx
QueueCap(s) == IF s \in Exact THEN ExactBuffer ELSE WildcardBuffer
Unopened == MaxTx
HandlerPCs == {"new", "register", "regcheck", "regdrop", "prelude", "loop",
               "batch", "check", "write", "finish", "drop", "dereg", "ended"}

Init ==
  /\ wal = <<>> /\ lost = {} /\ currentLSN = 0 /\ pending = 0
  /\ txCh = <<>> /\ txClosed = FALSE /\ ctxDone = FALSE
  /\ rpc = "idle" /\ cur = 0 /\ chg = 0 /\ eligible = {} /\ target = {}
  /\ registered = {} /\ closed = FALSE /\ spc = "run" /\ snap = {}
  /\ victim = {}
  /\ hpc = [s \in Subs |-> "new"] /\ hwhy = [s \in Subs |-> "none"]
  /\ startLSN = [s \in Subs |-> 0] /\ asked = [s \in Subs |-> 0]
  /\ reason = [s \in Subs |-> "none"] /\ done = [s \in Subs |-> FALSE]
  /\ queue = [s \in Subs |-> <<>>] /\ batch = [s \in Subs |-> <<>>]
  /\ wire = [s \in Subs |-> <<>>] /\ farewell = [s \in Subs |-> "none"]
  /\ promise = [s \in Subs |-> Unopened]
----------------------------------------------------------------------------
(* Postgres and the WAL reader.                                            *)

\* A writer commits a transaction.
Commit ==
  /\ Len(wal) < MaxTx
  /\ \E tx \in TxShapes : wal' = Append(wal, tx)
  /\ UNCHANGED <<lost, currentLSN, pending, txClosed, ctxDone, txCh,
                 routerVars, registered, shutVars, handlerVars, dropVars, queue>>

\* processWALMessage on a Commit message: setLSN comes before deliver.
ReadCommit ==
  /\ ~ctxDone /\ pending = 0
  /\ currentLSN < Len(wal)
  /\ currentLSN' = currentLSN + 1
  /\ pending' = currentLSN + 1
  /\ UNCHANGED <<wal, lost, txClosed, ctxDone, txCh, routerVars, registered,
                 shutVars, handlerVars, dropVars, queue>>

\* Fault: a full txCh makes the reader discard the transaction.
DeliverLossy ==
  /\ pending # 0
  /\ txCh' = IF Len(txCh) < ChanCap THEN Append(txCh, pending) ELSE txCh
  /\ pending' = 0
  /\ UNCHANGED <<wal, lost, currentLSN, txClosed, ctxDone, routerVars,
                 registered, shutVars, handlerVars, dropVars, queue>>

\* deliver: blocks while txCh is full.
Deliver ==
  /\ pending # 0 /\ Len(txCh) < ChanCap
  /\ txCh' = Append(txCh, pending)
  /\ pending' = 0
  /\ UNCHANGED <<wal, lost, currentLSN, txClosed, ctxDone, routerVars,
                 registered, shutVars, handlerVars, dropVars, queue>>

\* Where a slot that bootstrapSlot creates now starts: after every commit.
ConsistentPoint == Len(wal)

\* The replication connection breaks and, after a pause, a fresh temporary
\* slot is made: the LSN is set to the slot's consistent point, and whatever
\* was committed up to it is never received.
Reconnect ==
  /\ ~ctxDone /\ pending = 0
  /\ lost' = lost \cup (currentLSN + 1 .. ConsistentPoint)
  /\ currentLSN' = ConsistentPoint
  /\ UNCHANGED <<wal, pending, txClosed, ctxDone, txCh, routerVars, registered,
                 shutVars, handlerVars, dropVars, queue>>

\* Fault: the reader returns without closing txCh.
ReaderStopOpen ==
  /\ ctxDone /\ pending # 0
  /\ pending' = 0
  /\ UNCHANGED <<wal, lost, currentLSN, txClosed, ctxDone, txCh, routerVars,
                 registered, shutVars, handlerVars, dropVars, queue>>

\* Reader.Run returns once the root context is cancelled; a transaction in
\* deliver is given up and txCh is closed.
ReaderStop ==
  /\ ctxDone /\ ~txClosed
  /\ txClosed' = TRUE
  /\ pending' = 0
  /\ UNCHANGED <<wal, lost, currentLSN, ctxDone, txCh, routerVars, registered,
                 shutVars, handlerVars, dropVars, queue>>
----------------------------------------------------------------------------
(* Subscriber.Drop.  The first caller stores its reason and then cancels;  *)
(* the Once makes every other caller wait until the first one is through.  *)

StoreReason(s, r) ==
  /\ reason[s] = "none"
  /\ reason' = [reason EXCEPT ![s] = r]
  /\ done' = done

\* Fault: the subscriber's context is the request's, which ends by itself.
CancelWithRequest(s) ==
  /\ hpc[s] # "new" /\ ~done[s]
  /\ done' = [done EXCEPT ![s] = TRUE]
  /\ UNCHANGED <<readerVars, txCh, routerVars, registered, shutVars,
                 handlerVars, reason, queue>>

Cancel(s) ==
  /\ reason[s] # "none" /\ ~done[s]
  /\ done' = [done EXCEPT ![s] = TRUE]
  /\ UNCHANGED <<readerVars, txCh, routerVars, registered, shutVars,
                 handlerVars, reason, queue>>

\* The refresh goroutine, started before Register, gives the stream up.
AuthDrop(s) ==
  /\ hpc[s] # "new"
  /\ \E r \in AuthReasons : StoreReason(s, r)
  /\ UNCHANGED <<readerVars, txCh, routerVars, registered, shutVars,
                 handlerVars, queue>>
----------------------------------------------------------------------------
(* The two indexes, each under its own lock.                               *)

Add(s) == registered' = registered \cup {s}
Remove(s) == registered' = registered \ {s}
Lookup(hits) == hits \cap registered
----------------------------------------------------------------------------
(* router.Broadcaster.Ingest: one goroutine, one transaction at a time.    *)

Receive ==
  /\ rpc = "idle" /\ txCh # <<>>
  /\ cur' = Head(txCh) /\ txCh' = Tail(txCh)
  /\ rpc' = "match" /\ chg' = 1 /\ eligible' = {}
  /\ UNCHANGED <<readerVars, target, registered, shutVars, handlerVars,
                 dropVars, queue>>

\* Fault: the router returns when it finds the channel empty.
IngestStopIdle ==
  /\ rpc = "idle" /\ txCh = <<>>
  /\ rpc' = "stopped"
  /\ UNCHANGED <<readerVars, txCh, cur, chg, eligible, target, registered,
                 shutVars, handlerVars, dropVars, queue>>

IngestStop ==
  /\ rpc = "idle"
  /\ ctxDone \/ (txClosed /\ txCh = <<>>)
  /\ rpc' = "stopped"
  /\ UNCHANGED <<readerVars, txCh, cur, chg, eligible, target, registered,
                 shutVars, handlerVars, dropVars, queue>>

\* mergeMatches: the indexes are looked up again for every change, so a
\* subscriber may register between two of them.
mergeMatches ==
  /\ rpc = "match"
  /\ IF chg <= Len(wal[cur].hits)
       THEN /\ eligible' = eligible \cup Lookup(wal[cur].hits[chg])
            /\ chg' = chg + 1 /\ rpc' = rpc
       ELSE /\ rpc' = "dispatch"
            /\ UNCHANGED <<eligible, chg>>
  /\ UNCHANGED <<readerVars, txCh, cur, target, registered, shutVars,
                 handlerVars, dropVars, queue>>

\* The first half of dispatchEvent: StartLSN, Done, the filter, the caps.
Skips(s) == cur <= startLSN[s] \/ done[s] \/ wal[cur].fate[s] = "silent"

\* Fault: a transaction too large for s is skipped and the stream goes on.
dispatchSkipsLarge(s) ==
  /\ rpc = "dispatch" /\ s \in eligible
  /\ eligible' = eligible \ {s}
  /\ \/ /\ Skips(s) \/ wal[cur].fate[s] = "large"
        /\ UNCHANGED <<rpc, target>>
     \/ /\ ~Skips(s) /\ wal[cur].fate[s] = "frame"
        /\ rpc' = "send" /\ target' = {s}
  /\ UNCHANGED <<readerVars, txCh, cur, chg, registered, shutVars, handlerVars,
                 dropVars, queue>>

dispatchEvent(s) ==
  /\ rpc = "dispatch" /\ s \in eligible
  /\ eligible' = eligible \ {s}
  /\ \/ /\ Skips(s)
        /\ UNCHANGED <<rpc, target>>
     \/ /\ ~Skips(s)
        /\ rpc' = IF wal[cur].fate[s] = "large" THEN "drop" ELSE "send"
        /\ target' = {s}
  /\ UNCHANGED <<readerVars, txCh, cur, chg, registered, shutVars, handlerVars,
                 dropVars, queue>>

\* Fault: the queue has no bound.
SendUnbounded(s) ==
  /\ rpc = "send" /\ s \in target
  /\ queue' = [queue EXCEPT ![s] = Append(@, cur)]
  /\ rpc' = "dispatch" /\ target' = {}
  /\ UNCHANGED <<readerVars, txCh, cur, chg, eligible, registered, shutVars,
                 handlerVars, dropVars>>

\* Fault: the router waits for room in the queue.
SendBlocking(s) ==
  /\ Len(queue[s]) < QueueCap(s)
  /\ SendUnbounded(s)

\* Subscriber.Send never blocks: a full queue drops the subscriber.
Send(s) ==
  /\ rpc = "send" /\ s \in target
  /\ IF Len(queue[s]) < QueueCap(s)
       THEN /\ queue' = [queue EXCEPT ![s] = Append(@, cur)]
            /\ rpc' = "dispatch" /\ target' = {}
       ELSE /\ rpc' = "drop"
            /\ UNCHANGED <<queue, target>>
  /\ UNCHANGED <<readerVars, txCh, cur, chg, eligible, registered, shutVars,
                 handlerVars, dropVars>>

RouterDrop(s) ==
  /\ rpc = "drop" /\ s \in target
  /\ StoreReason(s, IF wal[cur].fate[s] = "large" THEN "tx_too_large"
                    ELSE "slow_consumer")
  /\ UNCHANGED <<readerVars, txCh, routerVars, registered, shutVars,
                 handlerVars, queue>>

RouterDropReturn(s) ==
  /\ rpc = "drop" /\ s \in target /\ done[s]
  /\ rpc' = "dispatch" /\ target' = {}
  /\ UNCHANGED <<readerVars, txCh, cur, chg, eligible, registered, shutVars,
                 handlerVars, dropVars, queue>>

RouteTxEnd ==
  /\ rpc = "dispatch" /\ eligible = {}
  /\ rpc' = "idle" /\ cur' = 0 /\ chg' = 0
  /\ UNCHANGED <<readerVars, txCh, eligible, target, registered,
                 shutVars, handlerVars, dropVars, queue>>
----------------------------------------------------------------------------
(* sse.Handler: one goroutine per subscriber.                              *)

\* parseSinceLSN, long before Register: the handshake is in between.
parseSinceLSN(s) ==
  /\ hpc[s] = "new"
  /\ \/ /\ startLSN' = [startLSN EXCEPT ![s] = currentLSN]
        /\ asked' = asked
     \/ \E n \in SinceLSNs :
          /\ startLSN' = [startLSN EXCEPT ![s] = n]
          /\ asked' = [asked EXCEPT ![s] = n]
  /\ hpc' = [hpc EXCEPT ![s] = "register"]
  /\ UNCHANGED <<readerVars, txCh, routerVars, registered, shutVars, hwhy,
                 batch, outVars, dropVars, queue>>

Goto(s, pc) == hpc' = [hpc EXCEPT ![s] = pc]

\* Register: Add first, then look at closed.
RegisterAdd(s) ==
  /\ hpc[s] = "register"
  /\ Add(s)
  /\ Goto(s, "regcheck")
  /\ UNCHANGED <<readerVars, txCh, routerVars, shutVars, hwhy, startVars, batch,
                 outVars, dropVars, queue>>

\* Fault: Register does not look at closed after adding.
RegisterUnchecked(s) ==
  /\ hpc[s] = "regcheck"
  /\ Goto(s, "prelude")
  /\ UNCHANGED <<readerVars, txCh, routerVars, registered, shutVars, hwhy,
                 startVars, batch, outVars, dropVars, queue>>

RegisterCheck(s) ==
  /\ hpc[s] = "regcheck"
  /\ Goto(s, IF closed THEN "regdrop" ELSE "prelude")
  /\ UNCHANGED <<readerVars, txCh, routerVars, registered, shutVars, hwhy,
                 startVars, batch, outVars, dropVars, queue>>

RegisterDrop(s) ==
  /\ hpc[s] = "regdrop"
  /\ \/ /\ StoreReason(s, "shutdown")
        /\ hpc' = hpc
     \/ /\ done[s]
        /\ Goto(s, "prelude")
        /\ UNCHANGED dropVars
  /\ UNCHANGED <<readerVars, txCh, routerVars, registered, shutVars, hwhy,
                 startVars, batch, outVars, queue>>

\* A write that fails makes the handler drop its own subscriber and leave.
WriteFails(s) ==
  /\ Goto(s, "drop")
  /\ \E r \in WriteReasons : hwhy' = [hwhy EXCEPT ![s] = r]

\* The first flush: retry hint and initial data.
Prelude(s) ==
  /\ hpc[s] = "prelude"
  /\ \/ /\ Goto(s, "loop")
        /\ promise' = [promise EXCEPT ![s] = Len(wal)]
        /\ hwhy' = hwhy
     \/ /\ WriteFails(s)
        /\ promise' = promise
  /\ UNCHANGED <<readerVars, txCh, routerVars, registered, shutVars, startVars,
                 batch, wire, farewell, dropVars, queue>>

\* Fault: what is taken later is put in front.
TakeInFront(s) ==
  /\ \/ hpc[s] = "loop"
     \/ hpc[s] = "batch" /\ Len(batch[s]) < QueueCap(s)
  /\ queue[s] # <<>>
  /\ batch' = [batch EXCEPT ![s] = <<Head(queue[s])>> \o @]
  /\ queue' = [queue EXCEPT ![s] = Tail(@)]
  /\ Goto(s, "batch")
  /\ UNCHANGED <<readerVars, txCh, routerVars, registered, shutVars, hwhy,
                 startVars, outVars, dropVars>>

\* case frame := <-queue, and the inner loop that gathers more of them.
Take(s) ==
  /\ \/ hpc[s] = "loop"
     \/ hpc[s] = "batch" /\ Len(batch[s]) < QueueCap(s)
  /\ queue[s] # <<>>
  /\ batch' = [batch EXCEPT ![s] = Append(@, Head(queue[s]))]
  /\ queue' = [queue EXCEPT ![s] = Tail(@)]
  /\ Goto(s, "batch")
  /\ UNCHANGED <<readerVars, txCh, routerVars, registered, shutVars, hwhy,
                 startVars, outVars, dropVars>>

BatchEnd(s) ==
  /\ hpc[s] = "batch"
  /\ queue[s] = <<>> \/ Len(batch[s]) >= QueueCap(s)
  /\ Goto(s, "check")
  /\ UNCHANGED <<readerVars, txCh, routerVars, registered, shutVars, hwhy,
                 startVars, batch, outVars, dropVars, queue>>

\* Fault: the batch is written without a look at Done.
CheckNothing(s) ==
  /\ hpc[s] = "check"
  /\ Goto(s, "write")
  /\ UNCHANGED <<readerVars, txCh, routerVars, registered, shutVars, hwhy,
                 startVars, batch, outVars, dropVars, queue>>

\* Frames taken off the queue are discarded when the subscriber was dropped.
CheckDone(s) ==
  /\ hpc[s] = "check"
  /\ IF done[s]
       THEN Goto(s, "finish") /\ batch' = [batch EXCEPT ![s] = <<>>]
       ELSE Goto(s, "write") /\ batch' = batch
  /\ UNCHANGED <<readerVars, txCh, routerVars, registered, shutVars, hwhy,
                 startVars, outVars, dropVars, queue>>

\* Fault: a batch that could be written only in part is written again.
WriteRetries(s) ==
  /\ hpc[s] = "write"
  /\ \/ /\ wire' = [wire EXCEPT ![s] = @ \o batch[s]]
        /\ Goto(s, "loop")
        /\ batch' = [batch EXCEPT ![s] = <<>>]
     \/ /\ \E n \in 0 .. Len(batch[s]) :
             wire' = [wire EXCEPT ![s] = @ \o SubSeq(batch[s], 1, n)]
        /\ Len(wire'[s]) <= MaxTx
        /\ UNCHANGED <<hpc, batch>>
  /\ UNCHANGED <<readerVars, txCh, routerVars, registered, shutVars, startVars,
                 hwhy, farewell, promise, dropVars, queue>>

\* write(frames...): all of them, or some prefix before the error.
Write(s) ==
  /\ hpc[s] = "write"
  /\ \/ /\ wire' = [wire EXCEPT ![s] = @ \o batch[s]]
        /\ Goto(s, "loop")
        /\ hwhy' = hwhy
     \/ /\ \E n \in 0 .. Len(batch[s]) :
             wire' = [wire EXCEPT ![s] = @ \o SubSeq(batch[s], 1, n)]
        /\ WriteFails(s)
  /\ batch' = [batch EXCEPT ![s] = <<>>]
  /\ UNCHANGED <<readerVars, txCh, routerVars, registered, shutVars, startVars,
                 farewell, promise, dropVars, queue>>

\* A heartbeat that cannot be written, or the client closed the connection.
\* (A heartbeat that is written changes nothing.)
LeaveLoop(s) ==
  /\ hpc[s] = "loop"
  /\ WriteFails(s)
  /\ UNCHANGED <<readerVars, txCh, routerVars, registered, shutVars, startVars,
                 batch, outVars, dropVars, queue>>

SeeDone(s) ==
  /\ hpc[s] = "loop" /\ done[s]
  /\ Goto(s, "finish")
  /\ UNCHANGED <<readerVars, txCh, routerVars, registered, shutVars, hwhy,
                 startVars, batch, outVars, dropVars, queue>>

\* finish: the terminal frame names the recorded reason; the write may fail,
\* and a client that left gets none.
finish(s) ==
  /\ hpc[s] = "finish"
  /\ \/ /\ reason[s] \notin {"none", "client_closed"}
        /\ farewell' = [farewell EXCEPT ![s] = reason[s]]
     \/ farewell' = farewell
  /\ Goto(s, "dereg")
  /\ UNCHANGED <<readerVars, txCh, routerVars, registered, shutVars, hwhy,
                 startVars, batch, wire, promise, dropVars, queue>>

HandlerDrop(s) ==
  /\ hpc[s] = "drop"
  /\ \/ /\ StoreReason(s, hwhy[s])
        /\ hpc' = hpc
     \/ /\ done[s]
        /\ Goto(s, "dereg")
        /\ UNCHANGED dropVars
  /\ UNCHANGED <<readerVars, txCh, routerVars, registered, shutVars, hwhy,
                 startVars, batch, outVars, queue>>

\* Fault: the handler returns and stays in the index.
DeregisterLeak(s) ==
  /\ hpc[s] = "dereg"
  /\ Goto(s, "ended")
  /\ UNCHANGED <<readerVars, txCh, routerVars, registered, shutVars, hwhy,
                 startVars, batch, outVars, dropVars, queue>>

Deregister(s) ==
  /\ hpc[s] = "dereg"
  /\ Remove(s)
  /\ Goto(s, "ended")
  /\ UNCHANGED <<readerVars, txCh, routerVars, shutVars, hwhy, startVars, batch,
                 outVars, dropVars, queue>>
----------------------------------------------------------------------------
(* App.Run returns when the root context is cancelled; App.Shutdown then   *)
(* runs Broadcaster.Shutdown and drains txCh.                              *)

Signal ==
  /\ ~ctxDone
  /\ ctxDone' = TRUE
  /\ UNCHANGED <<wal, lost, currentLSN, pending, txClosed, txCh, routerVars,
                 registered, shutVars, handlerVars, dropVars, queue>>

ShutdownClose ==
  /\ ctxDone /\ spc = "run"
  /\ closed' = TRUE
  /\ spc' = "exact"
  /\ UNCHANGED <<readerVars, txCh, routerVars, registered, snap, victim,
                 handlerVars, dropVars, queue>>

\* exact.Snapshot(), then wildcard.Snapshot(): two locks, two moments.
Snapshot ==
  /\ \/ /\ spc = "exact" /\ spc' = "wildcard"
        /\ snap' = registered \cap Exact
     \/ /\ spc = "wildcard" /\ spc' = "wave"
        /\ snap' = snap \cup (registered \ Exact)
  /\ UNCHANGED <<readerVars, txCh, routerVars, registered, closed, victim,
                 handlerVars, dropVars, queue>>

ShutdownNext(s) ==
  /\ spc = "wave" /\ s \in snap
  /\ victim' = {s} /\ snap' = snap \ {s}
  /\ spc' = "drop"
  /\ UNCHANGED <<readerVars, txCh, routerVars, registered, closed, handlerVars,
                 dropVars, queue>>

ShutdownDrop(s) ==
  /\ spc = "drop" /\ s \in victim
  /\ \/ /\ StoreReason(s, "shutdown")
        /\ spc' = spc
     \/ /\ done[s]
        /\ spc' = "wave"
        /\ UNCHANGED dropVars
  /\ victim' = IF spc' = "wave" THEN {} ELSE victim
  /\ UNCHANGED <<readerVars, txCh, routerVars, registered, closed, snap,
                 handlerVars, queue>>

ShutdownWaveEnd ==
  /\ spc = "wave" /\ snap = {}
  /\ spc' = "drain"
  /\ UNCHANGED <<readerVars, txCh, routerVars, registered, closed, snap, victim,
                 handlerVars, dropVars, queue>>

\* for range txCh {}: competes with a router that has not stopped yet.
Drain ==
  /\ spc = "drain"
  /\ \/ /\ txCh # <<>>
        /\ txCh' = Tail(txCh)
        /\ spc' = spc
     \/ /\ txCh = <<>> /\ txClosed
        /\ spc' = "exit"
        /\ txCh' = txCh
  /\ UNCHANGED <<readerVars, routerVars, registered, closed, snap, victim,
                 handlerVars, dropVars, queue>>
----------------------------------------------------------------------------
Reader == ReadCommit \/ Deliver \/ ReaderStop

Ingest ==
  \/ Receive \/ IngestStop \/ mergeMatches \/ RouteTxEnd
  \/ \E s \in Subs : dispatchEvent(s) \/ Send(s) \/ RouterDrop(s)
                     \/ RouterDropReturn(s)

\* What a handler does by itself once its request is admitted.
stream(s) ==
  \/ RegisterAdd(s) \/ RegisterCheck(s) \/ RegisterDrop(s) \/ Prelude(s)
  \/ Take(s) \/ BatchEnd(s) \/ CheckDone(s) \/ Write(s)
  \/ SeeDone(s) \/ finish(s) \/ HandlerDrop(s) \/ Deregister(s)

Shutdown ==
  \/ ShutdownClose \/ Snapshot \/ ShutdownWaveEnd \/ Drain
  \/ \E s \in Subs : ShutdownNext(s) \/ ShutdownDrop(s)

Next ==
  \/ Commit \/ Reader \/ Reconnect \/ Ingest \/ Signal \/ Shutdown
  \/ \E s \in Subs : parseSinceLSN(s) \/ stream(s) \/ LeaveLoop(s)
                     \/ AuthDrop(s) \/ Cancel(s)

Spec == Init /\ [][Next]_vars

\* Goroutines that are runnable run.  Every write ends, one way or the other,
\* because stream sets a write deadline.  Nothing makes writers commit,
\* clients come or leave, connections break, grants be revoked or the process
\* be told to stop.
FairSpec ==
  /\ Spec
  /\ WF_vars(Reader) /\ WF_vars(Ingest) /\ WF_vars(Shutdown)
  /\ \A s \in Subs : WF_vars(stream(s)) /\ WF_vars(Cancel(s))
----------------------------------------------------------------------------
(* Properties.                                                             *)

ReaderTypeOK ==
  /\ wal \in Seq(TxShapes) /\ Len(wal) <= MaxTx
  /\ lost \subseteq LSNs
  /\ currentLSN \in 0 .. Len(wal) /\ pending \in 0 .. Len(wal)

FlagTypeOK == txClosed \in BOOLEAN /\ ctxDone \in BOOLEAN /\ closed \in BOOLEAN

ChannelTypeOK ==
  /\ txCh \in Seq(LSNs) /\ Len(txCh) <= ChanCap
  /\ \A i \in 1 .. Len(txCh) : txCh[i] <= Len(wal)

RouterTypeOK ==
  /\ rpc \in {"idle", "match", "dispatch", "send", "drop", "stopped"}
  /\ cur \in 0 .. Len(wal) /\ chg \in Nat
  /\ rpc \in {"match", "dispatch", "send", "drop"} => cur # 0
  /\ eligible \subseteq Subs /\ target \subseteq Subs

IndexTypeOK ==
  /\ registered \subseteq Subs
  /\ spc \in {"run", "exact", "wildcard", "wave", "drop", "drain", "exit"}
  /\ snap \subseteq Subs /\ victim \subseteq Subs

HandlerTypeOK ==
  /\ hpc \in [Subs -> HandlerPCs]
  /\ hwhy \in [Subs -> WriteReasons \cup {"none"}]
  /\ startLSN \in [Subs -> Nat] /\ asked \in [Subs -> Nat]
  /\ promise \in [Subs -> 0 .. MaxTx]

DropTypeOK ==
  /\ reason \in [Subs -> Reasons \cup {"none"}]
  /\ done \in [Subs -> BOOLEAN]
  /\ farewell \in [Subs -> Reasons \cup {"none"}]

FrameTypeOK ==
  /\ queue \in [Subs -> Seq(LSNs)] /\ batch \in [Subs -> Seq(LSNs)]
  /\ wire \in [Subs -> Seq(LSNs)]
  /\ \A s \in Subs : Len(queue[s]) <= QueueCap(s) /\ Len(batch[s]) <= QueueCap(s)

\* Every variable keeps its type; the queues, the frames slice that stream
\* gathers and txCh stay within their capacities.
TypeOK ==
  /\ ReaderTypeOK /\ FlagTypeOK /\ ChannelTypeOK /\ RouterTypeOK
  /\ IndexTypeOK /\ HandlerTypeOK /\ DropTypeOK /\ FrameTypeOK

Increasing(q) == \A i, j \in 1 .. Len(q) : i < j => q[i] < q[j]
OnWire(s, t) == \E i \in 1 .. Len(wire[s]) : wire[s][i] = t
Hits(s, t) == \E i \in 1 .. Len(wal[t].hits) : s \in wal[t].hits[i]

\* Transaction t is owed to s: it hits s and survives its filter, it was
\* committed after the client saw the response and after the LSN the client
\* named, and no replication gap swallowed it.
Owed(s, t) ==
  /\ t \in 1 .. Len(wal)
  /\ Hits(s, t) /\ wal[t].fate[s] # "silent"
  /\ t > promise[s] /\ t > asked[s]
  /\ t \notin lost

\* Frames reach the client in commit order, none twice, and a frame on the
\* wire means that every owed transaction before it is there too.  In
\* particular the StartLSN default (the reader's position, read before the
\* handshake) never hides a row, a transaction too large for s or a full queue
\* never leaves a hole in front of a later frame, and neither does the drain.
NoGap ==
  \A s \in Subs :
    /\ Increasing(wire[s])
    /\ \A t \in 1 .. Len(wal), i \in 1 .. Len(wire[s]) :
         Owed(s, t) /\ t < wire[s][i] => OnWire(s, t)

\* A stream keeps the contract its client was given (README, "Delivery
\* guarantees"), whatever the reader, the router, the handler, the refresh and
\* the shutdown do to it: DeliveryContract is implemented.
Phase(s) ==
  IF hpc[s] \in {"new", "register", "regcheck", "regdrop", "prelude"} THEN "new"
  ELSE IF hpc[s] \in {"loop", "batch", "check", "write"} THEN "open"
  ELSE IF hpc[s] \in {"finish", "drop"} THEN "ending" ELSE "ended"
After(s) ==
  IF Phase(s) = "new" THEN 0
  ELSE IF promise[s] > asked[s] THEN promise[s] ELSE asked[s]
Wants(s, tx) ==
  (\E i \in 1 .. Len(tx.hits) : s \in tx.hits[i]) /\ tx.fate[s] # "silent"
Contract ==
  INSTANCE DeliveryContract
    WITH Streams <- Subs, Txs <- TxShapes, Positions <- 0 .. MaxTx \cup SinceLSNs,
         Concerns <- Wants, log <- wal, gaps <- lost, sent <- wire,
         phase <- [s \in Subs |-> Phase(s)], after <- [s \in Subs |-> After(s)]
KeepsContract == Contract!Spec

\* "Done never fires without a Reason" (stream.go), and a terminal frame names
\* the reason recorded first, whoever else tried to drop the subscriber.
DoneHasReason ==
  \A s \in Subs :
    /\ done[s] => reason[s] # "none"
    /\ hpc[s] \in {"finish", "dereg", "ended"} => done[s]
    /\ farewell[s] # "none" => farewell[s] = reason[s]

\* Shutdown and Register race; still, once the wave is over, every member of
\* the indexes is dropped or is about to see closed itself.
ShutdownReachesAll ==
  spc \in {"drain", "exit"} =>
    \A s \in registered : done[s] \/ hpc[s] \in {"regcheck", "regdrop"}

\* Once a drop is complete nothing more goes to the client except the batch
\* that had already passed the Done check: queued frames carry the old grant.
DropStopsWrites ==
  [][\A s \in Subs : done[s] /\ hpc[s] # "write" =>
       wire'[s] = wire[s] /\ hpc'[s] # "write"]_vars

\* "A slow client stalls nobody but itself" (stream.go): while a transaction is
\* being routed the router can go on, whatever any handler does; at most it waits
\* for a Drop that another goroutine has begun.
RouterNeverWaits ==
  cur # 0 => \/ ENABLED Ingest
             \/ \E s \in target : reason[s] # "none" /\ ~done[s]

\* Nobody waits for a goroutine that has gone.  A reader that sits in deliver
\* before a full txCh has a router that is still taking, or the cancelled context
\* to give up on; a drain of the open channel has a reader that will close it; a
\* router inside routeTx, and a Shutdown inside Drop, have a subscriber in hand.
WaitsAreAnswered ==
  /\ pending # 0 /\ Len(txCh) = ChanCap => rpc # "stopped" \/ ctxDone
  /\ spc = "drain" /\ ~txClosed => ctxDone
  /\ cur # 0 => \/ rpc \in {"match", "dispatch"}
                \/ rpc \in {"send", "drop"} /\ target # {}
  /\ spc = "drop" => victim # {}

\* A dropped subscriber leaves the index and its handler ends.
DroppedIsReleased ==
  \A s \in Subs : done[s] ~> (hpc[s] = "ended" /\ s \notin registered)

\* No stream outlives Shutdown, not even one that registers during the wave.
ShutdownEndsStreams ==
  \A s \in Subs : (closed /\ hpc[s] # "new") ~> hpc[s] = "ended"

\* The shutdown sequence comes to its end: the drain is not left waiting for
\* a channel nobody closes.
ShutdownTerminates == ctxDone ~> (spc = "exit")

\* What is owed is written, unless the stream is dropped, the process is told
\* to stop, or a reconnect loses the transaction.
OwedIsDelivered ==
  \A s \in Subs, t \in LSNs :
    Owed(s, t) ~> (OnWire(s, t) \/ done[s] \/ ctxDone \/ t \in lost)
=============================================================================
