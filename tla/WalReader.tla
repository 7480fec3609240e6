----------------------------- MODULE WalReader -----------------------------
(***************************************************************************)
(* wal.Reader against a PostgreSQL walsender: one replication connection   *)
(* after the other, each with a temporary slot of its own.  The reader     *)
(* rebuilds transactions from Begin, Relation, row and Commit messages,    *)
(* hands them to the router through txCh, and reports to the server how    *)
(* far it has got.  Broadcaster.tla has the reader in four steps; this is  *)
(* the loop behind them.                                                   *)
(*                                                                         *)
(* Record i of the server's log starts at position i and ends at i + 1; a  *)
(* published record is the commit of a transaction with its rows, any      *)
(* other one is WAL that no published table is in.  The walsender is a     *)
(* cursor (at, step) into the log: messages lost with a connection are     *)
(* messages not received.  A row is the table it is in and the shape that  *)
(* table had (columns and key); the changes of a transaction are a         *)
(* function from the rows that were kept to the shape they were decoded    *)
(* with.                                                                   *)
(***************************************************************************)
EXTENDS Integers, Sequences

CONSTANTS
  Tables,      \* published tables (relation OIDs)
  Shapes,      \* shapes a table goes through
  Usable,      \* those with one key column of an allowed type
  NoShape,     \* no entry in the relation cache
  ChanCap,     \* capacity of txCh
  Records,     \* what is written to the log
  MaxRows,     \* bound: rows of one transaction
  MaxRecords,  \* bound: records of the log
  MaxSlots     \* bound: connections that get as far as a slot

ASSUME ReaderAssumption ==
  /\ Usable \subseteq Shapes /\ NoShape \notin Shapes
  /\ ChanCap \in Nat \ {0}
  /\ MaxRows \in Nat /\ MaxRecords \in Nat /\ MaxSlots \in Nat
ASSUME RecordsAssumption ==
  /\ Records \subseteq [published : BOOLEAN,
                       rows : Seq([table : Tables, shape : Shapes])]
  /\ \A r \in Records : Len(r.rows) <= MaxRows

VARIABLES
  wal,         \* the server's log
  at, step,    \* the walsender: record, and message of that record
  told,        \* relation messages sent on this connection
  pc,          \* the reader goroutine
  connected,   \* Reader.connected
  slots,       \* history: slots made
  slotStart,   \* history: consistent point of the last one
  relCache,    \* relationCache
  inFlight,    \* txBuilder.inFlight: the record being built, 0 if none
  changes,     \* txBuilder.inFlight.changes
  pending,     \* the transaction in deliver, 0 if none
  ackLSN,      \* Reader.ackLSN
  confirmed,   \* history: what the server was told on this connection
  currentLSN,  \* lastCommittedLSN
  txCh,        \* how many transactions are in the channel
  handed,      \* history: everything put into it
  ctxDone,     \* the root context is cancelled
  start        \* history: the StartLSN one client took, 0 if none yet

serverVars == <<wal, at, step, told>>
slotVars == <<slots, slotStart>>
buildVars == <<relCache, inFlight, changes>>
ackVars == <<ackLSN, confirmed>>
outVars == <<pending, txCh, handed>>
vars == <<serverVars, pc, connected, slotVars, buildVars, ackVars, currentLSN,
          outVars, ctxDone, start>>

None == [t \in Tables |-> NoShape]
Changes == UNION {[rows -> Usable] : rows \in SUBSET (1 .. MaxRows)}
NoChanges == [i \in {} |-> NoShape]
WalEnd == Len(wal) + 1

Init ==
  /\ wal = <<>> /\ at = 1 /\ step = 0 /\ told = None
  /\ pc = "down" /\ connected = FALSE /\ slots = 0 /\ slotStart = 1
  /\ relCache = None /\ inFlight = 0 /\ changes = NoChanges
  /\ ackLSN = 0 /\ confirmed = 0 /\ currentLSN = 0
  /\ pending = 0 /\ txCh = 0 /\ handed = <<>>
  /\ ctxDone = FALSE /\ start = 0
----------------------------------------------------------------------------
(* The rest of the world.                                                  *)

\* A writer commits, or WAL is written that we are not sent.
Write ==
  /\ Len(wal) < MaxRecords
  /\ \E r \in Records : wal' = Append(wal, r)
  /\ UNCHANGED <<at, step, told, pc, connected, slotVars, buildVars, ackVars,
                 currentLSN, outVars, ctxDone, start>>

\* The walsender passes a record that it has nothing to send for.
PassRecord ==
  /\ pc \in {"loop", "deliver"} /\ at <= Len(wal)
  /\ ~wal[at].published
  /\ at' = at + 1
  /\ UNCHANGED <<wal, step, told, pc, connected, slotVars, buildVars, ackVars,
                 currentLSN, outVars, ctxDone, start>>

\* The router takes a transaction.
Consume ==
  /\ txCh > 0
  /\ txCh' = txCh - 1
  /\ UNCHANGED <<serverVars, pc, connected, slotVars, buildVars, ackVars,
                 currentLSN, pending, handed, ctxDone, start>>

\* A client without since_lsn takes the current position as its StartLSN.
parseSinceLSN ==
  /\ start = 0
  /\ start' = currentLSN
  /\ UNCHANGED <<serverVars, pc, connected, slotVars, buildVars, ackVars,
                 currentLSN, outVars, ctxDone>>

Signal ==
  /\ ~ctxDone
  /\ ctxDone' = TRUE
  /\ UNCHANGED <<serverVars, pc, connected, slotVars, buildVars, ackVars,
                 currentLSN, outVars, start>>
----------------------------------------------------------------------------
(* Reader.Run and runOnce.  An attempt that does not even connect changes  *)
(* nothing.                                                                *)

Connect ==
  /\ pc = "down" /\ ~ctxDone /\ slots < MaxSlots
  /\ pc' = "slot"
  /\ connected' = TRUE
  /\ UNCHANGED <<serverVars, slotVars, buildVars, ackVars, currentLSN, outVars,
                 ctxDone, start>>

\* bootstrapSlot up to setLSN: the new slot starts where the log ends.
CreateSlot ==
  /\ pc = "slot" /\ ~ctxDone
  /\ pc' = "start"
  /\ slots' = slots + 1 /\ slotStart' = WalEnd
  /\ currentLSN' = WalEnd
  /\ UNCHANGED <<serverVars, connected, buildVars, ackVars, outVars, ctxDone,
                 start>>

\* StartReplication, and what runLoop sets up.
StartReplication ==
  /\ pc = "start" /\ ~ctxDone
  /\ pc' = "loop"
  /\ at' = slotStart /\ step' = 0 /\ told' = None
  /\ relCache' = None /\ inFlight' = 0 /\ changes' = NoChanges
  /\ ackLSN' = 0 /\ confirmed' = 0
  /\ UNCHANGED <<wal, connected, slotVars, currentLSN, outVars, ctxDone, start>>

\* Any error of the connection: runOnce returns and Run waits to try again.
ConnectionLost ==
  /\ pc \in {"slot", "start", "loop"}
  /\ pc' = "down"
  /\ connected' = FALSE
  /\ inFlight' = 0 /\ changes' = NoChanges
  /\ UNCHANGED <<serverVars, slotVars, relCache, ackVars, currentLSN, outVars,
                 ctxDone, start>>

\* Run returns; a transaction in deliver is given up.
Stop ==
  /\ ctxDone /\ pc # "stopped"
  /\ pc' = "stopped"
  /\ connected' = FALSE
  /\ inFlight' = 0 /\ changes' = NoChanges
  /\ pending' = 0
  /\ UNCHANGED <<serverVars, slotVars, relCache, ackVars, currentLSN, txCh,
                 handed, ctxDone, start>>
----------------------------------------------------------------------------
(* runLoop: one message at a time.                                         *)

Receiving == pc = "loop" /\ ~ctxDone
Sending == Receiving /\ at <= Len(wal) /\ wal[at].published
NextRow == wal[at].rows[step]

HandleBegin ==
  /\ Sending /\ step = 0
  /\ inFlight' = at /\ changes' = NoChanges
  /\ step' = 1
  /\ UNCHANGED <<wal, at, told, pc, connected, slotVars, relCache, ackVars,
                 currentLSN, outVars, ctxDone, start>>

\* relationCache.Update: a shape without a usable key is refused, and the
\* entry stays what it was.
Update(row) ==
  IF row.shape \in Usable THEN [relCache EXCEPT ![row.table] = row.shape]
  ELSE relCache

\* The walsender describes a table before its first row, and again when it
\* has changed.
HandleRelation ==
  /\ Sending /\ step \in 1 .. Len(wal[at].rows)
  /\ told[NextRow.table] # NextRow.shape
  /\ told' = [told EXCEPT ![NextRow.table] = NextRow.shape]
  /\ relCache' = Update(NextRow)
  /\ UNCHANGED <<wal, at, step, pc, connected, slotVars, inFlight, changes,
                 ackVars, currentLSN, outVars, ctxDone, start>>

\* HandleInsert, HandleUpdate, HandleDelete: nothing outside a transaction, an
\* error (the change is skipped) without an entry, else the row is decoded with it.
Decoded(row) ==
  IF inFlight = 0 \/ relCache[row.table] = NoShape THEN changes
  ELSE [i \in DOMAIN changes \cup {step} |->
          IF i = step THEN relCache[row.table] ELSE changes[i]]

HandleChange ==
  /\ Sending /\ step \in 1 .. Len(wal[at].rows)
  /\ told[NextRow.table] = NextRow.shape
  /\ changes' = Decoded(NextRow)
  /\ step' = step + 1
  /\ UNCHANGED <<wal, at, told, pc, connected, slotVars, relCache, inFlight,
                 ackVars, currentLSN, outVars, ctxDone, start>>

advanceAck(lsn) == IF lsn > ackLSN THEN lsn ELSE ackLSN

\* Fault: the builder is not emptied.
HandleCommitKeeps ==
  /\ Sending /\ step = Len(wal[at].rows) + 1
  /\ inFlight # 0
  /\ currentLSN' = at /\ ackLSN' = advanceAck(at) /\ pending' = at
  /\ pc' = "deliver"
  /\ at' = at + 1 /\ step' = 0
  /\ UNCHANGED <<wal, told, connected, slotVars, buildVars, confirmed, txCh,
                 handed, ctxDone, start>>

\* HandleCommit; a Commit without a Begin is ignored.
HandleCommit ==
  /\ Sending /\ step = Len(wal[at].rows) + 1
  /\ IF inFlight # 0
       THEN /\ currentLSN' = at
            /\ ackLSN' = advanceAck(at)
            /\ pending' = at
            /\ pc' = "deliver"
       ELSE UNCHANGED <<currentLSN, ackLSN, pending, pc>>
  /\ inFlight' = 0
  /\ at' = at + 1 /\ step' = 0
  /\ UNCHANGED <<wal, told, connected, slotVars, relCache, changes, confirmed,
                 txCh, handed, ctxDone, start>>

\* sendStandby: the server keeps the highest position it was told.  A status
\* that cannot be sent is logged and changes nothing.
sendStandby(lsn) == confirmed' = IF lsn > confirmed THEN lsn ELSE confirmed

\* ServerWALEnd, "what the walsender has sent": in the middle of a transaction
\* that may include its commit record.
Sent == IF step = 0 THEN {at} ELSE {at, at + 1}

\* Fault: a keepalive counts in the middle of a transaction too.
KeepaliveAlways ==
  /\ Receiving
  /\ \E lsn \in Sent, reply \in BOOLEAN :
       /\ ackLSN' = advanceAck(lsn)
       /\ IF reply THEN sendStandby(ackLSN') ELSE UNCHANGED confirmed
  /\ UNCHANGED <<serverVars, pc, connected, slotVars, buildVars, currentLSN,
                 outVars, ctxDone, start>>

\* Fault: only commits are acknowledged.
KeepaliveNever ==
  /\ Receiving
  /\ sendStandby(ackLSN)
  /\ UNCHANGED <<serverVars, pc, connected, slotVars, buildVars, ackLSN,
                 currentLSN, outVars, ctxDone, start>>

\* Fault: the position that clients start from follows keepalives as well.
KeepaliveSetsLSN ==
  /\ Receiving
  /\ \E lsn \in Sent, reply \in BOOLEAN :
       /\ ackLSN' = IF inFlight = 0 THEN advanceAck(lsn) ELSE ackLSN
       /\ currentLSN' = ackLSN'
       /\ IF reply THEN sendStandby(ackLSN') ELSE UNCHANGED confirmed
  /\ UNCHANGED <<serverVars, pc, connected, slotVars, buildVars, outVars,
                 ctxDone, start>>

\* A keepalive, answered at once when the server asks for it.
Keepalive ==
  /\ Receiving
  /\ \E lsn \in Sent, reply \in BOOLEAN :
       /\ ackLSN' = IF inFlight = 0 THEN advanceAck(lsn) ELSE ackLSN
       /\ IF reply THEN sendStandby(ackLSN') ELSE UNCHANGED confirmed
  /\ UNCHANGED <<serverVars, pc, connected, slotVars, buildVars, currentLSN,
                 outVars, ctxDone, start>>

\* Fault: the deadline is taken for a broken connection's Reset, and the loop
\* goes on.
StandbyResets ==
  /\ Receiving
  /\ sendStandby(ackLSN)
  /\ inFlight' = 0 /\ changes' = NoChanges
  /\ UNCHANGED <<serverVars, pc, connected, slotVars, relCache, ackLSN,
                 currentLSN, outVars, ctxDone, start>>

\* The receive deadline fires (receiveTimedOut): a status is due, nothing else.
Standby ==
  /\ Receiving
  /\ sendStandby(ackLSN)
  /\ UNCHANGED <<serverVars, pc, connected, slotVars, buildVars, ackLSN,
                 currentLSN, outVars, ctxDone, start>>

deliver ==
  /\ pc = "deliver" /\ txCh < ChanCap
  /\ txCh' = txCh + 1
  /\ handed' = Append(handed, [lsn |-> pending, changes |-> changes])
  /\ pending' = 0
  /\ pc' = "loop"
  /\ changes' = NoChanges
  /\ UNCHANGED <<serverVars, connected, slotVars, relCache, inFlight, ackVars,
                 currentLSN, ctxDone, start>>

\* Fault: deliver sends no status while it waits.
DeliverSilent ==
  /\ pc = "deliver" /\ txCh < ChanCap
  /\ sendStandby(ackLSN)
  /\ UNCHANGED <<serverVars, pc, connected, slotVars, buildVars, ackLSN,
                 currentLSN, outVars, ctxDone, start>>

\* deliver's ticker, while the router is busy.
DeliverTick ==
  /\ pc = "deliver"
  /\ sendStandby(ackLSN)
  /\ UNCHANGED <<serverVars, pc, connected, slotVars, buildVars, ackLSN,
                 currentLSN, outVars, ctxDone, start>>
----------------------------------------------------------------------------
Messages == HandleBegin \/ HandleRelation \/ HandleChange \/ HandleCommit

Next ==
  \/ Write \/ PassRecord \/ Consume \/ parseSinceLSN \/ Signal
  \/ Connect \/ CreateSlot \/ StartReplication \/ ConnectionLost \/ Stop
  \/ Messages \/ Keepalive \/ Standby \/ deliver \/ DeliverTick

Spec == Init /\ [][Next]_vars

\* The reader is one goroutine with two timers, and a walsender sends what it
\* has, and keepalives in between.  The router is not assumed to take anything.
FairSpec ==
  /\ Spec
  /\ WF_vars(Messages \/ PassRecord) /\ WF_vars(Keepalive)
  /\ WF_vars(Standby) /\ WF_vars(DeliverTick) /\ WF_vars(deliver)
  /\ WF_vars(CreateSlot \/ StartReplication) /\ WF_vars(Stop)
----------------------------------------------------------------------------
(* Properties.                                                             *)

ServerTypeOK ==
  /\ wal \in Seq(Records) /\ Len(wal) <= MaxRecords
  /\ at \in 1 .. WalEnd /\ step \in 0 .. MaxRows + 1
  /\ told \in [Tables -> Shapes \cup {NoShape}]

ReaderTypeOK ==
  /\ pc \in {"down", "slot", "start", "loop", "deliver", "stopped"}
  /\ connected \in BOOLEAN /\ ctxDone \in BOOLEAN
  /\ slots \in 0 .. MaxSlots /\ slotStart \in 1 .. WalEnd
  /\ relCache \in [Tables -> Usable \cup {NoShape}]
  /\ inFlight \in {0, at} /\ pending \in 0 .. Len(wal)
  /\ changes \in Changes

PositionTypeOK ==
  /\ ackLSN \in 0 .. WalEnd /\ confirmed \in 0 .. WalEnd
  /\ currentLSN \in 0 .. WalEnd /\ start \in 0 .. WalEnd
  /\ txCh \in 0 .. ChanCap
  /\ handed \in Seq([lsn : 1 .. Len(wal), changes : Changes])

\* Every variable keeps its type, and txCh its capacity.
TypeOK == ServerTypeOK /\ ReaderTypeOK /\ PositionTypeOK

\* What the server has been told it may forget has been received whole: no
\* transaction of this connection before the confirmed position is still being
\* rebuilt (reader.go: "with no tx open everything up to it has been fully seen").
Received(t) ==
  (pc = "deliver" /\ pending = t) \/ \E i \in DOMAIN handed : handed[i].lsn = t
ConfirmedIsReceived ==
  pc \in {"loop", "deliver"} =>
    \A t \in slotStart .. confirmed - 1 : wal[t].published => Received(t)

\* A commit that is read after a client took its StartLSN is not hidden from it
\* by dispatchEvent's tx.CommitLSN <= StartLSN, unless it starts exactly where
\* the replication slot does.
StartHidesNothing ==
  [][pending' # pending /\ pending' # 0 =>
       pending' > start \/ pending' = slotStart]_vars

\* The reader keeps the promise that the router relies on: whole transactions,
\* in commit order, each once, a gap only with a new slot.
Whole(r) ==
  {c \in Changes :
     /\ DOMAIN c \subseteq DOMAIN r.rows
     /\ \A i \in DOMAIN r.rows : r.rows[i].shape \in Usable =>
          i \in DOMAIN c /\ c[i] = r.rows[i].shape}
IsPublished(r) == r.published
HandedUpTo ==
  IF handed # <<>> /\ handed[Len(handed)].lsn >= slotStart
    THEN handed[Len(handed)].lsn ELSE slotStart - 1
Feed == INSTANCE CommitFeed
          WITH Published <- IsPublished, Decodings <- Whole, log <- wal,
               pos <- HandedUpTo, out <- handed, slots <- slots
FeedSpec == Feed!Spec

\* "A published table has no usable primary key ...; its changes are skipped"
\* (docs/operations.md): nothing is delivered of a row whose table was refused.
RefusedIsSkipped ==
  \A i \in DOMAIN handed : \A k \in DOMAIN handed[i].changes :
    wal[handed[i].lsn].rows[k].shape \in Usable

\* Status updates go out while the router is busy (docs/postgres.md: "every
\* 5 s, also while it waits for slow subscribers"): what the reader
\* acknowledges reaches the server without any help of the router.
AckIsSent ==
  \A p \in 1 .. MaxRecords + 1 :
    (pc \in {"loop", "deliver"} /\ ackLSN >= p)
      ~> (confirmed >= p \/ pc \notin {"loop", "deliver"})

\* The slot does not hold back WAL (docs/postgres.md: "The confirmed position
\* follows the server's WAL end even when no published table changes"), unless
\* the connection is lost or the router's channel stays full.
WalIsReleased ==
  \A p \in 1 .. MaxRecords + 1 :
    (pc = "loop" /\ WalEnd >= p) ~> (confirmed >= p \/ ~connected \/ txCh = ChanCap)
=============================================================================
