-------------------------- MODULE WalReaderProofs --------------------------
(***************************************************************************)
(* Theorems about WalReader, for any tables, shapes, records, capacity of  *)
(* the channel and number of connections.                                  *)
(***************************************************************************)
EXTENDS WalReader, TLAPS

LEMMA ConstantTypes ==
  /\ Usable \subseteq Shapes /\ NoShape \notin Shapes
  /\ ChanCap \in Nat \ {0} /\ MaxRows \in Nat /\ MaxRecords \in Nat
  /\ MaxSlots \in Nat
BY ReaderAssumption

LEMMA RecordTypes ==
  ASSUME NEW r \in Records
  PROVE  /\ r.published \in BOOLEAN
         /\ r.rows \in Seq([table : Tables, shape : Shapes])
         /\ Len(r.rows) \in 0 .. MaxRows
<1>1. r \in [published : BOOLEAN, rows : Seq([table : Tables, shape : Shapes])]
  BY RecordsAssumption
<1>2. Len(r.rows) <= MaxRows
  BY RecordsAssumption
<1> QED BY <1>1, <1>2, ConstantTypes

LEMMA ElementType ==
  ASSUME NEW S, NEW q \in Seq(S), NEW i \in 1 .. Len(q)
  PROVE  q[i] \in S
OBVIOUS

LEMMA SeqSubset ==
  ASSUME NEW S, NEW T, S \subseteq T, NEW q \in Seq(S)
  PROVE  q \in Seq(T)
<1>1. Len(q) \in Nat /\ q \in [1 .. Len(q) -> S]
  OBVIOUS
<1>2. q \in [1 .. Len(q) -> T]
  BY <1>1
<1> QED BY <1>1, <1>2

LEMMA RowTypes ==
  ASSUME NEW r \in Records, NEW i \in 1 .. Len(r.rows)
  PROVE  r.rows[i].table \in Tables /\ r.rows[i].shape \in Shapes
<1>1. r.rows \in Seq([table : Tables, shape : Shapes])
  BY RecordTypes
<1>2. r.rows[i] \in [table : Tables, shape : Shapes]
  BY <1>1, ElementType
<1> QED BY <1>2

\* What a change set is, and how a decoded row extends it.
LEMMA NoChangesType == NoChanges \in Changes
<1>1. {} \in SUBSET (1 .. MaxRows)
  OBVIOUS
<1>2. NoChanges \in [{} -> Usable]
  BY DEF NoChanges
<1> QED BY <1>1, <1>2 DEF Changes

LEMMA ExtendChanges ==
  ASSUME NEW c \in Changes, NEW i \in 1 .. MaxRows, NEW u \in Usable
  PROVE  [k \in DOMAIN c \cup {i} |-> IF k = i THEN u ELSE c[k]] \in Changes
<1>1. PICK rows \in SUBSET (1 .. MaxRows) : c \in [rows -> Usable]
  BY DEF Changes
<1>2. rows \cup {i} \in SUBSET (1 .. MaxRows)
  OBVIOUS
<1>3. [k \in DOMAIN c \cup {i} |-> IF k = i THEN u ELSE c[k]]
        \in [rows \cup {i} -> Usable]
  BY <1>1
<1> QED BY <1>2, <1>3 DEF Changes
----------------------------------------------------------------------------
(* The inductive invariant of the positions.                               *)

Live == pc \in {"loop", "deliver"}

\* Where the walsender and the builder are at each program counter.
StepInv ==
  /\ pc = "slot" => slots < MaxSlots
  /\ pc = "loop" => pending = 0
  /\ pc = "deliver" => pending # 0 /\ step = 0
  /\ ~Live => pending = 0
  /\ inFlight # 0 => pc = "loop"
  /\ pc = "loop" => (step # 0 <=> inFlight # 0)
  /\ pc = "loop" /\ step # 0 =>
       at <= Len(wal) /\ wal[at].published /\ step <= Len(wal[at].rows) + 1

\* How the positions stand to each other.
PositionInv ==
  /\ Live => slotStart <= at /\ ackLSN <= at /\ confirmed <= ackLSN
  /\ Live => currentLSN < at \/ (currentLSN = at /\ at = slotStart)
  /\ start <= currentLSN
  /\ pc = "start" => currentLSN = slotStart

\* What the walsender has passed has arrived.
ReceivedInv ==
  Live => \A t \in slotStart .. at - 1 : wal[t].published => Received(t)

Inv == TypeOK /\ StepInv /\ PositionInv /\ ReceivedInv

LEMMA InitInv == Init => Inv
<1> SUFFICES ASSUME Init PROVE Inv
  OBVIOUS
<1> USE ConstantTypes
<1>1. ServerTypeOK
  BY DEF Init, ServerTypeOK, WalEnd, None
<1>2. ReaderTypeOK
  <2>1. relCache \in [Tables -> Usable \cup {NoShape}] /\ changes \in Changes
    BY NoChangesType DEF Init, None
  <2>2. connected \in BOOLEAN /\ ctxDone \in BOOLEAN
    BY DEF Init
  <2>3. /\ pc = "down" /\ slots = 0 /\ slotStart = 1 /\ inFlight = 0
        /\ pending = 0 /\ at = 1 /\ wal = <<>>
    BY DEF Init
  <2> QED BY <2>1, <2>2, <2>3 DEF ReaderTypeOK, WalEnd
<1>3. PositionTypeOK
  BY DEF Init, PositionTypeOK, WalEnd
<1>4. StepInv /\ PositionInv /\ ReceivedInv
  BY DEF Init, StepInv, PositionInv, ReceivedInv, Live
<1> QED BY <1>1, <1>2, <1>3, <1>4 DEF Inv, TypeOK

\* The rest of the world, but for Write.
LEMMA WorldStep ==
  ASSUME Inv, PassRecord \/ Consume \/ parseSinceLSN \/ Signal
  PROVE  Inv'
<1> USE ConstantTypes DEF serverVars, slotVars, buildVars, ackVars, outVars, WalEnd,
        Inv, TypeOK, Live
<1>1. CASE PassRecord
  <2>1. ServerTypeOK'
    BY <1>1 DEF ServerTypeOK, PassRecord
  <2>2. ReaderTypeOK'
    <3>1. inFlight = 0
      BY <1>1 DEF StepInv, ServerTypeOK, PassRecord
    <3> QED BY <1>1, <3>1 DEF ReaderTypeOK, PassRecord
  <2>3. PositionTypeOK'
    BY <1>1 DEF PositionTypeOK, ServerTypeOK, ReaderTypeOK, PassRecord
  <2>4. StepInv'
    BY <1>1 DEF StepInv, ServerTypeOK, ReaderTypeOK, PassRecord
  <2>5. PositionInv'
    BY <1>1 DEF PositionInv, StepInv, ServerTypeOK, ReaderTypeOK,
       PositionTypeOK, PassRecord
  <2>6. ReceivedInv'
    BY <1>1 DEF ReceivedInv, Received, PositionInv, StepInv, ServerTypeOK,
       PassRecord
  <2> QED BY <2>1, <2>2, <2>3, <2>4, <2>5, <2>6
<1>2. CASE Consume
  <2>1. ServerTypeOK'
    BY <1>2 DEF ServerTypeOK, Consume
  <2>2. ReaderTypeOK'
    BY <1>2 DEF ReaderTypeOK, ServerTypeOK, Consume
  <2>3. PositionTypeOK'
    BY <1>2 DEF PositionTypeOK, ServerTypeOK, ReaderTypeOK, Consume
  <2>4. StepInv'
    BY <1>2 DEF StepInv, ServerTypeOK, ReaderTypeOK, Consume
  <2>5. PositionInv'
    BY <1>2 DEF PositionInv, StepInv, ServerTypeOK, ReaderTypeOK,
       PositionTypeOK, Consume
  <2>6. ReceivedInv'
    BY <1>2 DEF ReceivedInv, Received, PositionInv, StepInv, ServerTypeOK,
       Consume
  <2> QED BY <2>1, <2>2, <2>3, <2>4, <2>5, <2>6
<1>3. CASE parseSinceLSN
  <2>1. ServerTypeOK'
    BY <1>3 DEF ServerTypeOK, parseSinceLSN
  <2>2. ReaderTypeOK'
    BY <1>3 DEF ReaderTypeOK, ServerTypeOK, parseSinceLSN
  <2>3. PositionTypeOK'
    BY <1>3 DEF PositionTypeOK, ServerTypeOK, ReaderTypeOK, parseSinceLSN
  <2>4. StepInv'
    BY <1>3 DEF StepInv, ServerTypeOK, ReaderTypeOK, parseSinceLSN
  <2>5. PositionInv'
    BY <1>3 DEF PositionInv, StepInv, ServerTypeOK, ReaderTypeOK,
       PositionTypeOK, parseSinceLSN
  <2>6. ReceivedInv'
    BY <1>3 DEF ReceivedInv, Received, PositionInv, StepInv, ServerTypeOK,
       parseSinceLSN
  <2> QED BY <2>1, <2>2, <2>3, <2>4, <2>5, <2>6
<1>4. CASE Signal
  <2>1. ServerTypeOK'
    BY <1>4 DEF ServerTypeOK, Signal
  <2>2. ReaderTypeOK'
    BY <1>4 DEF ReaderTypeOK, ServerTypeOK, Signal
  <2>3. PositionTypeOK'
    BY <1>4 DEF PositionTypeOK, ServerTypeOK, ReaderTypeOK, Signal
  <2>4. StepInv'
    BY <1>4 DEF StepInv, ServerTypeOK, ReaderTypeOK, Signal
  <2>5. PositionInv'
    BY <1>4 DEF PositionInv, StepInv, ServerTypeOK, ReaderTypeOK,
       PositionTypeOK, Signal
  <2>6. ReceivedInv'
    BY <1>4 DEF ReceivedInv, Received, PositionInv, StepInv, ServerTypeOK,
       Signal
  <2> QED BY <2>1, <2>2, <2>3, <2>4, <2>5, <2>6
<1> QED BY <1>1, <1>2, <1>3, <1>4

\* Connections come and go.
LEMMA ConnectStep ==
  ASSUME Inv, Connect \/ CreateSlot \/ StartReplication \/ ConnectionLost \/ Stop
  PROVE  Inv'
<1> USE ConstantTypes DEF serverVars, slotVars, buildVars, ackVars, outVars, WalEnd,
        Inv, TypeOK, Live
<1>1. CASE Connect
  <2>1. ServerTypeOK'
    BY <1>1 DEF ServerTypeOK, Connect
  <2>2. ReaderTypeOK'
    BY <1>1 DEF ReaderTypeOK, ServerTypeOK, Connect
  <2>3. PositionTypeOK'
    BY <1>1 DEF PositionTypeOK, ServerTypeOK, ReaderTypeOK, Connect
  <2>4. StepInv'
    BY <1>1 DEF StepInv, ServerTypeOK, ReaderTypeOK, Connect
  <2>5. PositionInv'
    BY <1>1 DEF PositionInv, StepInv, ServerTypeOK, ReaderTypeOK,
       PositionTypeOK, Connect
  <2>6. ReceivedInv'
    BY <1>1 DEF ReceivedInv, Received, PositionInv, StepInv, ServerTypeOK,
       Connect
  <2> QED BY <2>1, <2>2, <2>3, <2>4, <2>5, <2>6
<1>2. CASE CreateSlot
  <2>1. ServerTypeOK'
    BY <1>2 DEF ServerTypeOK, CreateSlot
  <2>2. ReaderTypeOK'
    <3>1. slots' \in 0 .. MaxSlots /\ slotStart' \in 1 .. WalEnd'
      BY <1>2 DEF StepInv, ReaderTypeOK, ServerTypeOK, CreateSlot
    <3>2. UNCHANGED <<wal, at, connected, ctxDone, relCache, inFlight, pending,
                      changes>> /\ pc' = "start"
      BY <1>2 DEF CreateSlot
    <3> QED BY <3>1, <3>2 DEF ReaderTypeOK
  <2>3. PositionTypeOK'
    BY <1>2 DEF PositionTypeOK, ServerTypeOK, ReaderTypeOK, CreateSlot
  <2>4. StepInv'
    BY <1>2 DEF StepInv, ServerTypeOK, ReaderTypeOK, CreateSlot
  <2>5. PositionInv'
    BY <1>2 DEF PositionInv, StepInv, ServerTypeOK, ReaderTypeOK,
       PositionTypeOK, CreateSlot
  <2>6. ReceivedInv'
    BY <1>2 DEF ReceivedInv, Received, PositionInv, StepInv, ServerTypeOK,
       CreateSlot
  <2> QED BY <2>1, <2>2, <2>3, <2>4, <2>5, <2>6
<1>3. CASE StartReplication
  <2>1. ServerTypeOK'
    <3>1. at' \in 1 .. WalEnd' /\ step' \in 0 .. MaxRows + 1 /\ wal' = wal
      BY <1>3 DEF ReaderTypeOK, StartReplication
    <3>2. told' \in [Tables -> Shapes \cup {NoShape}]
      BY <1>3 DEF StartReplication, None
    <3> QED BY <3>1, <3>2 DEF ServerTypeOK
  <2>2. ReaderTypeOK'
    <3>1. relCache' \in [Tables -> Usable \cup {NoShape}] /\ changes' \in Changes
      BY <1>3, NoChangesType DEF StartReplication, None
    <3>2. UNCHANGED <<wal, connected, ctxDone, slots, slotStart, pending>>
          /\ pc' = "loop" /\ inFlight' = 0
      BY <1>3 DEF StartReplication
    <3> QED BY <3>1, <3>2 DEF ReaderTypeOK
  <2>3. PositionTypeOK'
    BY <1>3 DEF PositionTypeOK, ServerTypeOK, ReaderTypeOK, StartReplication
  <2>4. StepInv'
    BY <1>3 DEF StepInv, ServerTypeOK, ReaderTypeOK, StartReplication
  <2>5. PositionInv'
    BY <1>3 DEF PositionInv, StepInv, ServerTypeOK, ReaderTypeOK,
       PositionTypeOK, StartReplication
  <2>6. ReceivedInv'
    <3>1. at' = slotStart /\ slotStart' = slotStart /\ slotStart \in Nat
      BY <1>3 DEF ReaderTypeOK, StartReplication
    <3>2. \A t \in slotStart .. slotStart - 1 : FALSE
      BY <3>1
    <3> QED BY <3>1, <3>2 DEF ReceivedInv
  <2> QED BY <2>1, <2>2, <2>3, <2>4, <2>5, <2>6
<1>4. CASE ConnectionLost
  <2>1. ServerTypeOK'
    BY <1>4 DEF ServerTypeOK, ConnectionLost
  <2>2. ReaderTypeOK'
    <3>1. changes' \in Changes
      BY <1>4, NoChangesType DEF ConnectionLost
    <3>2. UNCHANGED <<wal, at, ctxDone, slots, slotStart, relCache>>
          /\ pc' = "down" /\ connected' = FALSE /\ inFlight' = 0 /\ pending' = pending
      BY <1>4 DEF ConnectionLost
    <3>3. pending' \in 0 .. Len(wal')
      BY <3>2 DEF ReaderTypeOK, ServerTypeOK
    <3> QED BY <3>1, <3>2, <3>3 DEF ReaderTypeOK
  <2>3. PositionTypeOK'
    BY <1>4 DEF PositionTypeOK, ServerTypeOK, ReaderTypeOK, ConnectionLost
  <2>4. StepInv'
    BY <1>4 DEF StepInv, ServerTypeOK, ReaderTypeOK, ConnectionLost
  <2>5. PositionInv'
    BY <1>4 DEF PositionInv, StepInv, ServerTypeOK, ReaderTypeOK,
       PositionTypeOK, ConnectionLost
  <2>6. ReceivedInv'
    BY <1>4 DEF ReceivedInv, Received, PositionInv, StepInv, ServerTypeOK,
       ConnectionLost
  <2> QED BY <2>1, <2>2, <2>3, <2>4, <2>5, <2>6
<1>5. CASE Stop
  <2>1. ServerTypeOK'
    BY <1>5 DEF ServerTypeOK, Stop
  <2>2. ReaderTypeOK'
    <3>1. changes' \in Changes
      BY <1>5, NoChangesType DEF Stop
    <3>2. UNCHANGED <<wal, at, ctxDone, slots, slotStart, relCache>>
          /\ pc' = "stopped" /\ connected' = FALSE /\ inFlight' = 0 /\ pending' = 0
      BY <1>5 DEF Stop
    <3>3. pending' \in 0 .. Len(wal')
      BY <3>2 DEF ReaderTypeOK, ServerTypeOK
    <3> QED BY <3>1, <3>2, <3>3 DEF ReaderTypeOK
  <2>3. PositionTypeOK'
    BY <1>5 DEF PositionTypeOK, ServerTypeOK, ReaderTypeOK, Stop
  <2>4. StepInv'
    BY <1>5 DEF StepInv, ServerTypeOK, ReaderTypeOK, Stop
  <2>5. PositionInv'
    BY <1>5 DEF PositionInv, StepInv, ServerTypeOK, ReaderTypeOK,
       PositionTypeOK, Stop
  <2>6. ReceivedInv'
    BY <1>5 DEF ReceivedInv, Received, PositionInv, StepInv, ServerTypeOK, Stop
  <2> QED BY <2>1, <2>2, <2>3, <2>4, <2>5, <2>6
<1> QED BY <1>1, <1>2, <1>3, <1>4, <1>5

\* A transaction is rebuilt.
LEMMA BuildStep ==
  ASSUME Inv, HandleBegin \/ HandleRelation \/ HandleChange
  PROVE  Inv'
<1> USE ConstantTypes DEF serverVars, slotVars, buildVars, ackVars, outVars, WalEnd,
        Inv, TypeOK, Live
<1>1. CASE HandleBegin
  <2>1. ServerTypeOK'
    BY <1>1 DEF ServerTypeOK, HandleBegin, Sending, Receiving
  <2>2. ReaderTypeOK'
    <3>1. changes' \in Changes /\ inFlight' = at'
      BY <1>1, NoChangesType DEF HandleBegin
    <3>2. UNCHANGED <<wal, at, pc, connected, ctxDone, slots, slotStart, relCache,
                      pending>>
      BY <1>1 DEF HandleBegin
    <3> QED BY <3>1, <3>2 DEF ReaderTypeOK
  <2>3. PositionTypeOK'
    BY <1>1 DEF PositionTypeOK, ServerTypeOK, ReaderTypeOK, HandleBegin,
       Sending, Receiving
  <2>4. StepInv'
    BY <1>1 DEF StepInv, ServerTypeOK, ReaderTypeOK, HandleBegin, Sending,
       Receiving
  <2>5. PositionInv'
    BY <1>1 DEF PositionInv, StepInv, ServerTypeOK, ReaderTypeOK,
       PositionTypeOK, HandleBegin, Sending, Receiving
  <2>6. ReceivedInv'
    BY <1>1 DEF ReceivedInv, Received, PositionInv, StepInv, ServerTypeOK,
       HandleBegin, Sending, Receiving
  <2> QED BY <2>1, <2>2, <2>3, <2>4, <2>5, <2>6
<1>2. CASE HandleRelation
  <2>1. ServerTypeOK'
    <3>1. wal[at] \in Records /\ step \in 1 .. Len(wal[at].rows)
      BY <1>2, ElementType DEF ServerTypeOK, HandleRelation, Sending, Receiving
    <3>2. NextRow.table \in Tables /\ NextRow.shape \in Shapes
      BY <3>1, RowTypes DEF NextRow
    <3>3. told' = [told EXCEPT ![NextRow.table] = NextRow.shape]
          /\ UNCHANGED <<wal, at, step>>
      BY <1>2 DEF HandleRelation
    <3> QED BY <3>2, <3>3 DEF ServerTypeOK
  <2>2. ReaderTypeOK'
    <3>1. wal[at] \in Records /\ step \in 1 .. Len(wal[at].rows)
      BY <1>2, ElementType DEF ServerTypeOK, HandleRelation, Sending, Receiving
    <3>2. NextRow.table \in Tables /\ NextRow.shape \in Shapes
      BY <3>1, RowTypes DEF NextRow
    <3>3. relCache' \in [Tables -> Usable \cup {NoShape}]
      BY <1>2, <3>2 DEF ReaderTypeOK, HandleRelation, Update
    <3>4. UNCHANGED <<wal, at, pc, connected, ctxDone, slots, slotStart, inFlight,
                      pending, changes>>
      BY <1>2 DEF HandleRelation
    <3> QED BY <3>3, <3>4 DEF ReaderTypeOK
  <2>3. PositionTypeOK'
    BY <1>2 DEF PositionTypeOK, ServerTypeOK, ReaderTypeOK, HandleRelation,
       Sending, Receiving
  <2>4. StepInv'
    BY <1>2 DEF StepInv, ServerTypeOK, ReaderTypeOK, HandleRelation, Sending,
       Receiving
  <2>5. PositionInv'
    BY <1>2 DEF PositionInv, StepInv, ServerTypeOK, ReaderTypeOK,
       PositionTypeOK, HandleRelation, Sending, Receiving
  <2>6. ReceivedInv'
    BY <1>2 DEF ReceivedInv, Received, PositionInv, StepInv, ServerTypeOK,
       HandleRelation, Sending, Receiving
  <2> QED BY <2>1, <2>2, <2>3, <2>4, <2>5, <2>6
<1>3. CASE HandleChange
  <2>1. ServerTypeOK'
    <3>1. wal[at] \in Records /\ step \in 1 .. Len(wal[at].rows)
      BY <1>3, ElementType DEF ServerTypeOK, HandleChange, Sending, Receiving
    <3>2. NextRow.table \in Tables /\ NextRow.shape \in Shapes
      BY <3>1, RowTypes DEF NextRow
    <3>3. step' = step + 1 /\ step \in 0 .. MaxRows /\ UNCHANGED <<wal, at, told>>
      BY <1>3, <3>1, RecordTypes DEF ServerTypeOK, HandleChange
    <3> QED BY <3>3 DEF ServerTypeOK
  <2>2. ReaderTypeOK'
    <3>1. wal[at] \in Records /\ step \in 1 .. Len(wal[at].rows)
      BY <1>3, ElementType DEF ServerTypeOK, HandleChange, Sending, Receiving
    <3>2. NextRow.table \in Tables /\ NextRow.shape \in Shapes
      BY <3>1, RowTypes DEF NextRow
    <3>3. step \in 1 .. MaxRows
      BY <3>1, RecordTypes DEF ServerTypeOK
    <3>4. changes' \in Changes
      <4>1. CASE inFlight = 0 \/ relCache[NextRow.table] = NoShape
        BY <1>3, <4>1 DEF HandleChange, Decoded, ReaderTypeOK
      <4>2. CASE ~(inFlight = 0 \/ relCache[NextRow.table] = NoShape)
        <5>1. relCache[NextRow.table] \in Usable
          BY <3>2, <4>2 DEF ReaderTypeOK
        <5>2. changes' = [i \in DOMAIN changes \cup {step} |->
                IF i = step THEN relCache[NextRow.table] ELSE changes[i]]
          BY <1>3, <4>2 DEF HandleChange, Decoded
        <5> QED BY <3>3, <5>1, <5>2, ExtendChanges DEF ReaderTypeOK
      <4> QED BY <4>1, <4>2
    <3>5. UNCHANGED <<wal, at, pc, connected, ctxDone, slots, slotStart, relCache,
                      inFlight, pending>>
      BY <1>3 DEF HandleChange
    <3> QED BY <3>4, <3>5 DEF ReaderTypeOK
  <2>3. PositionTypeOK'
    BY <1>3 DEF PositionTypeOK, ServerTypeOK, ReaderTypeOK, HandleChange,
       Sending, Receiving
  <2>4. StepInv'
    BY <1>3 DEF StepInv, ServerTypeOK, ReaderTypeOK, HandleChange, Sending,
       Receiving
  <2>5. PositionInv'
    BY <1>3 DEF PositionInv, StepInv, ServerTypeOK, ReaderTypeOK,
       PositionTypeOK, HandleChange, Sending, Receiving
  <2>6. ReceivedInv'
    BY <1>3 DEF ReceivedInv, Received, PositionInv, StepInv, ServerTypeOK,
       HandleChange, Sending, Receiving
  <2> QED BY <2>1, <2>2, <2>3, <2>4, <2>5, <2>6
<1> QED BY <1>1, <1>2, <1>3

\* A transaction is complete, and is handed over.
LEMMA CommitStep ==
  ASSUME Inv, HandleCommit \/ deliver
  PROVE  Inv'
<1> USE ConstantTypes DEF serverVars, slotVars, buildVars, ackVars, outVars, WalEnd,
        Inv, TypeOK, Live
<1>1. CASE HandleCommit
  <2>1. ServerTypeOK'
    BY <1>1 DEF ServerTypeOK, HandleCommit, Sending, Receiving, advanceAck
  <2>2. ReaderTypeOK'
    BY <1>1 DEF ReaderTypeOK, ServerTypeOK, HandleCommit, Sending, Receiving,
       advanceAck
  <2>3. PositionTypeOK'
    BY <1>1 DEF PositionTypeOK, ServerTypeOK, ReaderTypeOK, HandleCommit,
       Sending, Receiving, advanceAck
  <2>4. StepInv'
    BY <1>1 DEF StepInv, ServerTypeOK, ReaderTypeOK, HandleCommit, Sending,
       Receiving, advanceAck
  <2>5. PositionInv'
    BY <1>1 DEF PositionInv, StepInv, ServerTypeOK, ReaderTypeOK,
       PositionTypeOK, HandleCommit, Sending, Receiving, advanceAck
  <2>6. ReceivedInv'
    BY <1>1 DEF ReceivedInv, Received, PositionInv, StepInv, ServerTypeOK,
       HandleCommit, Sending, Receiving, advanceAck
  <2> QED BY <2>1, <2>2, <2>3, <2>4, <2>5, <2>6
<1>2. CASE deliver
  <2>1. ServerTypeOK'
    BY <1>2 DEF ServerTypeOK, deliver
  <2>2. ReaderTypeOK'
    <3>1. changes' \in Changes /\ pc' = "loop" /\ pending' = 0
      BY <1>2, NoChangesType DEF deliver
    <3>2. UNCHANGED <<wal, at, connected, ctxDone, slots, slotStart, relCache,
                      inFlight>>
      BY <1>2 DEF deliver
    <3> QED BY <3>1, <3>2 DEF ReaderTypeOK, ServerTypeOK
  <2>3. PositionTypeOK'
    <3>1. [lsn |-> pending, changes |-> changes]
            \in [lsn : 1 .. Len(wal), changes : Changes]
      BY <1>2 DEF deliver, ReaderTypeOK, StepInv, ServerTypeOK
    <3>2. handed' \in Seq([lsn : 1 .. Len(wal), changes : Changes])
      BY <1>2, <3>1 DEF deliver, PositionTypeOK
    <3>3. txCh' \in 0 .. ChanCap
      BY <1>2 DEF deliver, PositionTypeOK
    <3>4. UNCHANGED <<wal, ackLSN, confirmed, currentLSN, start>>
      BY <1>2 DEF deliver
    <3> QED BY <3>2, <3>3, <3>4 DEF PositionTypeOK
  <2>4. StepInv'
    BY <1>2 DEF StepInv, ServerTypeOK, ReaderTypeOK, deliver
  <2>5. PositionInv'
    BY <1>2 DEF PositionInv, StepInv, ServerTypeOK, ReaderTypeOK,
       PositionTypeOK, deliver
  <2>6. ReceivedInv'
    <3> SUFFICES ASSUME NEW t \in slotStart' .. at' - 1, wal'[t].published
                 PROVE  Received(t)'
      BY DEF ReceivedInv
    <3>1. Received(t)
      BY <1>2 DEF deliver, ReceivedInv
    <3>2. handed' = Append(handed, [lsn |-> pending, changes |-> changes])
      BY <1>2 DEF deliver
    <3>3. handed \in Seq([lsn : 1 .. Len(wal), changes : Changes])
      BY DEF PositionTypeOK
    <3>4. CASE pending = t
      <4>1. Len(handed) + 1 \in DOMAIN handed' /\ handed'[Len(handed) + 1].lsn = t
        BY <3>2, <3>3, <3>4
      <4> QED BY <4>1 DEF Received
    <3>5. CASE \E i \in DOMAIN handed : handed[i].lsn = t
      <4>1. PICK i \in DOMAIN handed : handed[i].lsn = t
        BY <3>5
      <4>2. i \in DOMAIN handed' /\ handed'[i] = handed[i]
        BY <3>2, <3>3
      <4> QED BY <4>1, <4>2 DEF Received
    <3> QED BY <3>1, <3>4, <3>5 DEF Received
  <2> QED BY <2>1, <2>2, <2>3, <2>4, <2>5, <2>6
<1> QED BY <1>1, <1>2

\* Keepalives and status updates.
LEMMA AckStep ==
  ASSUME Inv, Keepalive \/ Standby \/ DeliverTick
  PROVE  Inv'
<1> USE ConstantTypes DEF serverVars, slotVars, buildVars, ackVars, outVars, WalEnd,
        Inv, TypeOK, Live
<1>1. CASE Keepalive
  <2>1. ServerTypeOK'
    BY <1>1 DEF ServerTypeOK, Keepalive, Receiving, Sent, advanceAck,
       sendStandby
  <2>2. ReaderTypeOK'
    BY <1>1 DEF ReaderTypeOK, ServerTypeOK, Keepalive, Receiving, Sent,
       advanceAck, sendStandby
  <2>3. PositionTypeOK'
    <3>1. PICK lsn \in Sent, reply \in BOOLEAN :
            /\ ackLSN' = IF inFlight = 0 THEN advanceAck(lsn) ELSE ackLSN
            /\ IF reply THEN sendStandby(ackLSN') ELSE UNCHANGED confirmed
      BY <1>1 DEF Keepalive
    <3>2. inFlight = 0 => lsn = at
      BY <1>1 DEF Keepalive, Receiving, Sent, StepInv
    <3>3. ackLSN' \in 0 .. WalEnd
      BY <3>1, <3>2 DEF advanceAck, PositionTypeOK, ServerTypeOK
    <3>4. confirmed' \in 0 .. WalEnd
      BY <3>1, <3>3 DEF sendStandby, PositionTypeOK
    <3>5. UNCHANGED <<wal, currentLSN, start, txCh, handed>>
      BY <1>1 DEF Keepalive
    <3> QED BY <3>3, <3>4, <3>5 DEF PositionTypeOK
  <2>4. StepInv'
    BY <1>1 DEF StepInv, ServerTypeOK, ReaderTypeOK, Keepalive, Receiving, Sent,
       advanceAck, sendStandby
  <2>5. PositionInv'
    BY <1>1 DEF PositionInv, StepInv, ServerTypeOK, ReaderTypeOK,
       PositionTypeOK, Keepalive, Receiving, Sent, advanceAck, sendStandby
  <2>6. ReceivedInv'
    BY <1>1 DEF ReceivedInv, Received, PositionInv, StepInv, ServerTypeOK,
       Keepalive, Receiving, Sent, advanceAck, sendStandby
  <2> QED BY <2>1, <2>2, <2>3, <2>4, <2>5, <2>6
<1>2. CASE Standby
  <2>1. ServerTypeOK'
    BY <1>2 DEF ServerTypeOK, Standby, Receiving, sendStandby
  <2>2. ReaderTypeOK'
    BY <1>2 DEF ReaderTypeOK, ServerTypeOK, Standby, Receiving, sendStandby
  <2>3. PositionTypeOK'
    BY <1>2 DEF PositionTypeOK, ServerTypeOK, ReaderTypeOK, Standby, Receiving,
       sendStandby
  <2>4. StepInv'
    BY <1>2 DEF StepInv, ServerTypeOK, ReaderTypeOK, Standby, Receiving,
       sendStandby
  <2>5. PositionInv'
    BY <1>2 DEF PositionInv, StepInv, ServerTypeOK, ReaderTypeOK,
       PositionTypeOK, Standby, Receiving, sendStandby
  <2>6. ReceivedInv'
    BY <1>2 DEF ReceivedInv, Received, PositionInv, StepInv, ServerTypeOK,
       Standby, Receiving, sendStandby
  <2> QED BY <2>1, <2>2, <2>3, <2>4, <2>5, <2>6
<1>3. CASE DeliverTick
  <2>1. ServerTypeOK'
    BY <1>3 DEF ServerTypeOK, DeliverTick, sendStandby
  <2>2. ReaderTypeOK'
    BY <1>3 DEF ReaderTypeOK, ServerTypeOK, DeliverTick, sendStandby
  <2>3. PositionTypeOK'
    BY <1>3 DEF PositionTypeOK, ServerTypeOK, ReaderTypeOK, DeliverTick,
       sendStandby
  <2>4. StepInv'
    BY <1>3 DEF StepInv, ServerTypeOK, ReaderTypeOK, DeliverTick, sendStandby
  <2>5. PositionInv'
    BY <1>3 DEF PositionInv, StepInv, ServerTypeOK, ReaderTypeOK,
       PositionTypeOK, DeliverTick, sendStandby
  <2>6. ReceivedInv'
    BY <1>3 DEF ReceivedInv, Received, PositionInv, StepInv, ServerTypeOK,
       DeliverTick, sendStandby
  <2> QED BY <2>1, <2>2, <2>3, <2>4, <2>5, <2>6
<1> QED BY <1>1, <1>2, <1>3

\* The log grows.
LEMMA WriteStep ==
  ASSUME Inv, Write
  PROVE  Inv'
<1> USE ConstantTypes DEF serverVars, slotVars, buildVars, ackVars, outVars, WalEnd,
        Inv, TypeOK, Live
<1>1. CASE Write
  <2>1. ServerTypeOK'
    BY <1>1 DEF ServerTypeOK, Write
  <2>2. ReaderTypeOK'
    BY <1>1 DEF ReaderTypeOK, ServerTypeOK, Write
  <2>3. PositionTypeOK'
    <3>1. wal' \in Seq(Records) /\ Len(wal') = Len(wal) + 1 /\ Len(wal) \in Nat
      BY <1>1 DEF Write, ServerTypeOK
    <3>2. UNCHANGED <<ackLSN, confirmed, currentLSN, start, txCh, handed>>
      BY <1>1 DEF Write
    <3>3. [lsn : 1 .. Len(wal), changes : Changes]
            \subseteq [lsn : 1 .. Len(wal'), changes : Changes]
      BY <3>1
    <3>4. handed' \in Seq([lsn : 1 .. Len(wal'), changes : Changes])
      BY <3>2, <3>3, SeqSubset DEF PositionTypeOK
    <3> QED BY <3>1, <3>2, <3>4 DEF PositionTypeOK
  <2>4. StepInv'
    BY <1>1 DEF StepInv, ServerTypeOK, ReaderTypeOK, Write
  <2>5. PositionInv'
    BY <1>1 DEF PositionInv, StepInv, ServerTypeOK, ReaderTypeOK,
       PositionTypeOK, Write
  <2>6. ReceivedInv'
    <3>1. \A t \in slotStart .. at - 1 : wal'[t] = wal[t]
      BY <1>1 DEF Write, ServerTypeOK, ReaderTypeOK
    <3>2. UNCHANGED <<pc, pending, handed, slotStart, at>>
      BY <1>1 DEF Write
    <3> QED BY <3>1, <3>2 DEF ReceivedInv, Received
  <2> QED BY <2>1, <2>2, <2>3, <2>4, <2>5, <2>6
<1> QED BY <1>1

LEMMA NextInv == Inv /\ [Next]_vars => Inv'
<1> SUFFICES ASSUME Inv, [Next]_vars PROVE Inv'
  OBVIOUS
<1>1. CASE Next
  BY <1>1, WorldStep, ConnectStep, BuildStep, CommitStep, AckStep, WriteStep
     DEF Next, Messages
<1>2. CASE UNCHANGED vars
  <2> USE <1>2 DEF vars, serverVars, slotVars, buildVars, ackVars, outVars
  <2>1. ServerTypeOK'
    BY DEF Inv, TypeOK, ServerTypeOK, WalEnd
  <2>2. ReaderTypeOK'
    BY DEF Inv, TypeOK, ReaderTypeOK, WalEnd
  <2>3. PositionTypeOK'
    BY DEF Inv, TypeOK, PositionTypeOK, WalEnd
  <2>4. StepInv'
    BY DEF Inv, StepInv, Live
  <2>5. PositionInv'
    BY DEF Inv, PositionInv, Live
  <2>6. ReceivedInv'
    BY DEF Inv, ReceivedInv, Received, Live
  <2> QED BY <2>1, <2>2, <2>3, <2>4, <2>5, <2>6 DEF Inv, TypeOK
<1> QED BY <1>1, <1>2

LEMMA AlwaysInv == Spec => []Inv
BY InitInv, NextInv, PTL DEF Spec

\* The reader, the walsender's cursor and the log keep their types, every
\* position lies within the log, and txCh keeps its capacity.
THEOREM TypeCorrect == Spec => []TypeOK
<1>1. Inv => TypeOK
  BY DEF Inv
<1> QED BY <1>1, AlwaysInv, PTL

\* However keepalives, deadlines and broken connections interleave with the
\* messages of a transaction: the server is never told to forget one that has
\* not been received whole.
THEOREM NothingConfirmedEarly == Spec => []ConfirmedIsReceived
<1>1. Inv => ConfirmedIsReceived
  <2> SUFFICES ASSUME Inv, Live, NEW t \in slotStart .. confirmed - 1,
                      wal[t].published
               PROVE  Received(t)
    BY DEF ConfirmedIsReceived, Live
  <2>1. t \in slotStart .. at - 1
    BY DEF Inv, TypeOK, ServerTypeOK, ReaderTypeOK, PositionTypeOK, PositionInv
  <2> QED BY <2>1 DEF Inv, ReceivedInv
<1> QED BY <1>1, AlwaysInv, PTL

\* A client that takes the reader's position as its StartLSN, whenever it does
\* so, is shown every commit that is read afterwards, with the one exception of
\* a commit at the consistent point of the slot.
THEOREM StartNeverHides == Spec => StartHidesNothing
<1>1. ASSUME Inv, Next, pending' # pending, pending' # 0
      PROVE  pending' > start \/ pending' = slotStart
  <2>1. HandleCommit /\ pending' = at
    <3>1. HandleCommit
      BY <1>1 DEF Next, Messages, Write, PassRecord, Consume, parseSinceLSN,
         Signal, Connect, CreateSlot, StartReplication, ConnectionLost, Stop,
         HandleBegin, HandleRelation, HandleChange, Keepalive, Standby, deliver,
         DeliverTick, outVars
    <3> QED BY <1>1, <3>1 DEF HandleCommit
  <2>2. currentLSN < at \/ at = slotStart
    BY <1>1, <2>1 DEF HandleCommit, Sending, Receiving, Inv, PositionInv, Live
  <2>3. start <= currentLSN
    BY <1>1 DEF Inv, PositionInv
  <2> QED BY <1>1, <2>1, <2>2, <2>3 DEF Inv, TypeOK, ServerTypeOK, PositionTypeOK,
      WalEnd
<1>2. Inv /\ [Next]_vars =>
        [pending' # pending /\ pending' # 0 =>
           pending' > start \/ pending' = slotStart]_vars
  BY <1>1
<1> QED BY <1>2, AlwaysInv, PTL DEF Spec, StartHidesNothing
----------------------------------------------------------------------------
(* The refinement of CommitFeed.  It rests on what has been rebuilt of the *)
(* transaction at the cursor, and on there being nothing published between *)
(* the last transaction handed over and the one in hand.                   *)

CacheInv ==
  Live => \A t \in Tables : told[t] \in Usable => relCache[t] = told[t]

BuiltInv ==
  /\ inFlight # 0 =>
       /\ DOMAIN changes \subseteq 1 .. step - 1
       /\ \A i \in 1 .. step - 1 : wal[at].rows[i].shape \in Usable =>
            i \in DOMAIN changes /\ changes[i] = wal[at].rows[i].shape
  /\ pc = "deliver" => changes \in Whole(wal[pending])

NonePublished(from, to) == \A t \in from .. to : ~wal[t].published

GapInv ==
  /\ HandedUpTo \in 0 .. Len(wal)
  /\ pc = "start" => HandedUpTo = slotStart - 1
  /\ pc = "loop" => HandedUpTo < at /\ NonePublished(HandedUpTo + 1, at - 1)
  /\ pc = "deliver" =>
       /\ HandedUpTo < pending /\ pending < at /\ slotStart <= pending
       /\ wal[pending].published
       /\ NonePublished(HandedUpTo + 1, pending - 1)
       /\ NonePublished(pending + 1, at - 1)

FeedInv == CacheInv /\ BuiltInv /\ GapInv

\* The position handed over changes with the slot and with deliver only.
LEMMA UpToStays ==
  ASSUME UNCHANGED <<handed, slotStart>>
  PROVE  HandedUpTo' = HandedUpTo
BY DEF HandedUpTo

LEMMA DeliverUpTo ==
  ASSUME Inv, GapInv, deliver
  PROVE  HandedUpTo' = pending
<1>1. handed' = Append(handed, [lsn |-> pending, changes |-> changes])
      /\ slotStart' = slotStart /\ slotStart <= pending
  BY DEF deliver, slotVars, GapInv
<1>2. handed \in Seq([lsn : 1 .. Len(wal), changes : Changes])
  BY DEF Inv, TypeOK, PositionTypeOK
<1>3. handed' # <<>> /\ handed'[Len(handed')].lsn = pending
  BY <1>1, <1>2
<1> QED BY <1>1, <1>3 DEF HandedUpTo

LEMMA SlotUpTo ==
  ASSUME Inv, CreateSlot
  PROVE  HandedUpTo' = Len(wal)
<1>1. handed' = handed /\ slotStart' = Len(wal) + 1 /\ Len(wal) \in Nat
  BY DEF CreateSlot, outVars, WalEnd, Inv, TypeOK, ServerTypeOK
<1>2. handed # <<>> => handed[Len(handed)].lsn \in 1 .. Len(wal)
  <2>1. handed \in Seq([lsn : 1 .. Len(wal), changes : Changes])
    BY DEF Inv, TypeOK, PositionTypeOK
  <2>2. handed # <<>> =>
          handed[Len(handed)] \in [lsn : 1 .. Len(wal), changes : Changes]
    <3>1. handed # <<>> => Len(handed) \in 1 .. Len(handed)
      BY <2>1
    <3> QED BY <2>1, <3>1, ElementType
  <2> QED BY <2>2
<1> QED BY <1>1, <1>2 DEF HandedUpTo

LEMMA InitFeed == Init => FeedInv /\ Feed!Init
<1> SUFFICES ASSUME Init PROVE FeedInv /\ Feed!Init
  OBVIOUS
<1>1. HandedUpTo = 0 /\ wal = <<>> /\ handed = <<>> /\ slots = 0 /\ pc = "down"
      /\ inFlight = 0
  BY DEF Init, HandedUpTo
<1>2. FeedInv
  BY <1>1 DEF FeedInv, CacheInv, BuiltInv, GapInv, Live
<1>3. Feed!Init
  BY <1>1 DEF Feed!Init
<1> QED BY <1>2, <1>3

\* The relation cache.
LEMMA NextCache ==
  ASSUME Inv, CacheInv, Next
  PROVE  CacheInv'
<1> USE DEF CacheInv, Live, serverVars, slotVars, buildVars, ackVars, outVars
<1>1. CASE StartReplication
  <2>1. told' = None /\ relCache' = None
    BY <1>1 DEF StartReplication
  <2> QED BY <2>1, ConstantTypes DEF None
<1>2. CASE HandleRelation
  <2>1. wal[at] \in Records /\ step \in 1 .. Len(wal[at].rows)
    BY <1>2, ElementType DEF Inv, TypeOK, ServerTypeOK, HandleRelation, Sending,
       Receiving
  <2>2. NextRow.table \in Tables
    BY <2>1, RowTypes DEF NextRow
  <2>3. told' = [told EXCEPT ![NextRow.table] = NextRow.shape] /\ pc = "loop"
        /\ relCache' = IF NextRow.shape \in Usable
                         THEN [relCache EXCEPT ![NextRow.table] = NextRow.shape]
                         ELSE relCache
    BY <1>2 DEF HandleRelation, Sending, Receiving, Update
  <2>4. told \in [Tables -> Shapes \cup {NoShape}]
        /\ relCache \in [Tables -> Usable \cup {NoShape}]
    BY DEF Inv, TypeOK, ServerTypeOK, ReaderTypeOK
  <2>5. ASSUME NEW t \in Tables, told'[t] \in Usable
        PROVE  relCache'[t] = told'[t]
    <3>1. CASE t = NextRow.table
      BY <2>2, <2>3, <2>4, <2>5, <3>1
    <3>2. CASE t # NextRow.table
      BY <2>2, <2>3, <2>4, <2>5, <3>2
    <3> QED BY <3>1, <3>2
  <2> QED BY <2>5
<1>3. CASE ~(StartReplication \/ HandleRelation)
  <2>1. UNCHANGED <<told, relCache>> /\ (Live' => Live)
    BY <1>3 DEF Next, Messages, Write, PassRecord, Consume, parseSinceLSN,
       Signal,
       Connect, CreateSlot, ConnectionLost, Stop, HandleBegin, HandleChange,
       HandleCommit, Keepalive, Standby, deliver, DeliverTick, Sending, Receiving
  <2> QED BY <2>1
<1> QED BY <1>1, <1>2, <1>3

\* The transaction being rebuilt.
LEMMA NextBuilt ==
  ASSUME Inv, CacheInv, BuiltInv, Next
  PROVE  BuiltInv'
<1> USE DEF serverVars, slotVars, buildVars, ackVars, outVars
<1>1. CASE StartReplication \/ ConnectionLost \/ Stop
  <2>1. inFlight' = 0 /\ pc' # "deliver"
    BY <1>1 DEF StartReplication, ConnectionLost, Stop
  <2> QED BY <2>1 DEF BuiltInv
<1>2. CASE HandleBegin
  <2>1. changes' = NoChanges /\ step' = 1 /\ pc' = "loop"
    BY <1>2 DEF HandleBegin, Sending, Receiving
  <2> QED BY <2>1 DEF BuiltInv, NoChanges
<1>3. CASE HandleChange
  <2>1. wal[at] \in Records /\ step \in 1 .. Len(wal[at].rows)
    BY <1>3, ElementType DEF Inv, TypeOK, ServerTypeOK, HandleChange, Sending,
       Receiving
  <2>2. NextRow.table \in Tables /\ NextRow = wal[at].rows[step]
    BY <2>1, RowTypes DEF NextRow
  <2>3. step' = step + 1 /\ pc' = "loop" /\ inFlight' = inFlight
        /\ UNCHANGED <<wal, at>> /\ told[NextRow.table] = NextRow.shape
    BY <1>3 DEF HandleChange, Sending, Receiving
  <2>4. inFlight # 0
    BY <1>3, <2>1 DEF Inv, StepInv, HandleChange, Sending, Receiving
  <2>5. NextRow.shape \in Usable => relCache[NextRow.table] = NextRow.shape
    BY <1>3, <2>2, <2>3 DEF CacheInv, Live, HandleChange, Sending, Receiving
  <2>6. DOMAIN changes \subseteq 1 .. step - 1
        /\ \A i \in 1 .. step - 1 : wal[at].rows[i].shape \in Usable =>
             i \in DOMAIN changes /\ changes[i] = wal[at].rows[i].shape
    BY <2>4 DEF BuiltInv
  <2>7. CASE relCache[NextRow.table] = NoShape
    <3>1. changes' = changes
      BY <1>3, <2>7 DEF HandleChange, Decoded
    <3>2. NextRow.shape \notin Usable
      BY <2>5, <2>7, ConstantTypes
    <3>3. \A i \in 1 .. step' - 1 : i \in 1 .. step - 1 \/ i = step
      BY <2>1, <2>3
    <3>4. 1 .. step - 1 \subseteq 1 .. step' - 1
      BY <2>1, <2>3
    <3> QED BY <2>2, <2>3, <2>6, <3>1, <3>2, <3>3, <3>4 DEF BuiltInv
  <2>8. CASE relCache[NextRow.table] # NoShape
    <3>1. changes' = [i \in DOMAIN changes \cup {step} |->
            IF i = step THEN relCache[NextRow.table] ELSE changes[i]]
      BY <1>3, <2>4, <2>8 DEF HandleChange, Decoded
    <3>2. DOMAIN changes' \subseteq 1 .. step' - 1
      BY <2>1, <2>3, <2>6, <3>1
    <3>3. ASSUME NEW i \in 1 .. step' - 1, wal[at].rows[i].shape \in Usable
          PROVE  i \in DOMAIN changes' /\ changes'[i] = wal[at].rows[i].shape
      <4>1. CASE i = step
        BY <2>2, <2>5, <3>1, <3>3, <4>1
      <4>2. CASE i # step
        <5>1. i \in 1 .. step - 1
          BY <2>1, <2>3, <3>3, <4>2
        <5> QED BY <2>6, <3>1, <3>3, <4>2, <5>1
      <4> QED BY <4>1, <4>2
    <3> QED BY <2>3, <3>2, <3>3 DEF BuiltInv
  <2> QED BY <2>7, <2>8
<1>4. CASE HandleCommit
  <2>1. wal[at] \in Records /\ step = Len(wal[at].rows) + 1 /\ pc = "loop"
    BY <1>4, ElementType DEF Inv, TypeOK, ServerTypeOK, HandleCommit, Sending,
       Receiving
  <2>2. Len(wal[at].rows) \in Nat /\ DOMAIN wal[at].rows = 1 .. Len(wal[at].rows)
    BY <2>1, RecordTypes
  <2>3. inFlight # 0
    BY <2>1, <2>2 DEF Inv, StepInv
  <2>4. inFlight' = 0 /\ pending' = at /\ UNCHANGED <<wal, changes>>
    BY <1>4, <2>3 DEF HandleCommit
  <2>5. step - 1 = Len(wal[at].rows)
    BY <2>1, <2>2
  <2>6. changes \in Whole(wal[at])
    BY <2>2, <2>3, <2>5 DEF BuiltInv, Whole, Inv, TypeOK, ReaderTypeOK
  <2> QED BY <2>4, <2>6 DEF BuiltInv
<1>5. CASE deliver
  <2>1. inFlight' = 0 /\ pc' = "loop"
    BY <1>5 DEF deliver, Inv, StepInv
  <2> QED BY <2>1 DEF BuiltInv
<1>6. CASE Write
  <2>1. \A i \in 1 .. Len(wal) : wal'[i] = wal[i]
    BY <1>6 DEF Write, Inv, TypeOK, ServerTypeOK
  <2>2. inFlight # 0 => at \in 1 .. Len(wal)
    BY DEF Inv, StepInv, TypeOK, ServerTypeOK
  <2>3. pc = "deliver" => pending \in 1 .. Len(wal)
    BY DEF Inv, StepInv, TypeOK, ReaderTypeOK, ServerTypeOK
  <2>4. UNCHANGED <<pc, inFlight, changes, step, at, pending>>
    BY <1>6 DEF Write
  <2> QED BY <2>1, <2>2, <2>3, <2>4 DEF BuiltInv, Whole
<1>7. CASE PassRecord
  <2>1. inFlight = 0 /\ UNCHANGED <<wal, pc, inFlight, changes, pending>>
    BY <1>7 DEF PassRecord, Inv, StepInv
  <2> QED BY <2>1 DEF BuiltInv
<1>8. CASE ~(StartReplication \/ ConnectionLost \/ Stop \/ HandleBegin
             \/ HandleChange \/ HandleCommit \/ deliver \/ Write \/ PassRecord)
  <2>1. UNCHANGED <<wal, at, step, inFlight, changes, pending>>
        /\ (pc' = "deliver" => pc = "deliver")
    BY <1>8 DEF Next, Messages, Consume, parseSinceLSN, Signal, Connect,
       CreateSlot, HandleRelation, Keepalive, Standby, DeliverTick
  <2> QED BY <2>1 DEF BuiltInv
<1> QED BY <1>1, <1>2, <1>3, <1>4, <1>5, <1>6, <1>7, <1>8

\* Nothing published is passed over.
LEMMA NextGap ==
  ASSUME Inv, GapInv, Next
  PROVE  GapInv'
<1> USE DEF serverVars, slotVars, buildVars, ackVars, outVars
<1>1. Len(wal) \in Nat /\ at \in 1 .. Len(wal) + 1 /\ slotStart \in 1 .. Len(wal) + 1
      /\ pending \in 0 .. Len(wal) /\ wal \in Seq(Records)
      /\ HandedUpTo \in 0 .. Len(wal)
  BY DEF Inv, TypeOK, ServerTypeOK, ReaderTypeOK, WalEnd, GapInv
<1>2. CASE CreateSlot
  <2>1. HandedUpTo' = Len(wal) /\ slotStart' = Len(wal) + 1 /\ wal' = wal
        /\ pc' = "start"
    BY <1>2, SlotUpTo DEF CreateSlot, WalEnd
  <2> QED BY <1>1, <2>1 DEF GapInv
<1>3. CASE deliver
  <2>1. HandedUpTo' = pending /\ pc = "deliver" /\ pc' = "loop"
        /\ UNCHANGED <<wal, at>>
    BY <1>3, DeliverUpTo DEF deliver
  <2> QED BY <1>1, <2>1 DEF GapInv, NonePublished
<1>4. CASE Write
  <2>1. \A i \in 1 .. Len(wal) : wal'[i] = wal[i]
    BY <1>1, <1>4 DEF Write
  <2>2. Len(wal') = Len(wal) + 1
    BY <1>1, <1>4 DEF Write
  <2>3. HandedUpTo' = HandedUpTo /\ UNCHANGED <<pc, at, pending, slotStart>>
    BY <1>4, UpToStays DEF Write
  <2> QED BY <1>1, <2>1, <2>2, <2>3 DEF GapInv, NonePublished
<1>5. CASE PassRecord
  <2>1. at' = at + 1 /\ at <= Len(wal) /\ ~wal[at].published
        /\ UNCHANGED <<wal, pc, pending, slotStart>> /\ HandedUpTo' = HandedUpTo
    BY <1>5, UpToStays DEF PassRecord
  <2> QED BY <1>1, <2>1 DEF GapInv, NonePublished
<1>6. CASE StartReplication
  <2>1. at' = slotStart /\ pc = "start" /\ pc' = "loop" /\ wal' = wal
        /\ HandedUpTo' = HandedUpTo
    BY <1>6, UpToStays DEF StartReplication
  <2> QED BY <1>1, <2>1 DEF GapInv, NonePublished
<1>7. CASE HandleCommit
  <2>1. pc = "loop" /\ at <= Len(wal) /\ wal[at].published
        /\ step = Len(wal[at].rows) + 1 /\ at' = at + 1
        /\ UNCHANGED <<wal, slotStart>> /\ HandedUpTo' = HandedUpTo
    BY <1>7, UpToStays DEF HandleCommit, Sending, Receiving
  <2>2. inFlight # 0
    <3>1. Len(wal[at].rows) \in Nat
      BY <1>1, <2>1, ElementType, RecordTypes
    <3> QED BY <2>1, <3>1 DEF Inv, StepInv
  <2>3. pending' = at /\ pc' = "deliver"
    BY <1>7, <2>2 DEF HandleCommit
  <2>4. slotStart <= at
    BY <2>1 DEF Inv, PositionInv, Live
  <2> QED BY <1>1, <2>1, <2>3, <2>4 DEF GapInv, NonePublished
<1>8. CASE ~(CreateSlot \/ deliver \/ Write \/ PassRecord \/ StartReplication
             \/ HandleCommit)
  <2>1. UNCHANGED <<wal, at, slotStart, handed>>
        /\ (\/ pc' = pc /\ pending' = pending
            \/ pc' \in {"down", "slot", "stopped"})
    BY <1>8 DEF Next, Messages, Consume, parseSinceLSN, Signal, Connect,
       ConnectionLost, Stop, HandleBegin, HandleRelation, HandleChange, Keepalive,
       Standby, DeliverTick
  <2>2. HandedUpTo' = HandedUpTo
    BY <2>1, UpToStays
  <2> QED BY <2>1, <2>2 DEF GapInv, NonePublished
<1> QED BY <1>2, <1>3, <1>4, <1>5, <1>6, <1>7, <1>8

LEMMA NextFeedInv == Inv /\ FeedInv /\ [Next]_vars => FeedInv'
<1> SUFFICES ASSUME Inv, FeedInv, [Next]_vars PROVE FeedInv'
  OBVIOUS
<1>1. CASE Next
  BY <1>1, NextCache, NextBuilt, NextGap DEF FeedInv
<1>2. CASE UNCHANGED vars
  <2>1. HandedUpTo' = HandedUpTo
    BY <1>2, UpToStays DEF vars, outVars, slotVars
  <2>2. UNCHANGED <<wal, at, step, told, pc, slotStart, relCache, inFlight, changes,
                    pending>>
    BY <1>2 DEF vars, serverVars, slotVars, buildVars, outVars
  <2>3. CacheInv'
    BY <2>2 DEF FeedInv, CacheInv, Live
  <2>4. BuiltInv'
    BY <2>2 DEF FeedInv, BuiltInv
  <2>5. GapInv'
    BY <2>1, <2>2 DEF FeedInv, GapInv, NonePublished
  <2> QED BY <2>3, <2>4, <2>5 DEF FeedInv
<1> QED BY <1>1, <1>2

LEMMA NextFeed ==
  ASSUME Inv, FeedInv, [Next]_vars
  PROVE  [Feed!Next]_(Feed!vars)
<1> USE DEF serverVars, slotVars, buildVars, ackVars, outVars
<1>1. CASE Write
  <2>1. UNCHANGED <<HandedUpTo, handed, slots>>
    BY <1>1, UpToStays DEF Write
  <2>2. \E r \in Records : wal' = Append(wal, r)
    BY <1>1 DEF Write
  <2>3. Feed!Write
    BY <2>1, <2>2 DEF Feed!Write
  <2> QED BY <2>3 DEF Feed!Next
<1>2. CASE deliver
  <2>1. HandedUpTo' = pending /\ UNCHANGED <<wal, slots>> /\ pc = "deliver"
        /\ handed' = Append(handed, [lsn |-> pending, changes |-> changes])
    BY <1>2, DeliverUpTo DEF deliver, FeedInv
  <2>2. pending \in HandedUpTo + 1 .. Len(wal)
    BY <2>1 DEF FeedInv, GapInv, Inv, TypeOK, ServerTypeOK, ReaderTypeOK
  <2>3. IsPublished(wal[pending])
        /\ \A u \in HandedUpTo + 1 .. pending - 1 : ~IsPublished(wal[u])
    BY <2>1 DEF FeedInv, GapInv, NonePublished, IsPublished
  <2>4. changes \in Whole(wal[pending])
    BY <2>1 DEF FeedInv, BuiltInv
  <2>5. Feed!Hand
    BY <2>1, <2>2, <2>3, <2>4 DEF Feed!Hand
  <2> QED BY <2>5 DEF Feed!Next
<1>3. CASE CreateSlot
  <2>1. HandedUpTo' = Len(wal) /\ slots' = slots + 1 /\ UNCHANGED <<wal, handed>>
    BY <1>3, SlotUpTo DEF CreateSlot
  <2>2. Feed!NewSlot
    BY <2>1 DEF Feed!NewSlot
  <2> QED BY <2>2 DEF Feed!Next
<1>4. CASE UNCHANGED vars \/ (Next /\ ~(Write \/ deliver \/ CreateSlot))
  <2>1. UNCHANGED <<wal, handed, slots, slotStart>>
    BY <1>4 DEF vars, Next, Messages, PassRecord, Consume, parseSinceLSN,
       Signal,
       Connect, StartReplication, ConnectionLost, Stop, HandleBegin,
       HandleRelation, HandleChange, HandleCommit, Keepalive, Standby, DeliverTick
  <2>2. HandedUpTo' = HandedUpTo
    BY <2>1, UpToStays
  <2> QED BY <2>1, <2>2 DEF Feed!vars
<1> QED BY <1>1, <1>2, <1>3, <1>4

\* wal.Reader implements CommitFeed, for any tables, shapes and transactions and
\* whatever the connection does: what the router takes from txCh are whole
\* transactions, in commit order, each once, and a gap comes only with a slot.
THEOREM ReaderFeedsCommits == Spec => FeedSpec
<1>1. Init => FeedInv /\ Feed!Init
  BY InitFeed
<1>2. Inv /\ FeedInv /\ [Next]_vars => FeedInv' /\ [Feed!Next]_(Feed!vars)
  BY NextFeedInv, NextFeed
<1> QED BY <1>1, <1>2, AlwaysInv, PTL DEF Spec, FeedSpec, Feed!Spec
=============================================================================
