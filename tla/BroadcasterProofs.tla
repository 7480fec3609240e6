------------------------- MODULE BroadcasterProofs -------------------------
(***************************************************************************)
(* Theorems about Broadcaster, for every value of its constants.           *)
(***************************************************************************)
EXTENDS Broadcaster, SequenceTheorems, TLAPS

LEMMA ConstantTypes == MaxTx \in Nat /\ SinceLSNs \subseteq Nat
BY TxAssumption

LEMMA CapType == \A s \in Subs : QueueCap(s) \in Nat \ {0}
BY BufferAssumption DEF QueueCap

\* Receiving from a channel keeps its bounds and what its elements satisfy.
LEMMA TailChannel ==
  ASSUME NEW S, NEW q \in Seq(S), q # <<>>, NEW cap \in Nat, Len(q) <= cap,
         NEW n, \A i \in 1 .. Len(q) : q[i] <= n
  PROVE  /\ Tail(q) \in Seq(S) /\ Len(Tail(q)) <= cap
         /\ \A i \in 1 .. Len(Tail(q)) : Tail(q)[i] <= n
<1>1. Tail(q) \in Seq(S) /\ Len(Tail(q)) = Len(q) - 1 /\ Len(q) \in Nat
  OBVIOUS
<1>2. \A i \in 1 .. Len(Tail(q)) : Tail(q)[i] = q[i + 1]
  OBVIOUS
<1> QED BY <1>1, <1>2

\* Discarding the frames slice of one handler.
LEMMA EmptyBatch ==
  ASSUME NEW f \in [Subs -> Seq(LSNs)], NEW s \in Subs,
         \A u \in Subs : Len(f[u]) <= QueueCap(u)
  PROVE  /\ [f EXCEPT ![s] = <<>>] \in [Subs -> Seq(LSNs)]
         /\ \A u \in Subs : Len([f EXCEPT ![s] = <<>>][u]) <= QueueCap(u)
<1>1. <<>> \in Seq(LSNs) /\ Len(<<>>) = 0
  OBVIOUS
<1>2. [f EXCEPT ![s] = <<>>] \in [Subs -> Seq(LSNs)]
  BY <1>1
<1>3. ASSUME NEW u \in Subs PROVE Len([f EXCEPT ![s] = <<>>][u]) <= QueueCap(u)
  BY <1>1, CapType
<1> QED BY <1>2, <1>3
----------------------------------------------------------------------------
(* Types.  TypeOK alone is not inductive: that stream never gathers more   *)
(* frames than its queue holds rests on the frames slice being empty       *)
(* whenever the handler is outside the batch.                              *)

BatchInUse ==
  \A s \in Subs : hpc[s] \notin {"batch", "check", "write"} => batch[s] = <<>>

TypeInv == TypeOK /\ BatchInUse

LEMMA InitType == Init => TypeInv
<1> SUFFICES ASSUME Init PROVE TypeInv
  OBVIOUS
<1>1. ReaderTypeOK
  BY ConstantTypes DEF Init, ReaderTypeOK, LSNs
<1>2. FlagTypeOK
  BY DEF Init, FlagTypeOK
<1>3. ChannelTypeOK
  BY BufferAssumption DEF Init, ChannelTypeOK, LSNs
<1>4. RouterTypeOK /\ IndexTypeOK
  BY DEF Init, RouterTypeOK, IndexTypeOK
<1>5. HandlerTypeOK
  BY ConstantTypes DEF Init, HandlerTypeOK, Unopened, HandlerPCs
<1>6. DropTypeOK
  BY DEF Init, DropTypeOK
<1>7. FrameTypeOK /\ BatchInUse
  BY CapType DEF Init, FrameTypeOK, BatchInUse, LSNs
<1> QED BY <1>1, <1>2, <1>3, <1>4, <1>5, <1>6, <1>7 DEF TypeInv, TypeOK

\* Steps of Postgres, of the reader and of the signal keep the types.
LEMMA ReaderType ==
  ASSUME TypeInv, Commit \/ Reader \/ Reconnect \/ Signal
  PROVE  TypeInv'
<1> USE DEF TypeInv, TypeOK, Goto, readerVars, routerVars, shutVars, handlerVars,
        dropVars, startVars, outVars
<1>1. CASE Commit
  <2>1. ReaderTypeOK'
    BY <1>1, ConstantTypes DEF ReaderTypeOK, Commit, LSNs
  <2>2. ChannelTypeOK'
    BY <1>1, ConstantTypes DEF ChannelTypeOK, Commit, ReaderTypeOK, LSNs
  <2>3. RouterTypeOK'
    BY <1>1 DEF RouterTypeOK, Commit, ReaderTypeOK
  <2>4. FlagTypeOK' /\ IndexTypeOK' /\ HandlerTypeOK' /\ DropTypeOK' /\
     FrameTypeOK' /\ BatchInUse'
    BY <1>1 DEF FlagTypeOK, IndexTypeOK, HandlerTypeOK, DropTypeOK,
       FrameTypeOK, BatchInUse, Commit
  <2> QED BY <2>1, <2>2, <2>3, <2>4
<1>2. CASE ReadCommit
  <2>1. ReaderTypeOK'
    BY <1>2, ConstantTypes DEF ReaderTypeOK, ReadCommit
  <2>2. FlagTypeOK' /\ ChannelTypeOK' /\ RouterTypeOK' /\ IndexTypeOK' /\
     HandlerTypeOK' /\ DropTypeOK' /\ FrameTypeOK' /\ BatchInUse'
    BY <1>2 DEF FlagTypeOK, ChannelTypeOK, RouterTypeOK, IndexTypeOK,
       HandlerTypeOK, DropTypeOK, FrameTypeOK, BatchInUse, ReadCommit
  <2> QED BY <2>1, <2>2
<1>3. CASE Deliver
  <2>1. ReaderTypeOK'
    BY <1>3, ConstantTypes DEF ReaderTypeOK, Deliver
  <2>2. ChannelTypeOK'
    <3>1. pending \in LSNs /\ pending <= Len(wal)
      BY <1>3, ConstantTypes DEF ReaderTypeOK, Deliver, LSNs
    <3>2. txCh' = Append(txCh, pending) /\ wal' = wal /\ Len(txCh) < ChanCap
      BY <1>3 DEF Deliver
    <3>3. txCh \in Seq(LSNs) /\ \A i \in 1 .. Len(txCh) : txCh[i] <= Len(wal)
      BY DEF ChannelTypeOK
    <3>4. txCh' \in Seq(LSNs) /\ Len(txCh') <= ChanCap
      BY <3>1, <3>2, <3>3, BufferAssumption
    <3>5. \A i \in 1 .. Len(txCh') : txCh'[i] <= Len(wal')
      BY <3>1, <3>2, <3>3
    <3> QED BY <3>4, <3>5 DEF ChannelTypeOK
  <2>3. FlagTypeOK' /\ RouterTypeOK' /\ IndexTypeOK' /\ HandlerTypeOK' /\
     DropTypeOK' /\ FrameTypeOK' /\ BatchInUse'
    BY <1>3 DEF FlagTypeOK, RouterTypeOK, IndexTypeOK, HandlerTypeOK,
       DropTypeOK, FrameTypeOK, BatchInUse, Deliver
  <2> QED BY <2>1, <2>2, <2>3
<1>4. CASE ReaderStop
  <2>1. ReaderTypeOK'
    BY <1>4 DEF ReaderTypeOK, ReaderStop
  <2>2. FlagTypeOK'
    BY <1>4 DEF FlagTypeOK, ReaderStop
  <2>3. ChannelTypeOK' /\ RouterTypeOK' /\ IndexTypeOK' /\ HandlerTypeOK' /\
     DropTypeOK' /\ FrameTypeOK' /\ BatchInUse'
    BY <1>4 DEF ChannelTypeOK, RouterTypeOK, IndexTypeOK, HandlerTypeOK,
       DropTypeOK, FrameTypeOK, BatchInUse, ReaderStop
  <2> QED BY <2>1, <2>2, <2>3
<1>5. CASE Reconnect
  <2>1. ReaderTypeOK'
    <3>1. wal' = wal /\ pending' = pending /\ currentLSN' = Len(wal)
          /\ lost' = lost \cup (currentLSN + 1 .. Len(wal))
      BY <1>5 DEF Reconnect, ConsistentPoint
    <3>2. currentLSN + 1 .. Len(wal) \subseteq LSNs
      BY ConstantTypes DEF ReaderTypeOK, LSNs
    <3> QED BY <3>1, <3>2, ConstantTypes DEF ReaderTypeOK
  <2>2. FlagTypeOK' /\ ChannelTypeOK' /\ RouterTypeOK' /\ IndexTypeOK' /\
     HandlerTypeOK' /\ DropTypeOK' /\ FrameTypeOK' /\ BatchInUse'
    BY <1>5 DEF FlagTypeOK, ChannelTypeOK, RouterTypeOK, IndexTypeOK,
       HandlerTypeOK, DropTypeOK, FrameTypeOK, BatchInUse, Reconnect
  <2> QED BY <2>1, <2>2
<1>6. CASE Signal
  <2>1. FlagTypeOK'
    BY <1>6 DEF FlagTypeOK, Signal
  <2>2. ReaderTypeOK' /\ ChannelTypeOK' /\ RouterTypeOK' /\ IndexTypeOK' /\
     HandlerTypeOK' /\ DropTypeOK' /\ FrameTypeOK' /\ BatchInUse'
    BY <1>6 DEF ReaderTypeOK, ChannelTypeOK, RouterTypeOK, IndexTypeOK,
       HandlerTypeOK, DropTypeOK, FrameTypeOK, BatchInUse, Signal
  <2> QED BY <2>1, <2>2
<1> QED BY <1>1, <1>2, <1>3, <1>4, <1>5, <1>6 DEF Reader

\* The router takes a transaction, looks subscribers up, ends a transaction.
LEMMA ReceiveType ==
  ASSUME TypeInv, Receive \/ IngestStop \/ mergeMatches \/ RouteTxEnd
  PROVE  TypeInv'
<1> USE DEF TypeInv, TypeOK, Goto, readerVars, routerVars, shutVars, handlerVars,
        dropVars, startVars, outVars
<1>1. CASE Receive
  <2>1. ChannelTypeOK'
    <3>1. txCh # <<>> /\ txCh' = Tail(txCh) /\ wal' = wal
      BY <1>1 DEF Receive
    <3> QED BY <3>1, TailChannel, BufferAssumption DEF ChannelTypeOK
  <2>2. RouterTypeOK'
    BY <1>1, ConstantTypes DEF RouterTypeOK, Receive, ReaderTypeOK,
       ChannelTypeOK, LSNs
  <2>3. ReaderTypeOK' /\ FlagTypeOK' /\ IndexTypeOK' /\ HandlerTypeOK' /\
     DropTypeOK' /\ FrameTypeOK' /\ BatchInUse'
    BY <1>1 DEF ReaderTypeOK, FlagTypeOK, IndexTypeOK, HandlerTypeOK,
       DropTypeOK, FrameTypeOK, BatchInUse, Receive
  <2> QED BY <2>1, <2>2, <2>3
<1>2. CASE IngestStop
  <2>1. RouterTypeOK'
    BY <1>2 DEF RouterTypeOK, IngestStop
  <2>2. ReaderTypeOK' /\ FlagTypeOK' /\ ChannelTypeOK' /\ IndexTypeOK' /\
     HandlerTypeOK' /\ DropTypeOK' /\ FrameTypeOK' /\ BatchInUse'
    BY <1>2 DEF ReaderTypeOK, FlagTypeOK, ChannelTypeOK, IndexTypeOK,
       HandlerTypeOK, DropTypeOK, FrameTypeOK, BatchInUse, IngestStop
  <2> QED BY <2>1, <2>2
<1>3. CASE mergeMatches
  <2>1. RouterTypeOK'
    BY <1>3 DEF RouterTypeOK, mergeMatches, Lookup, IndexTypeOK
  <2>2. ReaderTypeOK' /\ FlagTypeOK' /\ ChannelTypeOK' /\ IndexTypeOK' /\
     HandlerTypeOK' /\ DropTypeOK' /\ FrameTypeOK' /\ BatchInUse'
    BY <1>3 DEF ReaderTypeOK, FlagTypeOK, ChannelTypeOK, IndexTypeOK,
       HandlerTypeOK, DropTypeOK, FrameTypeOK, BatchInUse, mergeMatches
  <2> QED BY <2>1, <2>2
<1>4. CASE RouteTxEnd
  <2>1. RouterTypeOK'
    BY <1>4 DEF RouterTypeOK, RouteTxEnd
  <2>2. ReaderTypeOK' /\ FlagTypeOK' /\ ChannelTypeOK' /\ IndexTypeOK' /\
     HandlerTypeOK' /\ DropTypeOK' /\ FrameTypeOK' /\ BatchInUse'
    BY <1>4 DEF ReaderTypeOK, FlagTypeOK, ChannelTypeOK, IndexTypeOK,
       HandlerTypeOK, DropTypeOK, FrameTypeOK, BatchInUse, RouteTxEnd
  <2> QED BY <2>1, <2>2
<1> QED BY <1>1, <1>2, <1>3, <1>4

\* dispatchEvent for one subscriber.
LEMMA DispatchType ==
  ASSUME TypeInv, NEW s \in Subs, dispatchEvent(s) \/ Send(s) \/ RouterDrop(s)
     \/ RouterDropReturn(s)
  PROVE  TypeInv'
<1> USE DEF TypeInv, TypeOK, Goto, readerVars, routerVars, shutVars, handlerVars,
        dropVars, startVars, outVars
<1>1. CASE dispatchEvent(s)
  <2>1. RouterTypeOK'
    BY <1>1 DEF RouterTypeOK, dispatchEvent
  <2>2. ReaderTypeOK' /\ FlagTypeOK' /\ ChannelTypeOK' /\ IndexTypeOK' /\
     HandlerTypeOK' /\ DropTypeOK' /\ FrameTypeOK' /\ BatchInUse'
    BY <1>1 DEF ReaderTypeOK, FlagTypeOK, ChannelTypeOK, IndexTypeOK,
       HandlerTypeOK, DropTypeOK, FrameTypeOK, BatchInUse, dispatchEvent
  <2> QED BY <2>1, <2>2
<1>2. CASE Send(s)
  <2>1. RouterTypeOK'
    BY <1>2 DEF RouterTypeOK, Send
  <2>2. FrameTypeOK'
    <3>1. CASE Len(queue[s]) < QueueCap(s)
      <4>1. cur \in LSNs
        BY <1>2, ConstantTypes DEF RouterTypeOK, ReaderTypeOK, Send, LSNs
      <4>2. queue' = [queue EXCEPT ![s] = Append(@, cur)]
        BY <1>2, <3>1 DEF Send
      <4>3. Append(queue[s], cur) \in Seq(LSNs)
        BY <4>1 DEF FrameTypeOK
      <4>4. Len(Append(queue[s], cur)) <= QueueCap(s)
        BY <4>1, <3>1, CapType DEF FrameTypeOK
      <4> QED BY <1>2, <4>2, <4>3, <4>4 DEF FrameTypeOK, Send
    <3>2. CASE ~(Len(queue[s]) < QueueCap(s))
      BY <1>2, <3>2 DEF FrameTypeOK, Send
    <3> QED BY <3>1, <3>2
  <2>3. ReaderTypeOK' /\ FlagTypeOK' /\ ChannelTypeOK' /\ IndexTypeOK' /\
     HandlerTypeOK' /\ DropTypeOK' /\ BatchInUse'
    BY <1>2 DEF ReaderTypeOK, FlagTypeOK, ChannelTypeOK, IndexTypeOK,
       HandlerTypeOK, DropTypeOK, BatchInUse, Send
  <2> QED BY <2>1, <2>2, <2>3
<1>3. CASE RouterDrop(s)
  <2>1. DropTypeOK'
    BY <1>3 DEF DropTypeOK, RouterDrop, StoreReason, Reasons
  <2>2. ReaderTypeOK' /\ FlagTypeOK' /\ ChannelTypeOK' /\ RouterTypeOK' /\
     IndexTypeOK' /\ HandlerTypeOK' /\ FrameTypeOK' /\ BatchInUse'
    BY <1>3 DEF ReaderTypeOK, FlagTypeOK, ChannelTypeOK, RouterTypeOK,
       IndexTypeOK, HandlerTypeOK, FrameTypeOK, BatchInUse, RouterDrop
  <2> QED BY <2>1, <2>2
<1>4. CASE RouterDropReturn(s)
  <2>1. RouterTypeOK'
    BY <1>4 DEF RouterTypeOK, RouterDropReturn
  <2>2. ReaderTypeOK' /\ FlagTypeOK' /\ ChannelTypeOK' /\ IndexTypeOK' /\
     HandlerTypeOK' /\ DropTypeOK' /\ FrameTypeOK' /\ BatchInUse'
    BY <1>4 DEF ReaderTypeOK, FlagTypeOK, ChannelTypeOK, IndexTypeOK,
       HandlerTypeOK, DropTypeOK, FrameTypeOK, BatchInUse, RouterDropReturn
  <2> QED BY <2>1, <2>2
<1> QED BY <1>1, <1>2, <1>3, <1>4

\* A handler up to its first flush.
LEMMA RegisterType ==
  ASSUME TypeInv, NEW s \in Subs, parseSinceLSN(s) \/ RegisterAdd(s) \/
     RegisterCheck(s) \/ RegisterDrop(s) \/ Prelude(s)
  PROVE  TypeInv'
<1> USE DEF TypeInv, TypeOK, Goto, readerVars, routerVars, shutVars, handlerVars,
        dropVars, startVars, outVars
<1>1. CASE parseSinceLSN(s)
  <2>1. HandlerTypeOK'
    <3>1. hpc' \in [Subs -> HandlerPCs] /\ hwhy' = hwhy /\ promise' = promise
      BY <1>1 DEF HandlerTypeOK, parseSinceLSN, HandlerPCs
    <3>2. currentLSN \in Nat
      BY DEF ReaderTypeOK
    <3>3. startLSN' \in [Subs -> Nat] /\ asked' \in [Subs -> Nat]
      BY <1>1, <3>2, ConstantTypes DEF HandlerTypeOK, parseSinceLSN
    <3> QED BY <3>1, <3>3 DEF HandlerTypeOK
  <2>2. BatchInUse'
    BY <1>1 DEF BatchInUse, parseSinceLSN, HandlerTypeOK, FrameTypeOK
  <2>3. ReaderTypeOK' /\ FlagTypeOK' /\ ChannelTypeOK' /\ RouterTypeOK' /\
     IndexTypeOK' /\ DropTypeOK' /\ FrameTypeOK'
    BY <1>1 DEF ReaderTypeOK, FlagTypeOK, ChannelTypeOK, RouterTypeOK,
       IndexTypeOK, DropTypeOK, FrameTypeOK, parseSinceLSN
  <2> QED BY <2>1, <2>2, <2>3
<1>2. CASE RegisterAdd(s)
  <2>1. IndexTypeOK'
    BY <1>2 DEF IndexTypeOK, RegisterAdd, Add
  <2>2. HandlerTypeOK'
    BY <1>2 DEF HandlerTypeOK, RegisterAdd, HandlerPCs
  <2>3. BatchInUse'
    BY <1>2 DEF BatchInUse, RegisterAdd, HandlerTypeOK, FrameTypeOK
  <2>4. ReaderTypeOK' /\ FlagTypeOK' /\ ChannelTypeOK' /\ RouterTypeOK' /\
     DropTypeOK' /\ FrameTypeOK'
    BY <1>2 DEF ReaderTypeOK, FlagTypeOK, ChannelTypeOK, RouterTypeOK,
       DropTypeOK, FrameTypeOK, RegisterAdd
  <2> QED BY <2>1, <2>2, <2>3, <2>4
<1>3. CASE RegisterCheck(s)
  <2>1. HandlerTypeOK'
    BY <1>3 DEF HandlerTypeOK, RegisterCheck, HandlerPCs
  <2>2. BatchInUse'
    BY <1>3 DEF BatchInUse, RegisterCheck, HandlerTypeOK, FrameTypeOK
  <2>3. ReaderTypeOK' /\ FlagTypeOK' /\ ChannelTypeOK' /\ RouterTypeOK' /\
     IndexTypeOK' /\ DropTypeOK' /\ FrameTypeOK'
    BY <1>3 DEF ReaderTypeOK, FlagTypeOK, ChannelTypeOK, RouterTypeOK,
       IndexTypeOK, DropTypeOK, FrameTypeOK, RegisterCheck
  <2> QED BY <2>1, <2>2, <2>3
<1>4. CASE RegisterDrop(s)
  <2>1. HandlerTypeOK'
    BY <1>4 DEF HandlerTypeOK, RegisterDrop, HandlerPCs
  <2>2. DropTypeOK'
    BY <1>4 DEF DropTypeOK, RegisterDrop, StoreReason, Reasons
  <2>3. BatchInUse'
    BY <1>4 DEF BatchInUse, RegisterDrop, HandlerTypeOK, FrameTypeOK
  <2>4. ReaderTypeOK' /\ FlagTypeOK' /\ ChannelTypeOK' /\ RouterTypeOK' /\
     IndexTypeOK' /\ FrameTypeOK'
    BY <1>4 DEF ReaderTypeOK, FlagTypeOK, ChannelTypeOK, RouterTypeOK,
       IndexTypeOK, FrameTypeOK, RegisterDrop
  <2> QED BY <2>1, <2>2, <2>3, <2>4
<1>5. CASE Prelude(s)
  <2>1. HandlerTypeOK'
    <3>1. hpc' \in [Subs -> HandlerPCs] /\ hwhy' \in [Subs -> WriteReasons \cup {"none"}]
      BY <1>5 DEF HandlerTypeOK, Prelude, WriteFails, HandlerPCs
    <3>2. Len(wal) \in 0 .. MaxTx
      BY ConstantTypes DEF ReaderTypeOK
    <3>3. promise' \in [Subs -> 0 .. MaxTx]
      BY <1>5, <3>2 DEF HandlerTypeOK, Prelude
    <3> QED BY <1>5, <3>1, <3>3 DEF HandlerTypeOK, Prelude
  <2>2. BatchInUse'
    BY <1>5 DEF BatchInUse, Prelude, HandlerTypeOK, FrameTypeOK, WriteFails
  <2>3. ReaderTypeOK' /\ FlagTypeOK' /\ ChannelTypeOK' /\ RouterTypeOK' /\
     IndexTypeOK' /\ DropTypeOK' /\ FrameTypeOK'
    BY <1>5 DEF ReaderTypeOK, FlagTypeOK, ChannelTypeOK, RouterTypeOK,
       IndexTypeOK, DropTypeOK, FrameTypeOK, Prelude
  <2> QED BY <2>1, <2>2, <2>3
<1> QED BY <1>1, <1>2, <1>3, <1>4, <1>5

\* A handler in the loop of stream.
LEMMA LoopType ==
  ASSUME TypeInv, NEW s \in Subs, Take(s) \/ BatchEnd(s) \/ CheckDone(s) \/
     Write(s) \/ LeaveLoop(s)
  PROVE  TypeInv'
<1> USE DEF TypeInv, TypeOK, Goto, readerVars, routerVars, shutVars, handlerVars,
        dropVars, startVars, outVars
<1>1. CASE Take(s)
  <2>1. HandlerTypeOK'
    BY <1>1 DEF HandlerTypeOK, Take, HandlerPCs
  <2>2. FrameTypeOK'
    <3>1. Head(queue[s]) \in LSNs /\ Tail(queue[s]) \in Seq(LSNs)
          /\ Len(Tail(queue[s])) <= QueueCap(s)
      BY <1>1, CapType DEF FrameTypeOK, Take
    <3>2. Len(batch[s]) < QueueCap(s)
      BY <1>1, CapType DEF BatchInUse, Take
    <3>3. Append(batch[s], Head(queue[s])) \in Seq(LSNs)
          /\ Len(Append(batch[s], Head(queue[s]))) <= QueueCap(s)
      BY <3>1, <3>2, CapType DEF FrameTypeOK
    <3> QED BY <1>1, <3>1, <3>3 DEF FrameTypeOK, Take
  <2>3. BatchInUse'
    BY <1>1 DEF BatchInUse, Take, HandlerTypeOK, FrameTypeOK
  <2>4. ReaderTypeOK' /\ FlagTypeOK' /\ ChannelTypeOK' /\ RouterTypeOK' /\
     IndexTypeOK' /\ DropTypeOK'
    BY <1>1 DEF ReaderTypeOK, FlagTypeOK, ChannelTypeOK, RouterTypeOK,
       IndexTypeOK, DropTypeOK, Take
  <2> QED BY <2>1, <2>2, <2>3, <2>4
<1>2. CASE BatchEnd(s)
  <2>1. HandlerTypeOK'
    BY <1>2 DEF HandlerTypeOK, BatchEnd, HandlerPCs
  <2>2. BatchInUse'
    BY <1>2 DEF BatchInUse, BatchEnd, HandlerTypeOK, FrameTypeOK
  <2>3. ReaderTypeOK' /\ FlagTypeOK' /\ ChannelTypeOK' /\ RouterTypeOK' /\
     IndexTypeOK' /\ DropTypeOK' /\ FrameTypeOK'
    BY <1>2 DEF ReaderTypeOK, FlagTypeOK, ChannelTypeOK, RouterTypeOK,
       IndexTypeOK, DropTypeOK, FrameTypeOK, BatchEnd
  <2> QED BY <2>1, <2>2, <2>3
<1>3. CASE CheckDone(s)
  <2>1. HandlerTypeOK'
    BY <1>3 DEF HandlerTypeOK, CheckDone, HandlerPCs
  <2>2. FrameTypeOK'
    <3>1. wire' = wire /\ queue' = queue
          /\ (batch' = batch \/ batch' = [batch EXCEPT ![s] = <<>>])
      BY <1>3 DEF CheckDone
    <3>2. batch' \in [Subs -> Seq(LSNs)]
          /\ \A u \in Subs : Len(batch'[u]) <= QueueCap(u)
      <4>1. batch \in [Subs -> Seq(LSNs)]
            /\ \A u \in Subs : Len(batch[u]) <= QueueCap(u)
        BY DEF FrameTypeOK
      <4>2. CASE batch' = batch
        BY <4>1, <4>2
      <4>3. CASE batch' = [batch EXCEPT ![s] = <<>>]
        <5>1. /\ [batch EXCEPT ![s] = <<>>] \in [Subs -> Seq(LSNs)]
              /\ \A u \in Subs : Len([batch EXCEPT ![s] = <<>>][u]) <= QueueCap(u)
          BY <4>1, EmptyBatch
        <5> QED BY <4>3, <5>1, Zenon
      <4> QED BY <3>1, <4>2, <4>3
    <3> QED BY <3>1, <3>2 DEF FrameTypeOK
  <2>3. BatchInUse'
    BY <1>3 DEF BatchInUse, CheckDone, HandlerTypeOK, FrameTypeOK
  <2>4. ReaderTypeOK' /\ FlagTypeOK' /\ ChannelTypeOK' /\ RouterTypeOK' /\
     IndexTypeOK' /\ DropTypeOK'
    BY <1>3 DEF ReaderTypeOK, FlagTypeOK, ChannelTypeOK, RouterTypeOK,
       IndexTypeOK, DropTypeOK, CheckDone
  <2> QED BY <2>1, <2>2, <2>3, <2>4
<1>4. CASE Write(s)
  <2>1. HandlerTypeOK'
    BY <1>4 DEF HandlerTypeOK, Write, WriteFails, HandlerPCs
  <2>2. FrameTypeOK'
    <3>1. batch' = [batch EXCEPT ![s] = <<>>] /\ queue' = queue
      BY <1>4 DEF Write
    <3>2. PICK n \in 0 .. Len(batch[s]) :
            wire' = [wire EXCEPT ![s] = @ \o batch[s]]
            \/ wire' = [wire EXCEPT ![s] = @ \o SubSeq(batch[s], 1, n)]
      BY <1>4, 0 \in 0 .. Len(batch[s]) DEF Write, FrameTypeOK
    <3>3. SubSeq(batch[s], 1, n) \in Seq(LSNs)
      <4>1. batch[s] \in Seq(LSNs) /\ \A i \in 1 .. n : batch[s][i] \in LSNs
        BY DEF FrameTypeOK
      <4> QED BY <4>1, SubSeqProperties
    <3>4. wire' \in [Subs -> Seq(LSNs)]
      <4>1. wire \in [Subs -> Seq(LSNs)] /\ batch[s] \in Seq(LSNs)
        BY DEF FrameTypeOK
      <4>2. wire[s] \o batch[s] \in Seq(LSNs)
            /\ wire[s] \o SubSeq(batch[s], 1, n) \in Seq(LSNs)
        BY <4>1, <3>3
      <4> QED BY <3>2, <4>1, <4>2
    <3>5. batch' \in [Subs -> Seq(LSNs)]
          /\ \A u \in Subs : Len(batch'[u]) <= QueueCap(u)
      <4>1. batch \in [Subs -> Seq(LSNs)]
            /\ \A u \in Subs : Len(batch[u]) <= QueueCap(u)
        BY DEF FrameTypeOK
      <4> QED BY <3>1, <4>1, EmptyBatch
    <3> QED BY <3>1, <3>4, <3>5 DEF FrameTypeOK
  <2>3. BatchInUse'
    BY <1>4 DEF BatchInUse, Write, HandlerTypeOK, FrameTypeOK, WriteFails
  <2>4. ReaderTypeOK' /\ FlagTypeOK' /\ ChannelTypeOK' /\ RouterTypeOK' /\
     IndexTypeOK' /\ DropTypeOK'
    BY <1>4 DEF ReaderTypeOK, FlagTypeOK, ChannelTypeOK, RouterTypeOK,
       IndexTypeOK, DropTypeOK, Write
  <2> QED BY <2>1, <2>2, <2>3, <2>4
<1>5. CASE LeaveLoop(s)
  <2>1. HandlerTypeOK'
    BY <1>5 DEF HandlerTypeOK, LeaveLoop, WriteFails, HandlerPCs
  <2>2. BatchInUse'
    BY <1>5 DEF BatchInUse, LeaveLoop, HandlerTypeOK, FrameTypeOK, WriteFails
  <2>3. ReaderTypeOK' /\ FlagTypeOK' /\ ChannelTypeOK' /\ RouterTypeOK' /\
     IndexTypeOK' /\ DropTypeOK' /\ FrameTypeOK'
    BY <1>5 DEF ReaderTypeOK, FlagTypeOK, ChannelTypeOK, RouterTypeOK,
       IndexTypeOK, DropTypeOK, FrameTypeOK, LeaveLoop
  <2> QED BY <2>1, <2>2, <2>3
<1> QED BY <1>1, <1>2, <1>3, <1>4, <1>5

\* A handler on its way out, and what drops a subscriber.
LEMMA EndType ==
  ASSUME TypeInv, NEW s \in Subs, SeeDone(s) \/ finish(s) \/ HandlerDrop(s) \/
     Deregister(s) \/ AuthDrop(s) \/ Cancel(s)
  PROVE  TypeInv'
<1> USE DEF TypeInv, TypeOK, Goto, readerVars, routerVars, shutVars, handlerVars,
        dropVars, startVars, outVars
<1>1. CASE SeeDone(s)
  <2>1. HandlerTypeOK'
    BY <1>1 DEF HandlerTypeOK, SeeDone, HandlerPCs
  <2>2. BatchInUse'
    BY <1>1 DEF BatchInUse, SeeDone, HandlerTypeOK, FrameTypeOK
  <2>3. ReaderTypeOK' /\ FlagTypeOK' /\ ChannelTypeOK' /\ RouterTypeOK' /\
     IndexTypeOK' /\ DropTypeOK' /\ FrameTypeOK'
    BY <1>1 DEF ReaderTypeOK, FlagTypeOK, ChannelTypeOK, RouterTypeOK,
       IndexTypeOK, DropTypeOK, FrameTypeOK, SeeDone
  <2> QED BY <2>1, <2>2, <2>3
<1>2. CASE finish(s)
  <2>1. HandlerTypeOK'
    BY <1>2 DEF HandlerTypeOK, finish, HandlerPCs
  <2>2. DropTypeOK'
    BY <1>2 DEF DropTypeOK, finish, Reasons
  <2>3. BatchInUse'
    BY <1>2 DEF BatchInUse, finish, HandlerTypeOK, FrameTypeOK
  <2>4. ReaderTypeOK' /\ FlagTypeOK' /\ ChannelTypeOK' /\ RouterTypeOK' /\
     IndexTypeOK' /\ FrameTypeOK'
    BY <1>2 DEF ReaderTypeOK, FlagTypeOK, ChannelTypeOK, RouterTypeOK,
       IndexTypeOK, FrameTypeOK, finish
  <2> QED BY <2>1, <2>2, <2>3, <2>4
<1>3. CASE HandlerDrop(s)
  <2>1. HandlerTypeOK'
    BY <1>3 DEF HandlerTypeOK, HandlerDrop, HandlerPCs
  <2>2. DropTypeOK'
    BY <1>3, ReasonAssumption DEF DropTypeOK, HandlerDrop, StoreReason,
       Reasons, HandlerTypeOK
  <2>3. BatchInUse'
    BY <1>3 DEF BatchInUse, HandlerDrop, HandlerTypeOK, FrameTypeOK
  <2>4. ReaderTypeOK' /\ FlagTypeOK' /\ ChannelTypeOK' /\ RouterTypeOK' /\
     IndexTypeOK' /\ FrameTypeOK'
    BY <1>3 DEF ReaderTypeOK, FlagTypeOK, ChannelTypeOK, RouterTypeOK,
       IndexTypeOK, FrameTypeOK, HandlerDrop
  <2> QED BY <2>1, <2>2, <2>3, <2>4
<1>4. CASE Deregister(s)
  <2>1. IndexTypeOK'
    BY <1>4 DEF IndexTypeOK, Deregister, Remove
  <2>2. HandlerTypeOK'
    BY <1>4 DEF HandlerTypeOK, Deregister, HandlerPCs
  <2>3. BatchInUse'
    BY <1>4 DEF BatchInUse, Deregister, HandlerTypeOK, FrameTypeOK
  <2>4. ReaderTypeOK' /\ FlagTypeOK' /\ ChannelTypeOK' /\ RouterTypeOK' /\
     DropTypeOK' /\ FrameTypeOK'
    BY <1>4 DEF ReaderTypeOK, FlagTypeOK, ChannelTypeOK, RouterTypeOK,
       DropTypeOK, FrameTypeOK, Deregister
  <2> QED BY <2>1, <2>2, <2>3, <2>4
<1>5. CASE AuthDrop(s)
  <2>1. DropTypeOK'
    BY <1>5, ReasonAssumption DEF DropTypeOK, AuthDrop, StoreReason, Reasons
  <2>2. ReaderTypeOK' /\ FlagTypeOK' /\ ChannelTypeOK' /\ RouterTypeOK' /\
     IndexTypeOK' /\ HandlerTypeOK' /\ FrameTypeOK' /\ BatchInUse'
    BY <1>5 DEF ReaderTypeOK, FlagTypeOK, ChannelTypeOK, RouterTypeOK,
       IndexTypeOK, HandlerTypeOK, FrameTypeOK, BatchInUse, AuthDrop
  <2> QED BY <2>1, <2>2
<1>6. CASE Cancel(s)
  <2>1. DropTypeOK'
    BY <1>6 DEF DropTypeOK, Cancel
  <2>2. ReaderTypeOK' /\ FlagTypeOK' /\ ChannelTypeOK' /\ RouterTypeOK' /\
     IndexTypeOK' /\ HandlerTypeOK' /\ FrameTypeOK' /\ BatchInUse'
    BY <1>6 DEF ReaderTypeOK, FlagTypeOK, ChannelTypeOK, RouterTypeOK,
       IndexTypeOK, HandlerTypeOK, FrameTypeOK, BatchInUse, Cancel
  <2> QED BY <2>1, <2>2
<1> QED BY <1>1, <1>2, <1>3, <1>4, <1>5, <1>6

\* The shutdown sequence.
LEMMA ShutdownType ==
  ASSUME TypeInv, ShutdownClose \/ Snapshot \/ ShutdownWaveEnd \/ Drain
  PROVE  TypeInv'
<1> USE DEF TypeInv, TypeOK, Goto, readerVars, routerVars, shutVars, handlerVars,
        dropVars, startVars, outVars
<1>1. CASE ShutdownClose
  <2>1. FlagTypeOK'
    BY <1>1 DEF FlagTypeOK, ShutdownClose
  <2>2. IndexTypeOK'
    BY <1>1 DEF IndexTypeOK, ShutdownClose
  <2>3. ReaderTypeOK' /\ ChannelTypeOK' /\ RouterTypeOK' /\ HandlerTypeOK' /\
     DropTypeOK' /\ FrameTypeOK' /\ BatchInUse'
    BY <1>1 DEF ReaderTypeOK, ChannelTypeOK, RouterTypeOK, HandlerTypeOK,
       DropTypeOK, FrameTypeOK, BatchInUse, ShutdownClose
  <2> QED BY <2>1, <2>2, <2>3
<1>2. CASE Snapshot
  <2>1. IndexTypeOK'
    BY <1>2 DEF IndexTypeOK, Snapshot
  <2>2. ReaderTypeOK' /\ FlagTypeOK' /\ ChannelTypeOK' /\ RouterTypeOK' /\
     HandlerTypeOK' /\ DropTypeOK' /\ FrameTypeOK' /\ BatchInUse'
    BY <1>2 DEF ReaderTypeOK, FlagTypeOK, ChannelTypeOK, RouterTypeOK,
       HandlerTypeOK, DropTypeOK, FrameTypeOK, BatchInUse, Snapshot
  <2> QED BY <2>1, <2>2
<1>3. CASE ShutdownWaveEnd
  <2>1. IndexTypeOK'
    BY <1>3 DEF IndexTypeOK, ShutdownWaveEnd
  <2>2. ReaderTypeOK' /\ FlagTypeOK' /\ ChannelTypeOK' /\ RouterTypeOK' /\
     HandlerTypeOK' /\ DropTypeOK' /\ FrameTypeOK' /\ BatchInUse'
    BY <1>3 DEF ReaderTypeOK, FlagTypeOK, ChannelTypeOK, RouterTypeOK,
       HandlerTypeOK, DropTypeOK, FrameTypeOK, BatchInUse, ShutdownWaveEnd
  <2> QED BY <2>1, <2>2
<1>4. CASE Drain
  <2>1. ChannelTypeOK'
    <3>1. CASE txCh # <<>> /\ txCh' = Tail(txCh)
      BY <1>4, <3>1, TailChannel, BufferAssumption DEF ChannelTypeOK, Drain
    <3>2. CASE txCh' = txCh
      BY <1>4, <3>2 DEF ChannelTypeOK, Drain
    <3> QED BY <1>4, <3>1, <3>2 DEF Drain
  <2>2. IndexTypeOK'
    BY <1>4 DEF IndexTypeOK, Drain
  <2>3. ReaderTypeOK' /\ FlagTypeOK' /\ RouterTypeOK' /\ HandlerTypeOK' /\
     DropTypeOK' /\ FrameTypeOK' /\ BatchInUse'
    BY <1>4 DEF ReaderTypeOK, FlagTypeOK, RouterTypeOK, HandlerTypeOK,
       DropTypeOK, FrameTypeOK, BatchInUse, Drain
  <2> QED BY <2>1, <2>2, <2>3
<1> QED BY <1>1, <1>2, <1>3, <1>4

\* The wave drops one subscriber.
LEMMA WaveType ==
  ASSUME TypeInv, NEW s \in Subs, ShutdownNext(s) \/ ShutdownDrop(s)
  PROVE  TypeInv'
<1> USE DEF TypeInv, TypeOK, Goto, readerVars, routerVars, shutVars, handlerVars,
        dropVars, startVars, outVars
<1>1. CASE ShutdownNext(s)
  <2>1. IndexTypeOK'
    BY <1>1 DEF IndexTypeOK, ShutdownNext
  <2>2. ReaderTypeOK' /\ FlagTypeOK' /\ ChannelTypeOK' /\ RouterTypeOK' /\
     HandlerTypeOK' /\ DropTypeOK' /\ FrameTypeOK' /\ BatchInUse'
    BY <1>1 DEF ReaderTypeOK, FlagTypeOK, ChannelTypeOK, RouterTypeOK,
       HandlerTypeOK, DropTypeOK, FrameTypeOK, BatchInUse, ShutdownNext
  <2> QED BY <2>1, <2>2
<1>2. CASE ShutdownDrop(s)
  <2>1. IndexTypeOK'
    BY <1>2 DEF IndexTypeOK, ShutdownDrop
  <2>2. DropTypeOK'
    BY <1>2 DEF DropTypeOK, ShutdownDrop, StoreReason, Reasons
  <2>3. ReaderTypeOK' /\ FlagTypeOK' /\ ChannelTypeOK' /\ RouterTypeOK' /\
     HandlerTypeOK' /\ FrameTypeOK' /\ BatchInUse'
    BY <1>2 DEF ReaderTypeOK, FlagTypeOK, ChannelTypeOK, RouterTypeOK,
       HandlerTypeOK, FrameTypeOK, BatchInUse, ShutdownDrop
  <2> QED BY <2>1, <2>2, <2>3
<1> QED BY <1>1, <1>2 DEF TypeInv

LEMMA NextType == TypeInv /\ [Next]_vars => TypeInv'
<1> SUFFICES ASSUME TypeInv, [Next]_vars PROVE TypeInv'
  OBVIOUS
<1>1. CASE UNCHANGED vars
  BY <1>1 DEF TypeInv, TypeOK, ReaderTypeOK, FlagTypeOK, ChannelTypeOK,
     RouterTypeOK, IndexTypeOK, HandlerTypeOK, DropTypeOK, FrameTypeOK,
     BatchInUse, vars, readerVars, routerVars, shutVars, handlerVars,
     dropVars, startVars, outVars
<1>2. CASE Next
  BY <1>2, ReaderType, ReceiveType, DispatchType, RegisterType, LoopType,
     EndType, ShutdownType, WaveType DEF Next, Ingest, stream, Shutdown
<1> QED BY <1>1, <1>2

\* Whatever the buffer sizes, the transactions and the number of subscribers,
\* the pipeline's variables keep their types, txCh, the queues and the batches
\* respect their capacities, and every LSN in flight is of a committed
\* transaction.
THEOREM TypeCorrect == Spec => []TypeOK
<1>1. TypeInv => TypeOK
  BY DEF TypeInv
<1> QED BY <1>1, InitType, NextType, PTL DEF Spec
----------------------------------------------------------------------------
(* Drops.  DoneHasReason is inductive together with the types.             *)

\* The actions that touch neither a handler's control nor a drop.
Elsewhere ==
  \/ Commit \/ Reader \/ Reconnect \/ Signal
  \/ Receive \/ IngestStop \/ mergeMatches \/ RouteTxEnd
  \/ ShutdownClose \/ Snapshot \/ ShutdownWaveEnd \/ Drain
  \/ \E s \in Subs : dispatchEvent(s) \/ Send(s) \/ RouterDropReturn(s)
                     \/ ShutdownNext(s)

LEMMA ElsewhereStays ==
  ASSUME Elsewhere
  PROVE  UNCHANGED <<hpc, reason, done, farewell, wire>>
BY DEF Elsewhere, Commit, Reader, ReadCommit, Deliver, ReaderStop, Reconnect,
   Signal, Receive, IngestStop, mergeMatches, RouteTxEnd, ShutdownClose,
   Snapshot, ShutdownWaveEnd, Drain, dispatchEvent, Send, RouterDropReturn,
   ShutdownNext, handlerVars, dropVars, outVars

\* Next, seen from one subscriber.
LEMMA NextCases ==
  ASSUME Next
  PROVE  \/ Elsewhere
         \/ \E s \in Subs :
              \/ parseSinceLSN(s) \/ RegisterAdd(s) \/ RegisterCheck(s)
              \/ RegisterDrop(s) \/ Prelude(s) \/ Take(s) \/ BatchEnd(s)
              \/ CheckDone(s) \/ Write(s) \/ LeaveLoop(s) \/ SeeDone(s)
              \/ finish(s) \/ HandlerDrop(s) \/ Deregister(s)
              \/ AuthDrop(s) \/ Cancel(s) \/ RouterDrop(s) \/ ShutdownDrop(s)
BY DEF Next, Elsewhere, Ingest, stream, Shutdown

LEMMA NextDone ==
  ASSUME TypeInv, DoneHasReason, [Next]_vars
  PROVE  DoneHasReason'
<1> USE DEF DoneHasReason, TypeInv, TypeOK, HandlerTypeOK, DropTypeOK, Goto,
        StoreReason, handlerVars, dropVars, outVars
<1>1. CASE UNCHANGED vars
  BY <1>1 DEF vars
<1>2. CASE Elsewhere
  BY <1>2, ElsewhereStays
<1>3. ASSUME NEW s \in Subs,
             parseSinceLSN(s) \/ RegisterAdd(s) \/ RegisterCheck(s)
             \/ RegisterDrop(s) \/ Prelude(s)
      PROVE  DoneHasReason'
  BY <1>3 DEF parseSinceLSN, RegisterAdd, RegisterCheck, RegisterDrop, Prelude,
     WriteFails
<1>4. ASSUME NEW s \in Subs,
             Take(s) \/ BatchEnd(s) \/ CheckDone(s) \/ Write(s) \/ LeaveLoop(s)
      PROVE  DoneHasReason'
  BY <1>4 DEF Take, BatchEnd, CheckDone, Write, LeaveLoop, WriteFails
<1>5. ASSUME NEW s \in Subs, SeeDone(s) \/ finish(s) \/ Deregister(s)
      PROVE  DoneHasReason'
  BY <1>5 DEF SeeDone, finish, Deregister
<1>6. ASSUME NEW s \in Subs, HandlerDrop(s)
      PROVE  DoneHasReason'
  BY <1>6 DEF HandlerDrop
<1>7. ASSUME NEW s \in Subs,
             AuthDrop(s) \/ RouterDrop(s) \/ ShutdownDrop(s) \/ Cancel(s)
      PROVE  DoneHasReason'
  BY <1>7 DEF AuthDrop, RouterDrop, ShutdownDrop, Cancel
<1> QED BY <1>1, <1>2, <1>3, <1>4, <1>5, <1>6, <1>7, NextCases

\* For any number of subscribers and any interleaving of the goroutines that
\* may drop them: Done never fires without a reason, no handler leaves a
\* subscriber undropped, and the terminal frame a client reads names the
\* reason that was recorded first.
THEOREM DoneAlwaysHasReason == Spec => []DoneHasReason
<1>1. Init => DoneHasReason
  BY DEF Init, DoneHasReason
<1>2. TypeInv /\ DoneHasReason /\ [Next]_vars => DoneHasReason'
  BY NextDone
<1> QED BY <1>1, <1>2, InitType, NextType, PTL DEF Spec

\* After a completed drop only a batch that had passed the Done check is
\* still written: in particular a revoked grant's queued frames are not.
THEOREM NothingWrittenAfterDrop == Spec => DropStopsWrites
<1>1. ASSUME TypeInv, [Next]_vars, NEW u \in Subs, done[u], hpc[u] # "write"
      PROVE  wire'[u] = wire[u] /\ hpc'[u] # "write"
  <2> USE DEF TypeInv, TypeOK, HandlerTypeOK, FrameTypeOK, DropTypeOK, Goto,
          dropVars, handlerVars, outVars, WriteFails
  <2>1. CASE UNCHANGED vars
    BY <1>1, <2>1 DEF vars
  <2>2. CASE Elsewhere
    BY <1>1, <2>2, ElsewhereStays
  <2>3. ASSUME NEW s \in Subs,
               parseSinceLSN(s) \/ RegisterAdd(s) \/ RegisterCheck(s)
               \/ RegisterDrop(s) \/ Prelude(s) \/ Take(s) \/ BatchEnd(s)
               \/ CheckDone(s) \/ LeaveLoop(s) \/ SeeDone(s) \/ finish(s)
               \/ HandlerDrop(s) \/ Deregister(s)
        PROVE  wire' = wire /\ hpc'[u] # "write"
    <3>1. wire' = wire
      BY <2>3 DEF parseSinceLSN, RegisterAdd, RegisterCheck, RegisterDrop,
         Prelude, Take, BatchEnd, CheckDone, LeaveLoop, SeeDone, finish,
         HandlerDrop, Deregister
    <3>2. CASE CheckDone(s)
      BY <1>1, <3>2 DEF CheckDone
    <3>3. CASE ~CheckDone(s)
      BY <1>1, <2>3, <3>3 DEF parseSinceLSN, RegisterAdd, RegisterCheck,
         RegisterDrop, Prelude, Take, BatchEnd, LeaveLoop, SeeDone, finish,
         HandlerDrop, Deregister
    <3> QED BY <3>1, <3>2, <3>3
  <2>4. ASSUME NEW s \in Subs, Write(s)
        PROVE  wire'[u] = wire[u] /\ hpc'[u] # "write"
    <3>1. u # s
      BY <1>1, <2>4 DEF Write
    <3> QED BY <1>1, <2>4, <3>1 DEF Write
  <2>5. ASSUME NEW s \in Subs,
               AuthDrop(s) \/ RouterDrop(s) \/ ShutdownDrop(s) \/ Cancel(s)
        PROVE  UNCHANGED <<wire, hpc>>
    BY <2>5 DEF AuthDrop, RouterDrop, ShutdownDrop, Cancel
  <2> QED BY <1>1, <2>1, <2>2, <2>3, <2>4, <2>5, NextCases
<1>2. TypeInv /\ [Next]_vars =>
        [\A s \in Subs : done[s] /\ hpc[s] # "write" =>
           wire'[s] = wire[s] /\ hpc'[s] # "write"]_vars
  BY <1>1
<1> QED BY <1>2, InitType, NextType, PTL DEF Spec, DropStopsWrites
----------------------------------------------------------------------------
(* The race of Shutdown with Register.  A member of an index that the      *)
(* snapshot missed was added after it, so after closed was set, and is     *)
(* still on its way to the check of closed, or has been dropped by it.     *)

SnapshotTaken(s) ==
  IF s \in Exact THEN spc \in {"wildcard", "wave", "drop", "drain", "exit"}
                 ELSE spc \in {"wave", "drop", "drain", "exit"}

WaveInv ==
  /\ closed <=> spc # "run"
  /\ spc # "drop" => victim = {}
  /\ \A s, u \in victim : s = u
  /\ spc \in {"drain", "exit"} => snap = {}
  /\ \A s \in registered : SnapshotTaken(s) =>
       \/ done[s] \/ hpc[s] \in {"regcheck", "regdrop"}
       \/ s \in snap \/ s \in victim

LEMMA NextWave ==
  ASSUME TypeInv, WaveInv, [Next]_vars
  PROVE  WaveInv'
<1> USE DEF WaveInv, SnapshotTaken, TypeInv, TypeOK, FlagTypeOK, IndexTypeOK,
        HandlerTypeOK, DropTypeOK, Goto, WriteFails, StoreReason, shutVars,
        handlerVars, dropVars, outVars
<1>1. CASE UNCHANGED vars
  BY <1>1 DEF vars
<1>2. CASE Commit \/ Reader \/ Reconnect \/ Signal \/ Receive \/ IngestStop
           \/ mergeMatches \/ RouteTxEnd
  <2>1. UNCHANGED <<registered, shutVars, hpc, done>>
    BY <1>2 DEF Commit, Reader, ReadCommit, Deliver, ReaderStop, Reconnect,
       Signal, Receive, IngestStop, mergeMatches, RouteTxEnd
  <2> QED BY <2>1
<1>3. ASSUME NEW s \in Subs,
             dispatchEvent(s) \/ Send(s) \/ RouterDrop(s)
             \/ RouterDropReturn(s) \/ AuthDrop(s)
      PROVE  WaveInv'
  <2>1. UNCHANGED <<registered, shutVars, hpc, done>>
    BY <1>3 DEF dispatchEvent, Send, RouterDrop, RouterDropReturn, AuthDrop
  <2> QED BY <2>1
<1>4. ASSUME NEW s \in Subs, Cancel(s)
      PROVE  WaveInv'
  BY <1>4 DEF Cancel
<1>5. ASSUME NEW s \in Subs, parseSinceLSN(s) \/ RegisterAdd(s)
      PROVE  WaveInv'
  BY <1>5 DEF parseSinceLSN, RegisterAdd, Add
<1>6. ASSUME NEW s \in Subs, RegisterCheck(s)
      PROVE  WaveInv'
  BY <1>6 DEF RegisterCheck
<1>7. ASSUME NEW s \in Subs, RegisterDrop(s)
      PROVE  WaveInv'
  BY <1>7 DEF RegisterDrop
<1>8. ASSUME NEW s \in Subs,
             Prelude(s) \/ Take(s) \/ BatchEnd(s) \/ CheckDone(s) \/ Write(s)
             \/ LeaveLoop(s) \/ SeeDone(s) \/ finish(s) \/ HandlerDrop(s)
      PROVE  WaveInv'
  <2>1. UNCHANGED <<registered, shutVars, done>>
    BY <1>8 DEF Prelude, Take, BatchEnd, CheckDone, Write, LeaveLoop, SeeDone,
       finish, HandlerDrop
  <2>2. \A u \in Subs : hpc[u] \in {"regcheck", "regdrop"} => hpc'[u] = hpc[u]
    BY <1>8 DEF Prelude, Take, BatchEnd, CheckDone, Write, LeaveLoop, SeeDone,
       finish, HandlerDrop
  <2> QED BY <2>1, <2>2
<1>9. ASSUME NEW s \in Subs, Deregister(s)
      PROVE  WaveInv'
  BY <1>9 DEF Deregister, Remove
<1>10. CASE ShutdownClose
  BY <1>10 DEF ShutdownClose
<1>11. CASE Snapshot
  BY <1>11 DEF Snapshot
<1>12. CASE ShutdownWaveEnd
  BY <1>12 DEF ShutdownWaveEnd
<1>13. CASE Drain
  BY <1>13 DEF Drain
<1>14. ASSUME NEW s \in Subs, ShutdownNext(s)
       PROVE  WaveInv'
  BY <1>14 DEF ShutdownNext
<1>15. ASSUME NEW s \in Subs, ShutdownDrop(s)
       PROVE  WaveInv'
  <2>1. spc = "drop" /\ UNCHANGED <<registered, closed, snap, hpc, done>>
    BY <1>15 DEF ShutdownDrop
  <2>2. CASE spc' = spc
    BY <1>15, <2>1, <2>2 DEF ShutdownDrop
  <2>3. CASE done[s] /\ spc' = "wave"
    <3>1. victim' = {}
      BY <1>15, <2>3 DEF ShutdownDrop
    <3>2. victim \subseteq {s}
      BY <1>15 DEF ShutdownDrop
    <3> QED BY <2>1, <2>3, <3>1, <3>2
  <2> QED BY <1>15, <2>2, <2>3 DEF ShutdownDrop
<1> QED BY <1>1, <1>2, <1>3, <1>4, <1>5, <1>6, <1>7, <1>8, <1>9, <1>10, <1>11,
        <1>12, <1>13, <1>14, <1>15, NextCases DEF Elsewhere

\* However registrations and the two snapshots interleave, when the wave is
\* over every member of the indexes is dropped or still inside Register,
\* about to see closed.
THEOREM ShutdownMissesNobody == Spec => []ShutdownReachesAll
<1>1. Init => WaveInv
  BY DEF Init, WaveInv, SnapshotTaken
<1>2. TypeInv /\ WaveInv /\ [Next]_vars => WaveInv'
  BY NextWave
<1>3. WaveInv => ShutdownReachesAll
  BY DEF WaveInv, SnapshotTaken, ShutdownReachesAll
<1> QED BY <1>1, <1>2, <1>3, InitType, NextType, PTL DEF Spec
----------------------------------------------------------------------------
(* Waits.                                                                  *)

\* The router stops, and Shutdown begins, only once the context is cancelled; a
\* transaction is in hand exactly inside routeTx, and then a subscriber too.
WaitInv ==
  /\ rpc = "stopped" => ctxDone
  /\ txClosed => ctxDone
  /\ spc # "run" => ctxDone
  /\ rpc \in {"idle", "stopped"} => cur = 0
  /\ rpc \in {"send", "drop"} => target # {}
  /\ spc = "drop" => victim # {}

\* A step that leaves the router and the shutdown where they are, and does not
\* take back the cancellation, keeps the invariant.
LEMMA WaitStays ==
  ASSUME WaitInv, UNCHANGED <<rpc, cur, target, spc, victim>>, ctxDone => ctxDone',
         txClosed' => txClosed \/ ctxDone'
  PROVE  WaitInv'
BY DEF WaitInv

LEMMA NextWait ==
  ASSUME WaitInv, [Next]_vars
  PROVE  WaitInv'
<1>1. CASE UNCHANGED vars
  BY <1>1, WaitStays DEF vars, readerVars, routerVars, shutVars
<1>2. CASE Commit \/ Reader \/ Reconnect \/ Signal
  BY <1>2, WaitStays DEF Commit, Reader, ReadCommit, Deliver, ReaderStop, Reconnect,
     Signal, routerVars, shutVars
<1>3. CASE Receive \/ IngestStop \/ mergeMatches \/ RouteTxEnd
  BY <1>3 DEF WaitInv, Receive, IngestStop, mergeMatches, RouteTxEnd, readerVars, shutVars
<1>4. ASSUME NEW s \in Subs, dispatchEvent(s) \/ Send(s) \/ RouterDropReturn(s)
      PROVE  WaitInv'
  BY <1>4 DEF WaitInv, dispatchEvent, Send, RouterDropReturn, readerVars, shutVars
<1>5. ASSUME NEW s \in Subs, RouterDrop(s) \/ AuthDrop(s) \/ Cancel(s)
      PROVE  WaitInv'
  BY <1>5, WaitStays DEF RouterDrop, AuthDrop, Cancel, readerVars, routerVars, shutVars
<1>6. ASSUME NEW s \in Subs, parseSinceLSN(s) \/ stream(s) \/ LeaveLoop(s)
      PROVE  WaitInv'
  <2>1. UNCHANGED <<readerVars, routerVars, shutVars>>
    <3>1. CASE parseSinceLSN(s) \/ LeaveLoop(s) \/ Prelude(s) \/ Write(s)
      BY <3>1 DEF parseSinceLSN, LeaveLoop, Prelude, Write
    <3>2. CASE RegisterAdd(s) \/ RegisterCheck(s) \/ RegisterDrop(s) \/ Take(s)
               \/ BatchEnd(s) \/ CheckDone(s)
      BY <3>2 DEF RegisterAdd, RegisterCheck, RegisterDrop, Take, BatchEnd, CheckDone
    <3>3. CASE SeeDone(s) \/ finish(s) \/ HandlerDrop(s) \/ Deregister(s)
      BY <3>3 DEF SeeDone, finish, HandlerDrop, Deregister
    <3> QED BY <1>6, <3>1, <3>2, <3>3 DEF stream
  <2> QED BY <2>1, WaitStays DEF readerVars, routerVars, shutVars
<1>7. CASE ShutdownClose \/ Snapshot \/ ShutdownWaveEnd \/ Drain
  BY <1>7 DEF WaitInv, ShutdownClose, Snapshot, ShutdownWaveEnd, Drain, readerVars, routerVars
<1>8. ASSUME NEW s \in Subs, ShutdownNext(s) \/ ShutdownDrop(s)
      PROVE  WaitInv'
  BY <1>8 DEF WaitInv, ShutdownNext, ShutdownDrop, readerVars, routerVars
<1> QED BY <1>1, <1>2, <1>3, <1>4, <1>5, <1>6, <1>7, <1>8 DEF Next, Ingest, Shutdown

\* Nobody waits for a goroutine that has gone, for any number of streams and any
\* capacities: the reader, the router and App.Shutdown each have, when they wait,
\* somebody who can still answer.
THEOREM NobodyIsStranded == Spec => []WaitsAreAnswered
<1>1. Init => WaitInv
  BY DEF Init, WaitInv
<1>2. WaitInv /\ [Next]_vars => WaitInv'
  BY NextWait
<1>3. TypeOK /\ WaitInv => WaitsAreAnswered
  BY DEF TypeOK, RouterTypeOK, WaitInv, WaitsAreAnswered
<1> QED BY <1>1, <1>2, <1>3, TypeCorrect, PTL DEF Spec
=============================================================================
