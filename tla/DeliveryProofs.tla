--------------------------- MODULE DeliveryProofs ---------------------------
(***************************************************************************)
(* What a client of Broadcaster is sent, for any number of subscribers,    *)
(* transactions and buffer sizes: no frame out of order or twice, none     *)
(* missing in front of another (NoGap), and the contract of                *)
(* DeliveryContract kept (KeepsContract).                                  *)
(*                                                                         *)
(* The argument follows a transaction.  The positions of what is in        *)
(* flight are ordered along the pipeline (OrderInv), so a frame cannot     *)
(* overtake another.  A transaction that is owed to a subscriber that is   *)
(* not dropped is somewhere on its way (LocationInv), so when the router   *)
(* queues a later one, the earlier one is already among the frames; and a  *)
(* subscriber that misses one is dropped before the router goes on.        *)
(***************************************************************************)
EXTENDS BroadcasterProofs

(* Sequences of LSNs, seen through what they contain.                      *)

Has(q, x) == \E i \in 1 .. Len(q) : q[i] = x

\* What a sequence contains is an element of what it ranges over.
LEMMA HasType ==
  ASSUME NEW S, NEW q \in Seq(S), NEW x, Has(q, x)
  PROVE  x \in S
BY DEF Has

\* An empty queue holds nothing.
LEMMA HasEmpty == \A x : ~Has(<<>>, x)
BY DEF Has

\* A send adds what is sent.
LEMMA HasAppend ==
  ASSUME NEW S, NEW q \in Seq(S), NEW v \in S
  PROVE  \A x : Has(Append(q, v), x) <=> Has(q, x) \/ x = v
<1> DEFINE a == Append(q, v)
<1>1. /\ Len(a) = Len(q) + 1 /\ Len(q) \in Nat /\ a[Len(q) + 1] = v
      /\ \A i \in 1 .. Len(q) : a[i] = q[i]
  OBVIOUS
<1> HIDE DEF a
<1>2. \A x : Has(a, x) <=> Has(q, x) \/ x = v
  BY <1>1 DEF Has
<1> QED BY <1>2 DEF a

\* A receive takes the head and leaves the rest.
LEMMA HasTail ==
  ASSUME NEW S, NEW q \in Seq(S), q # <<>>
  PROVE  /\ Has(q, Head(q))
         /\ \A x : Has(q, x) <=> x = Head(q) \/ Has(Tail(q), x)
<1>1. /\ Len(Tail(q)) = Len(q) - 1 /\ Len(q) \in Nat \ {0} /\ Head(q) = q[1]
      /\ \A i \in 1 .. Len(Tail(q)) : Tail(q)[i] = q[i + 1]
  OBVIOUS
<1>2. Has(q, Head(q))
  BY <1>1 DEF Has
<1>3. ASSUME NEW x, Has(q, x), x # Head(q)
      PROVE  Has(Tail(q), x)
  <2>1. PICK i \in 1 .. Len(q) : q[i] = x
    BY <1>3 DEF Has
  <2>2. i - 1 \in 1 .. Len(Tail(q)) /\ Tail(q)[i - 1] = x
    BY <1>1, <1>3, <2>1
  <2> QED BY <2>2 DEF Has
<1>4. ASSUME NEW x, Has(Tail(q), x)
      PROVE  Has(q, x)
  <2>1. PICK i \in 1 .. Len(Tail(q)) : Tail(q)[i] = x
    BY <1>4 DEF Has
  <2>2. i + 1 \in 1 .. Len(q) /\ q[i + 1] = x
    BY <1>1, <2>1
  <2> QED BY <2>2 DEF Has
<1> QED BY <1>2, <1>3, <1>4

\* A write adds what is written.
LEMMA HasConcat ==
  ASSUME NEW S, NEW p \in Seq(S), NEW q \in Seq(S)
  PROVE  \A x : Has(p \o q, x) <=> Has(p, x) \/ Has(q, x)
<1> DEFINE c == p \o q
<1>1. /\ Len(p) \in Nat /\ Len(q) \in Nat /\ Len(c) = Len(p) + Len(q)
      /\ \A i \in 1 .. Len(p) : c[i] = p[i]
      /\ \A i \in 1 .. Len(c) : i > Len(p) => c[i] = q[i - Len(p)]
  BY ConcatProperties
<1> HIDE DEF c
<1>2. ASSUME NEW x, Has(c, x)
      PROVE  Has(p, x) \/ Has(q, x)
  <2>1. PICK i \in 1 .. Len(c) : c[i] = x
    BY <1>2 DEF Has
  <2>2. CASE i <= Len(p)
    BY <1>1, <2>1, <2>2 DEF Has
  <2>3. CASE i > Len(p)
    <3>1. i - Len(p) \in 1 .. Len(q) /\ q[i - Len(p)] = x
      BY <1>1, <2>1, <2>3
    <3> QED BY <3>1 DEF Has
  <2> QED BY <1>1, <2>2, <2>3
<1>3. ASSUME NEW x, Has(p, x)
      PROVE  Has(c, x)
  BY <1>1, <1>3 DEF Has
<1>4. ASSUME NEW x, Has(q, x)
      PROVE  Has(c, x)
  <2>1. PICK i \in 1 .. Len(q) : q[i] = x
    BY <1>4 DEF Has
  <2>2. i + Len(p) \in 1 .. Len(c) /\ c[i + Len(p)] = x
    BY <1>1, <2>1
  <2> QED BY <2>2 DEF Has
<1>5. \A x : Has(c, x) <=> Has(p, x) \/ Has(q, x)
  BY <1>2, <1>3, <1>4
<1> QED BY <1>5 DEF c

\* Order survives a send of something newer than all that is queued,
LEMMA IncreasingAppend ==
  ASSUME NEW q \in Seq(LSNs), NEW v \in LSNs, Increasing(q),
         \A x \in LSNs : Has(q, x) => x < v
  PROVE  Increasing(Append(q, v))
<1> DEFINE a == Append(q, v)
<1>1. /\ Len(a) = Len(q) + 1 /\ Len(q) \in Nat /\ a[Len(q) + 1] = v
      /\ \A i \in 1 .. Len(q) : a[i] = q[i] /\ q[i] \in LSNs
  OBVIOUS
<1>2. \A i \in 1 .. Len(q) : q[i] < v
  BY <1>1 DEF Has
<1> HIDE DEF a
<1>3. Increasing(a)
  BY <1>1, <1>2 DEF Increasing
<1> QED BY <1>3 DEF a

\* a receive, which takes the oldest,
LEMMA IncreasingTail ==
  ASSUME NEW q \in Seq(LSNs), q # <<>>, Increasing(q)
  PROVE  /\ Increasing(Tail(q))
         /\ \A x \in LSNs : Has(Tail(q), x) => Head(q) < x
<1>1. /\ Len(Tail(q)) = Len(q) - 1 /\ Len(q) \in Nat \ {0} /\ Head(q) = q[1]
      /\ \A i \in 1 .. Len(Tail(q)) : Tail(q)[i] = q[i + 1]
  OBVIOUS
<1>2. Increasing(Tail(q))
  <2> SUFFICES ASSUME NEW i \in 1 .. Len(Tail(q)), NEW j \in 1 .. Len(Tail(q)),
                      i < j
               PROVE  Tail(q)[i] < Tail(q)[j]
    BY DEF Increasing
  <2>1. i + 1 \in 1 .. Len(q) /\ j + 1 \in 1 .. Len(q) /\ i + 1 < j + 1
    BY <1>1
  <2>2. q[i + 1] < q[j + 1]
    BY <2>1 DEF Increasing
  <2> QED BY <1>1, <2>2
<1>3. ASSUME NEW x \in LSNs, Has(Tail(q), x)
      PROVE  Head(q) < x
  <2>1. PICK i \in 1 .. Len(Tail(q)) : Tail(q)[i] = x
    BY <1>3 DEF Has
  <2>2. i + 1 \in 1 .. Len(q) /\ 1 < i + 1 /\ 1 \in 1 .. Len(q)
    BY <1>1
  <2>3. q[1] < q[i + 1]
    BY <2>2 DEF Increasing
  <2> QED BY <1>1, <2>1, <2>3
<1> QED BY <1>2, <1>3

\* and a write of frames newer than all on the wire.
LEMMA IncreasingConcat ==
  ASSUME NEW p \in Seq(LSNs), NEW q \in Seq(LSNs), Increasing(p), Increasing(q),
         \A x, y \in LSNs : Has(p, x) /\ Has(q, y) => x < y
  PROVE  Increasing(p \o q)
<1> DEFINE c == p \o q
<1>1. /\ Len(p) \in Nat /\ Len(q) \in Nat /\ Len(c) = Len(p) + Len(q)
      /\ \A i \in 1 .. Len(p) : c[i] = p[i]
      /\ \A i \in 1 .. Len(c) : i > Len(p) => c[i] = q[i - Len(p)]
  BY ConcatProperties
<1>2. \A i \in 1 .. Len(p), j \in 1 .. Len(q) : p[i] < q[j]
  BY DEF Has
<1> HIDE DEF c
<1> SUFFICES ASSUME NEW i \in 1 .. Len(c), NEW j \in 1 .. Len(c), i < j
             PROVE  c[i] < c[j]
  BY DEF Increasing, c
<1>3. CASE j <= Len(p)
  BY <1>1, <1>3 DEF Increasing
<1>4. CASE i <= Len(p) /\ j > Len(p)
  <2>1. j - Len(p) \in 1 .. Len(q)
    BY <1>1, <1>4
  <2> QED BY <1>1, <1>2, <1>4, <2>1
<1>5. CASE i > Len(p)
  <2>1. i - Len(p) \in 1 .. Len(q) /\ j - Len(p) \in 1 .. Len(q)
        /\ i - Len(p) < j - Len(p)
    BY <1>1, <1>5
  <2>2. q[i - Len(p)] < q[j - Len(p)]
    BY <2>1 DEF Increasing
  <2> QED BY <1>1, <1>5, <2>2
<1> QED BY <1>1, <1>3, <1>4, <1>5

\* The part of a batch that is written before an error: nothing below one of
\* its frames is left out.
LEMMA PrefixProperties ==
  ASSUME NEW q \in Seq(LSNs), NEW n \in 0 .. Len(q), Increasing(q)
  PROVE  /\ SubSeq(q, 1, n) \in Seq(LSNs) /\ Increasing(SubSeq(q, 1, n))
         /\ \A x : Has(SubSeq(q, 1, n), x) => Has(q, x)
         /\ \A x, y \in LSNs : Has(q, x) /\ Has(SubSeq(q, 1, n), y) /\ x < y
              => Has(SubSeq(q, 1, n), x)
<1> DEFINE p == SubSeq(q, 1, n)
<1>1. /\ p \in Seq(LSNs) /\ Len(p) = n /\ Len(q) \in Nat /\ n \in Nat
      /\ \A i \in 1 .. n : p[i] = q[i]
  <2>1. \A i \in 1 .. n : q[i] \in LSNs
    OBVIOUS
  <2> QED BY <2>1, SubSeqProperties
<1> HIDE DEF p
<1>2. Increasing(p) /\ \A x : Has(p, x) => Has(q, x)
  BY <1>1 DEF Increasing, Has
<1>3. ASSUME NEW x \in LSNs, NEW y \in LSNs, Has(q, x), Has(p, y), x < y
      PROVE  Has(p, x)
  <2>1. PICK i \in 1 .. Len(q) : q[i] = x
    BY <1>3 DEF Has
  <2>2. PICK j \in 1 .. n : q[j] = y
    BY <1>1, <1>3 DEF Has
  <2>3. j \in 1 .. Len(q)
    BY <1>1
  <2>4. ~(j < i) /\ i # j
    <3>1. j < i => y < x
      BY <2>1, <2>2, <2>3 DEF Increasing
    <3>2. x \in Int /\ y \in Int
      BY DEF LSNs
    <3> QED BY <1>3, <2>1, <2>2, <3>1, <3>2
  <2>5. i \in 1 .. n
    BY <1>1, <2>4
  <2> QED BY <1>1, <2>1, <2>5 DEF Has
<1> QED BY <1>1, <1>2, <1>3 DEF p
----------------------------------------------------------------------------
(* The inductive invariant.                                                *)

\* x has been queued for s and not been thrown away.
InFrames(s, x) == Has(wire[s], x) \/ Has(batch[s], x) \/ Has(queue[s], x)

\* The handler of s may still write what is in batch and queue.
MayWrite(s) == hpc[s] \notin {"finish", "drop", "dereg", "ended"}

\* The channel and what the reader holds are in commit order, and nothing is
\* in front of the reader's position.
ReaderOrder ==
  /\ lost \subseteq 1 .. Len(wal)
  /\ txClosed => ctxDone
  /\ pending # 0 => pending = currentLSN
  /\ Increasing(txCh)
  /\ \A x \in LSNs : Has(txCh, x) => x <= currentLSN /\ (pending # 0 => x < pending)

\* The transaction in routeTx is older than those in the channel, and it is
\* dispatched to each subscriber once.
RouterOrder ==
  /\ cur <= currentLSN /\ (pending # 0 => cur < pending)
  /\ \A x \in LSNs : Has(txCh, x) => cur < x
  /\ rpc \notin {"send", "drop"} => target = {}
  /\ \A s \in target : s \notin eligible /\ \A u \in target : s = u

\* The frames of s are older than what has not been routed, and older than
\* the transaction in routeTx while that is still to be dispatched to s.
FramesBehind(s) ==
  \A x \in LSNs : InFrames(s, x) =>
    /\ x <= currentLSN /\ (pending # 0 => x < pending)
    /\ \A y \in LSNs : Has(txCh, y) => x < y
    /\ rpc = "match" => x < cur
    /\ rpc \in {"dispatch", "send", "drop"} =>
         x <= cur /\ (s \in eligible \cup target => x < cur)

FramesInOrder(s) ==
  /\ Increasing(wire[s]) /\ Increasing(batch[s]) /\ Increasing(queue[s])
  /\ \A x, y \in LSNs :
       /\ Has(wire[s], x) /\ Has(batch[s], y) => x < y
       /\ Has(wire[s], x) /\ Has(queue[s], y) => x < y
       /\ Has(batch[s], x) /\ Has(queue[s], y) => x < y

OrderInv ==
  /\ ReaderOrder /\ RouterOrder
  /\ \A s \in Subs : FramesBehind(s) /\ FramesInOrder(s)

\* What the handshake leaves behind: nothing is promised before the response,
\* StartLSN hides nothing that is promised, and a stream that may write is in
\* an index.
StreamInv ==
  \A s \in Subs :
    /\ Phase(s) = "new" => promise[s] = MaxTx
    /\ \/ startLSN[s] <= asked[s]
       \/ startLSN[s] <= currentLSN /\ startLSN[s] <= promise[s]
    /\ hpc[s] \notin {"new", "register", "ended"} => s \in registered
    /\ asked[s] \in SinceLSNs \cup {0}

\* A transaction that has not been dispatched to s: not read, being handed
\* over (or given up by a reader that stopped), in the channel, or in routeTx
\* with s found or still to be found.
Underway(s, t) ==
  \/ t > currentLSN
  \/ t = currentLSN /\ (pending # 0 \/ txClosed)
  \/ Has(txCh, t)
  \/ /\ t = cur /\ rpc = "match"
     /\ \A i \in 1 .. Len(wal[t].hits) :
          i < chg /\ s \in wal[t].hits[i] => s \in eligible
  \/ t = cur /\ rpc \in {"dispatch", "send", "drop"} /\ s \in eligible \cup target

\* Where an owed transaction is.  Once s is dropped it may be nowhere; but a
\* frame that is about to be queued is queued behind all the earlier ones.
LocationInv ==
  \A s \in Subs, t \in LSNs : MayWrite(s) /\ Owed(s, t) =>
    /\ ~done[s] => InFrames(s, t) \/ Underway(s, t)
    /\ rpc = "send" /\ s \in target /\ t < cur => InFrames(s, t)

\* Nothing owed is missing in front of a frame: of one that may be written,
\* and of one that was.
GapInv ==
  \A s \in Subs, t, x \in LSNs : Owed(s, t) /\ t < x =>
    /\ MayWrite(s) /\ InFrames(s, x) => InFrames(s, t)
    /\ Has(wire[s], x) => Has(wire[s], t)

DeliveryInv == OrderInv /\ StreamInv /\ LocationInv /\ GapInv

\* The types of what is in flight.
LEMMA FlightTypes ==
  ASSUME TypeInv
  PROVE  /\ MaxTx \in Nat /\ Len(wal) \in 0 .. MaxTx
         /\ currentLSN \in 0 .. Len(wal) /\ pending \in 0 .. Len(wal)
         /\ cur \in 0 .. Len(wal) /\ txCh \in Seq(LSNs)
         /\ \A s \in Subs : /\ wire[s] \in Seq(LSNs) /\ batch[s] \in Seq(LSNs)
                            /\ queue[s] \in Seq(LSNs)
BY ConstantTypes DEF TypeInv, TypeOK, ReaderTypeOK, ChannelTypeOK, RouterTypeOK,
   FrameTypeOK

\* stream moves a frame from the queue to the batch.
LEMMA TakeFrames ==
  ASSUME TypeInv, NEW s \in Subs, Take(s)
  PROVE  /\ wire' = wire /\ queue[s] # <<>>
         /\ \A u \in Subs : u # s => batch'[u] = batch[u] /\ queue'[u] = queue[u]
         /\ batch'[s] = Append(batch[s], Head(queue[s])) /\ queue'[s] = Tail(queue[s])
         /\ Head(queue[s]) \in LSNs
         /\ \A x : Has(batch'[s], x) <=> Has(batch[s], x) \/ x = Head(queue[s])
         /\ \A x : Has(queue[s], x) <=> x = Head(queue[s]) \/ Has(queue'[s], x)
         /\ Has(queue[s], Head(queue[s]))
<1>1. /\ wire' = wire /\ queue[s] # <<>>
      /\ batch' = [batch EXCEPT ![s] = Append(@, Head(queue[s]))]
      /\ queue' = [queue EXCEPT ![s] = Tail(@)]
  BY DEF Take, outVars
<1>2. batch[s] \in Seq(LSNs) /\ queue[s] \in Seq(LSNs) /\ Head(queue[s]) \in LSNs
  BY <1>1, FlightTypes
<1>3. batch \in [Subs -> Seq(LSNs)] /\ queue \in [Subs -> Seq(LSNs)]
  BY DEF TypeInv, TypeOK, FrameTypeOK
<1>4. /\ \A u \in Subs : u # s => batch'[u] = batch[u] /\ queue'[u] = queue[u]
      /\ batch'[s] = Append(batch[s], Head(queue[s])) /\ queue'[s] = Tail(queue[s])
  BY <1>1, <1>3
<1>5. \A x : Has(batch'[s], x) <=> Has(batch[s], x) \/ x = Head(queue[s])
  BY <1>2, <1>4, HasAppend
<1>6. /\ \A x : Has(queue[s], x) <=> x = Head(queue[s]) \/ Has(queue'[s], x)
      /\ Has(queue[s], Head(queue[s]))
  BY <1>1, <1>2, <1>4, HasTail
<1> QED BY <1>1, <1>2, <1>4, <1>5, <1>6

\* stream writes the batch, or the part of it in front of an error.
LEMMA WriteFrames ==
  ASSUME TypeInv, NEW s \in Subs, Increasing(batch[s]), Write(s)
  PROVE  \E p \in Seq(LSNs) :
           /\ queue' = queue /\ batch'[s] = <<>> /\ wire'[s] = wire[s] \o p
           /\ \A u \in Subs : u # s => batch'[u] = batch[u] /\ wire'[u] = wire[u]
           /\ Increasing(p) /\ \A x : Has(p, x) => Has(batch[s], x)
           /\ \A x, y \in LSNs : Has(batch[s], x) /\ Has(p, y) /\ x < y => Has(p, x)
           /\ \A x : Has(wire'[s], x) <=> Has(wire[s], x) \/ Has(p, x)
           /\ p = batch[s] \/ hpc'[s] = "drop"
<1>1. wire \in [Subs -> Seq(LSNs)] /\ batch \in [Subs -> Seq(LSNs)]
      /\ hpc \in [Subs -> HandlerPCs]
  BY DEF TypeInv, TypeOK, FrameTypeOK, HandlerTypeOK
<1>2. queue' = queue /\ batch' = [batch EXCEPT ![s] = <<>>]
  BY DEF Write
<1>3. PICK p \in Seq(LSNs) :
        /\ wire' = [wire EXCEPT ![s] = @ \o p]
        /\ Increasing(p) /\ \A x : Has(p, x) => Has(batch[s], x)
        /\ \A x, y \in LSNs : Has(batch[s], x) /\ Has(p, y) /\ x < y => Has(p, x)
        /\ p = batch[s] \/ hpc'[s] = "drop"
  <2>1. CASE wire' = [wire EXCEPT ![s] = @ \o batch[s]]
    <3>1. batch[s] \in Seq(LSNs)
      BY <1>1
    <3> QED BY <2>1, <3>1
  <2>2. ASSUME NEW n \in 0 .. Len(batch[s]), WriteFails(s),
               wire' = [wire EXCEPT ![s] = @ \o SubSeq(batch[s], 1, n)]
        PROVE  \E p \in Seq(LSNs) :
                 /\ wire' = [wire EXCEPT ![s] = @ \o p]
                 /\ Increasing(p) /\ \A x : Has(p, x) => Has(batch[s], x)
                 /\ \A x, y \in LSNs :
                      Has(batch[s], x) /\ Has(p, y) /\ x < y => Has(p, x)
                 /\ p = batch[s] \/ hpc'[s] = "drop"
    <3> DEFINE p == SubSeq(batch[s], 1, n)
    <3>1. batch[s] \in Seq(LSNs)
      BY <1>1
    <3>2. /\ p \in Seq(LSNs) /\ Increasing(p) /\ \A x : Has(p, x) => Has(batch[s], x)
          /\ \A x, y \in LSNs : Has(batch[s], x) /\ Has(p, y) /\ x < y => Has(p, x)
      BY <3>1, PrefixProperties
    <3>3. hpc'[s] = "drop"
      BY <1>1, <2>2 DEF WriteFails, Goto
    <3>4. wire' = [wire EXCEPT ![s] = @ \o p]
      BY <2>2
    <3> HIDE DEF p
    <3> QED BY <3>2, <3>3, <3>4
  <2> QED BY <2>1, <2>2 DEF Write
<1>4. wire'[s] = wire[s] \o p /\ batch'[s] = <<>>
      /\ \A u \in Subs : u # s => batch'[u] = batch[u] /\ wire'[u] = wire[u]
  BY <1>1, <1>2, <1>3
<1>5. \A x : Has(wire'[s], x) <=> Has(wire[s], x) \/ Has(p, x)
  <2>1. wire[s] \in Seq(LSNs)
    BY <1>1
  <2> QED BY <1>4, <2>1, HasConcat
<1> QED BY <1>2, <1>3, <1>4, <1>5

\* Subscriber.Send, when there is room.
LEMMA SendFrames ==
  ASSUME TypeInv, NEW s \in Subs, Send(s), queue' # queue
  PROVE  /\ cur \in LSNs /\ queue'[s] = Append(queue[s], cur)
         /\ \A u \in Subs : u # s => queue'[u] = queue[u]
         /\ \A x : Has(queue'[s], x) <=> Has(queue[s], x) \/ x = cur
         /\ rpc' = "dispatch" /\ target' = {}
<1>1. queue \in [Subs -> Seq(LSNs)]
  BY DEF TypeInv, TypeOK, FrameTypeOK
<1>2. queue' = [queue EXCEPT ![s] = Append(@, cur)] /\ rpc' = "dispatch"
      /\ target' = {} /\ rpc = "send"
  BY DEF Send
<1>3. cur \in LSNs
  BY <1>2, FlightTypes DEF TypeInv, TypeOK, RouterTypeOK, LSNs
<1>4. \A x : Has(Append(queue[s], cur), x) <=> Has(queue[s], x) \/ x = cur
  BY <1>1, <1>3, HasAppend
<1> QED BY <1>1, <1>2, <1>3, <1>4

\* Steps that move nothing along the pipeline.
Still == UNCHANGED <<readerVars, txCh, routerVars, wire, batch, queue>>

QuietStep ==
  \/ ShutdownClose \/ Snapshot \/ ShutdownWaveEnd
  \/ \E s \in Subs :
       \/ parseSinceLSN(s) \/ RegisterAdd(s) \/ RegisterCheck(s)
       \/ RegisterDrop(s) \/ Prelude(s) \/ BatchEnd(s) \/ LeaveLoop(s)
       \/ SeeDone(s) \/ finish(s) \/ HandlerDrop(s) \/ Deregister(s)
       \/ AuthDrop(s) \/ Cancel(s) \/ RouterDrop(s) \/ ShutdownDrop(s)
       \/ ShutdownNext(s)

\* The steps that move no transaction.
LEMMA QuietIsStill ==
  ASSUME QuietStep
  PROVE  Still
BY DEF QuietStep, Still, parseSinceLSN, RegisterAdd, RegisterCheck, RegisterDrop,
   Prelude, BatchEnd, LeaveLoop, SeeDone, finish, HandlerDrop, Deregister, AuthDrop,
   Cancel, RouterDrop, ShutdownDrop, ShutdownNext, ShutdownClose, Snapshot,
   ShutdownWaveEnd, handlerVars, outVars

\* The others: those of the reader, of the router, and of one stream.
LEMMA PipelineCases ==
  ASSUME Next
  PROVE  \/ QuietStep \/ Commit \/ ReadCommit \/ Deliver \/ Reconnect
         \/ ReaderStop \/ Signal \/ Receive \/ IngestStop \/ mergeMatches
         \/ RouteTxEnd \/ Drain
         \/ \E s \in Subs : \/ dispatchEvent(s) \/ Send(s) \/ RouterDropReturn(s)
                            \/ Take(s) \/ CheckDone(s) \/ Write(s)
BY DEF Next, QuietStep, Reader, Ingest, stream, Shutdown
----------------------------------------------------------------------------
(* Order.                                                                  *)

\* The reader sends its transactions in the order it reads them.
LEMMA ReaderOrderStep ==
  ASSUME TypeInv, OrderInv, Next
  PROVE  ReaderOrder'
<1> USE DEF readerVars, routerVars, shutVars
<1>1. /\ Len(wal) \in Nat /\ currentLSN \in 0 .. Len(wal) /\ pending \in 0 .. Len(wal)
      /\ txCh \in Seq(LSNs)
  BY FlightTypes
<1>2. ReaderOrder
  BY DEF OrderInv
<1>3. CASE UNCHANGED <<wal, lost, currentLSN, pending, txClosed, ctxDone, txCh>>
  BY <1>2, <1>3 DEF ReaderOrder
<1>4. CASE Commit
  <2>1. Len(wal') = Len(wal) + 1
    BY <1>1, <1>4 DEF Commit, TypeInv, TypeOK, ReaderTypeOK
  <2> QED BY <1>1, <1>2, <1>4, <2>1 DEF ReaderOrder, Commit
<1>5. CASE ReadCommit
  BY <1>1, <1>2, <1>5 DEF ReaderOrder, ReadCommit, LSNs
<1>6. CASE Deliver
  <2>1. pending \in LSNs /\ pending = currentLSN /\ txCh' = Append(txCh, pending)
        /\ pending' = 0 /\ UNCHANGED <<wal, lost, currentLSN, txClosed, ctxDone>>
    BY <1>1, <1>2, <1>6, FlightTypes DEF ReaderOrder, Deliver, LSNs
  <2>2. Increasing(txCh')
    BY <1>1, <1>2, <1>6, <2>1, IncreasingAppend DEF ReaderOrder, Deliver
  <2>3. \A x : Has(txCh', x) <=> Has(txCh, x) \/ x = pending
    BY <1>1, <2>1, HasAppend
  <2> QED BY <1>1, <1>2, <2>1, <2>2, <2>3 DEF ReaderOrder
<1>7. CASE Reconnect
  <2>1. currentLSN + 1 .. Len(wal) \subseteq 1 .. Len(wal)
    BY <1>1
  <2>2. \A x \in LSNs : Has(txCh, x) => x <= Len(wal)
    BY <1>1, <1>2 DEF ReaderOrder, LSNs
  <2> QED BY <1>2, <1>7, <2>1, <2>2 DEF ReaderOrder, Reconnect, ConsistentPoint
<1>8. CASE ReaderStop
  BY <1>2, <1>8 DEF ReaderOrder, ReaderStop
<1>9. CASE Signal
  BY <1>2, <1>9 DEF ReaderOrder, Signal
<1>10. CASE txCh # <<>> /\ txCh' = Tail(txCh)
            /\ UNCHANGED <<wal, lost, currentLSN, pending, txClosed, ctxDone>>
  <2>1. Increasing(txCh') /\ \A x : Has(txCh', x) => Has(txCh, x)
    BY <1>1, <1>2, <1>10, IncreasingTail, HasTail DEF ReaderOrder
  <2> QED BY <1>2, <1>10, <2>1 DEF ReaderOrder
<1>11. CASE Receive \/ Drain
  BY <1>3, <1>10, <1>11 DEF Receive, Drain
<1>12. CASE \/ QuietStep \/ IngestStop \/ mergeMatches \/ RouteTxEnd
            \/ \E s \in Subs : \/ dispatchEvent(s) \/ Send(s) \/ RouterDropReturn(s)
                               \/ Take(s) \/ CheckDone(s) \/ Write(s)
  <2>1. UNCHANGED <<readerVars, txCh>>
    BY <1>12, QuietIsStill DEF Still, IngestStop, mergeMatches, RouteTxEnd,
       dispatchEvent, Send, RouterDropReturn, Take, CheckDone, Write
  <2> QED BY <1>3, <2>1
<1> QED BY <1>4, <1>5, <1>6, <1>7, <1>8, <1>9, <1>11, <1>12, PipelineCases

\* Ingest takes the oldest, and routeTx reaches a subscriber once.
LEMMA RouterOrderStep ==
  ASSUME TypeInv, OrderInv, Next
  PROVE  RouterOrder'
<1> USE DEF readerVars, routerVars, shutVars
<1>1. /\ Len(wal) \in Nat /\ currentLSN \in 0 .. Len(wal) /\ pending \in 0 .. Len(wal)
      /\ txCh \in Seq(LSNs) /\ cur \in 0 .. Len(wal)
  BY FlightTypes
<1>2. ReaderOrder /\ RouterOrder
  BY DEF OrderInv
<1>3. CASE UNCHANGED <<currentLSN, pending, txCh, cur, rpc, eligible, target>>
  BY <1>2, <1>3 DEF RouterOrder
<1>4. CASE ReadCommit
  BY <1>1, <1>2, <1>4 DEF RouterOrder, ReadCommit
<1>5. CASE Deliver
  <2>1. pending \in LSNs /\ txCh' = Append(txCh, pending) /\ pending' = 0 /\ pending # 0
        /\ UNCHANGED <<currentLSN, cur, rpc, eligible, target>>
    BY <1>1, <1>2, <1>5, FlightTypes DEF ReaderOrder, Deliver, LSNs
  <2>2. \A x : Has(txCh', x) <=> Has(txCh, x) \/ x = pending
    BY <1>1, <2>1, HasAppend
  <2> QED BY <1>2, <2>1, <2>2 DEF RouterOrder
<1>6. CASE Reconnect
  BY <1>1, <1>2, <1>6 DEF RouterOrder, Reconnect, ConsistentPoint
<1>7. CASE ReaderStop
  BY <1>2, <1>7 DEF RouterOrder, ReaderStop
<1>8. CASE Receive
  <2>1. /\ txCh # <<>> /\ txCh' = Tail(txCh) /\ cur' = Head(txCh) /\ eligible' = {}
        /\ rpc = "idle" /\ UNCHANGED <<currentLSN, pending, target>>
    BY <1>8 DEF Receive
  <2>2. cur' \in LSNs /\ Has(txCh, cur')
    BY <1>1, <2>1, HasTail
  <2>3. \A x \in LSNs : Has(txCh', x) => cur' < x
    BY <1>1, <1>2, <2>1, IncreasingTail DEF ReaderOrder
  <2> QED BY <1>2, <2>1, <2>2, <2>3 DEF RouterOrder, ReaderOrder
<1>9. CASE Drain
  <2>1. UNCHANGED <<currentLSN, pending, cur, rpc, eligible, target>>
        /\ (txCh' = txCh \/ (txCh # <<>> /\ txCh' = Tail(txCh)))
    BY <1>9 DEF Drain
  <2>2. \A x : Has(txCh', x) => Has(txCh, x)
    BY <1>1, <2>1, HasTail
  <2> QED BY <1>2, <2>1, <2>2 DEF RouterOrder
<1>10. CASE IngestStop \/ mergeMatches
  <2>1. /\ UNCHANGED <<currentLSN, pending, txCh, cur, target>>
        /\ rpc \in {"idle", "match"} /\ rpc' \notin {"send", "drop"}
    BY <1>10 DEF IngestStop, mergeMatches
  <2>2. target = {}
    BY <1>2, <2>1 DEF RouterOrder
  <2> QED BY <1>2, <2>1, <2>2 DEF RouterOrder
<1>11. CASE RouteTxEnd
  BY <1>1, <1>2, <1>11 DEF RouterOrder, RouteTxEnd, LSNs
<1>12. ASSUME NEW s \in Subs, dispatchEvent(s)
       PROVE  RouterOrder'
  BY <1>2, <1>12 DEF RouterOrder, dispatchEvent
<1>13. ASSUME NEW s \in Subs, Send(s) \/ RouterDropReturn(s)
       PROVE  RouterOrder'
  BY <1>2, <1>13 DEF RouterOrder, Send, RouterDropReturn
<1>14. CASE \/ QuietStep \/ Commit \/ Signal
            \/ \E s \in Subs : Take(s) \/ CheckDone(s) \/ Write(s)
  <2>1. UNCHANGED <<currentLSN, pending, txCh, cur, rpc, eligible, target>>
    BY <1>14, QuietIsStill DEF Still, Commit, Signal, Take, CheckDone, Write
  <2> QED BY <1>3, <2>1
<1> QED BY <1>4, <1>5, <1>6, <1>7, <1>8, <1>9, <1>10, <1>11, <1>12, <1>13, <1>14,
        PipelineCases

\* Nobody but Send adds a frame.
LEMMA FramesStep ==
  ASSUME TypeInv, OrderInv, Next, NEW s \in Subs, NEW x, InFrames(s, x)'
  PROVE  InFrames(s, x) \/ (x = cur /\ Send(s) /\ rpc' = "dispatch" /\ target' = {})
<1> USE DEF InFrames
<1>1. CASE UNCHANGED <<wire, batch, queue>>
  BY <1>1
<1>2. ASSUME NEW u \in Subs, Take(u)
      PROVE  InFrames(s, x)
  BY <1>2, TakeFrames
<1>3. ASSUME NEW u \in Subs, Write(u)
      PROVE  InFrames(s, x)
  <2>1. Increasing(batch[u])
    BY DEF OrderInv, FramesInOrder
  <2> QED BY <1>3, <2>1, WriteFrames, HasEmpty
<1>4. ASSUME NEW u \in Subs, CheckDone(u)
      PROVE  InFrames(s, x)
  <2>1. wire' = wire /\ queue' = queue /\ (batch'[s] = batch[s] \/ batch'[s] = <<>>)
    BY <1>4 DEF CheckDone, outVars, TypeInv, TypeOK, FrameTypeOK
  <2> QED BY <2>1, HasEmpty
<1>5. ASSUME NEW u \in Subs, Send(u)
      PROVE  InFrames(s, x)
             \/ (x = cur /\ Send(s) /\ rpc' = "dispatch" /\ target' = {})
  <2>1. UNCHANGED <<wire, batch>>
    BY <1>5 DEF Send, handlerVars, outVars
  <2> QED BY <1>5, <2>1, SendFrames
<1>6. CASE \/ QuietStep \/ Commit \/ ReadCommit \/ Deliver \/ Reconnect
           \/ ReaderStop \/ Signal \/ Receive \/ IngestStop \/ mergeMatches
           \/ RouteTxEnd \/ Drain
           \/ \E u \in Subs : dispatchEvent(u) \/ RouterDropReturn(u)
  <2>1. UNCHANGED <<wire, batch, queue>>
    BY <1>6, QuietIsStill DEF Still, Commit, ReadCommit, Deliver, Reconnect,
       ReaderStop, Signal, Receive, IngestStop, mergeMatches, RouteTxEnd, Drain,
       dispatchEvent, RouterDropReturn, handlerVars, outVars
  <2> QED BY <1>1, <2>1
<1> QED BY <1>2, <1>3, <1>4, <1>5, <1>6, PipelineCases

\* A frame is queued after those of earlier transactions, before those of later
\* ones are routed.
LEMMA FramesBehindStep ==
  ASSUME TypeInv, OrderInv, Next, NEW s \in Subs
  PROVE  FramesBehind(s)'
<1> USE DEF readerVars, routerVars, shutVars
<1>1. /\ Len(wal) \in Nat /\ currentLSN \in 0 .. Len(wal) /\ pending \in 0 .. Len(wal)
      /\ txCh \in Seq(LSNs) /\ cur \in 0 .. Len(wal) /\ MaxTx \in Nat
  BY FlightTypes
<1>2. ReaderOrder /\ RouterOrder /\ FramesBehind(s)
  BY DEF OrderInv
<1>3. CASE Send(s) /\ rpc' = "dispatch" /\ target' = {}
  <2>1. /\ UNCHANGED <<currentLSN, pending, txCh, cur, eligible>>
        /\ rpc = "send" /\ s \in target
    BY <1>3 DEF Send
  <2>2. s \notin eligible' \cup target'
    BY <1>2, <1>3, <2>1 DEF RouterOrder
  <2>3. ASSUME NEW x \in LSNs, InFrames(s, x)'
        PROVE  InFrames(s, x) \/ x = cur
    BY <2>3, FramesStep
  <2>4. ASSUME NEW x \in LSNs, InFrames(s, x)'
        PROVE  /\ x <= currentLSN' /\ (pending' # 0 => x < pending')
               /\ \A y \in LSNs : Has(txCh', y) => x < y
               /\ x <= cur'
    <3>1. CASE InFrames(s, x)
      BY <1>1, <1>2, <2>1, <3>1 DEF FramesBehind, LSNs
    <3>2. CASE x = cur
      BY <1>1, <1>2, <2>1, <3>2 DEF RouterOrder
    <3> QED BY <2>3, <2>4, <3>1, <3>2
  <2> QED BY <1>3, <2>2, <2>4 DEF FramesBehind
<1>4. CASE ~(Send(s) /\ rpc' = "dispatch" /\ target' = {})
  <2>1. \A x \in LSNs : InFrames(s, x)' => InFrames(s, x)
    BY <1>4, FramesStep
  <2>2. CASE UNCHANGED <<currentLSN, pending, txCh, cur, rpc, eligible, target>>
    BY <1>2, <2>1, <2>2 DEF FramesBehind
  <2>3. CASE ReadCommit
    BY <1>1, <1>2, <2>1, <2>3 DEF FramesBehind, ReadCommit, LSNs
  <2>4. CASE Deliver
    <3>1. pending \in LSNs /\ txCh' = Append(txCh, pending) /\ pending' = 0
          /\ pending # 0 /\ UNCHANGED <<currentLSN, cur, rpc, eligible, target>>
      BY <1>1, <2>4, FlightTypes DEF Deliver, LSNs
    <3>2. \A x : Has(txCh', x) <=> Has(txCh, x) \/ x = pending
      BY <1>1, <3>1, HasAppend
    <3> QED BY <1>2, <2>1, <3>1, <3>2 DEF FramesBehind
  <2>5. CASE Reconnect
    <3>1. /\ UNCHANGED <<pending, txCh, cur, rpc, eligible, target>>
          /\ currentLSN' = Len(wal)
      BY <2>5 DEF Reconnect, ConsistentPoint
    <3>2. \A x \in LSNs : x <= currentLSN => x <= Len(wal)
      BY <1>1 DEF LSNs
    <3> QED BY <1>2, <2>1, <3>1, <3>2 DEF FramesBehind
  <2>6. CASE ReaderStop
    BY <1>2, <2>1, <2>6 DEF FramesBehind, ReaderStop
  <2>7. CASE Receive
    <3>1. /\ txCh # <<>> /\ txCh' = Tail(txCh) /\ cur' = Head(txCh)
          /\ rpc' = "match" /\ UNCHANGED <<currentLSN, pending>>
      BY <2>7 DEF Receive
    <3>2. cur' \in LSNs /\ Has(txCh, cur') /\ \A x : Has(txCh', x) => Has(txCh, x)
      BY <1>1, <3>1, HasTail
    <3> QED BY <1>2, <2>1, <3>1, <3>2 DEF FramesBehind
  <2>8. CASE Drain
    <3>1. UNCHANGED <<currentLSN, pending, cur, rpc, eligible, target>>
          /\ (txCh' = txCh \/ (txCh # <<>> /\ txCh' = Tail(txCh)))
      BY <2>8 DEF Drain
    <3>2. \A x : Has(txCh', x) => Has(txCh, x)
      BY <1>1, <3>1, HasTail
    <3> QED BY <1>2, <2>1, <3>1, <3>2 DEF FramesBehind
  <2>9. CASE IngestStop \/ RouteTxEnd
    BY <1>2, <2>1, <2>9 DEF FramesBehind, IngestStop, RouteTxEnd
  <2>10. CASE mergeMatches
    <3>1. /\ UNCHANGED <<currentLSN, pending, txCh, cur>> /\ rpc = "match"
          /\ rpc' \in {"match", "dispatch"}
      BY <2>10 DEF mergeMatches
    <3>2. \A x \in LSNs : InFrames(s, x)' => x < cur /\ x <= cur
      BY <1>1, <1>2, <2>1, <3>1 DEF FramesBehind, LSNs
    <3> QED BY <1>2, <2>1, <3>1, <3>2 DEF FramesBehind
  <2>11. ASSUME NEW u \in Subs,
                dispatchEvent(u) \/ Send(u) \/ RouterDropReturn(u)
         PROVE  FramesBehind(s)'
    <3>1. /\ UNCHANGED <<currentLSN, pending, txCh, cur>>
          /\ rpc \in {"dispatch", "send", "drop"} /\ rpc' \in {"dispatch", "send", "drop"}
          /\ eligible' \cup target' \subseteq eligible \cup target
      BY <2>11 DEF dispatchEvent, Send, RouterDropReturn
    <3>2. \A x \in LSNs : InFrames(s, x)' =>
            x <= cur /\ (s \in eligible' \cup target' => x < cur)
      BY <1>2, <2>1, <3>1 DEF FramesBehind
    <3> QED BY <1>2, <2>1, <3>1, <3>2 DEF FramesBehind
  <2>12. CASE \/ QuietStep \/ Commit \/ Signal
              \/ \E u \in Subs : Take(u) \/ CheckDone(u) \/ Write(u)
    <3>1. UNCHANGED <<currentLSN, pending, txCh, cur, rpc, eligible, target>>
      BY <2>12, QuietIsStill DEF Still, Commit, Signal, Take, CheckDone, Write
    <3> QED BY <2>2, <3>1
  <2> QED BY <2>3, <2>4, <2>5, <2>6, <2>7, <2>8, <2>9, <2>10, <2>11, <2>12,
          PipelineCases
<1> QED BY <1>3, <1>4

\* From the queue through the batch to the wire, frames keep their order.
LEMMA FramesInOrderStep ==
  ASSUME TypeInv, OrderInv, Next, NEW s \in Subs
  PROVE  FramesInOrder(s)'
<1>1. /\ wire[s] \in Seq(LSNs) /\ batch[s] \in Seq(LSNs) /\ queue[s] \in Seq(LSNs)
      /\ \A x \in LSNs : x \in Int
  BY FlightTypes DEF LSNs
<1>2. FramesInOrder(s) /\ FramesBehind(s)
  BY DEF OrderInv
<1>3. CASE wire'[s] = wire[s] /\ batch'[s] = batch[s] /\ queue'[s] = queue[s]
  BY <1>2, <1>3 DEF FramesInOrder
<1>4. CASE Take(s)
  <2> DEFINE h == Head(queue[s])
  <2>1. /\ wire'[s] = wire[s] /\ batch'[s] = Append(batch[s], h) /\ queue[s] # <<>>
        /\ queue'[s] = Tail(queue[s]) /\ h \in LSNs /\ Has(queue[s], h)
        /\ \A x : Has(batch'[s], x) <=> Has(batch[s], x) \/ x = h
        /\ \A x : Has(queue[s], x) <=> x = h \/ Has(queue'[s], x)
    BY <1>4, TakeFrames
  <2> HIDE DEF h
  <2>2. Increasing(queue'[s]) /\ \A x \in LSNs : Has(queue'[s], x) => h < x
    BY <1>1, <1>2, <2>1, IncreasingTail DEF FramesInOrder, h
  <2>3. Increasing(batch'[s])
    BY <1>1, <1>2, <2>1, IncreasingAppend DEF FramesInOrder
  <2> QED BY <1>2, <2>1, <2>2, <2>3 DEF FramesInOrder
<1>5. CASE Write(s)
  <2>1. Increasing(batch[s])
    BY <1>2 DEF FramesInOrder
  <2>2. PICK p \in Seq(LSNs) :
          /\ queue'[s] = queue[s] /\ batch'[s] = <<>> /\ wire'[s] = wire[s] \o p
          /\ Increasing(p) /\ \A x : Has(p, x) => Has(batch[s], x)
          /\ \A x : Has(wire'[s], x) <=> Has(wire[s], x) \/ Has(p, x)
    BY <1>5, <2>1, WriteFrames
  <2>3. Increasing(wire'[s])
    BY <1>1, <1>2, <2>2, IncreasingConcat DEF FramesInOrder
  <2>4. Increasing(<<>>)
    BY DEF Increasing
  <2> QED BY <1>2, <2>2, <2>3, <2>4, HasEmpty DEF FramesInOrder
<1>6. CASE CheckDone(s)
  <2>1. wire' = wire /\ queue' = queue /\ (batch'[s] = batch[s] \/ batch'[s] = <<>>)
    BY <1>6 DEF CheckDone, outVars, TypeInv, TypeOK, FrameTypeOK
  <2>2. Increasing(<<>>)
    BY DEF Increasing
  <2>3. CASE batch'[s] = <<>>
    BY <1>2, <2>1, <2>2, <2>3, HasEmpty DEF FramesInOrder
  <2> QED BY <1>3, <2>1, <2>3
<1>7. CASE Send(s) /\ queue' # queue
  <2>1. /\ cur \in LSNs /\ queue'[s] = Append(queue[s], cur)
        /\ \A x : Has(queue'[s], x) <=> Has(queue[s], x) \/ x = cur
    BY <1>7, SendFrames
  <2>2. wire' = wire /\ batch' = batch /\ rpc = "send" /\ s \in target
    BY <1>7 DEF Send, handlerVars, outVars
  <2>3. \A x \in LSNs : InFrames(s, x) => x < cur
    BY <1>2, <2>2 DEF FramesBehind
  <2>4. Increasing(queue'[s])
    BY <1>1, <1>2, <2>1, <2>3, IncreasingAppend DEF FramesInOrder, InFrames
  <2> QED BY <1>2, <2>1, <2>2, <2>3, <2>4 DEF FramesInOrder, InFrames
<1>8. ASSUME NEW u \in Subs, u # s,
             Take(u) \/ CheckDone(u) \/ Write(u) \/ (Send(u) /\ queue' # queue)
      PROVE  FramesInOrder(s)'
  <2>1. Increasing(batch[u])
    BY DEF OrderInv, FramesInOrder
  <2>2. CASE CheckDone(u)
    BY <1>3, <1>8, <2>2 DEF CheckDone, outVars, TypeInv, TypeOK, FrameTypeOK
  <2>3. CASE Take(u)
    BY <1>3, <1>8, <2>3, TakeFrames
  <2>4. CASE Write(u)
    BY <1>3, <1>8, <2>1, <2>4, WriteFrames
  <2>5. CASE Send(u) /\ queue' # queue
    <3>1. wire' = wire /\ batch' = batch
      BY <2>5 DEF Send, handlerVars, outVars
    <3> QED BY <1>3, <1>8, <2>5, <3>1, SendFrames
  <2> QED BY <1>8, <2>2, <2>3, <2>4, <2>5
<1>9. CASE \/ QuietStep \/ Commit \/ ReadCommit \/ Deliver \/ Reconnect
           \/ ReaderStop \/ Signal \/ Receive \/ IngestStop \/ mergeMatches
           \/ RouteTxEnd \/ Drain
           \/ \E u \in Subs : dispatchEvent(u) \/ RouterDropReturn(u)
                              \/ (Send(u) /\ queue' = queue)
  <2>1. UNCHANGED <<wire, batch, queue>>
    BY <1>9, QuietIsStill DEF Still, Commit, ReadCommit, Deliver, Reconnect,
       ReaderStop, Signal, Receive, IngestStop, mergeMatches, RouteTxEnd, Drain,
       dispatchEvent, RouterDropReturn, Send, handlerVars, outVars
  <2> QED BY <1>3, <2>1
<1> QED BY <1>4, <1>5, <1>6, <1>7, <1>8, <1>9, PipelineCases

\* So order is kept all along the pipeline.
LEMMA OrderStep ==
  ASSUME TypeInv, OrderInv, [Next]_vars
  PROVE  OrderInv'
<1>1. CASE Next
  BY <1>1, ReaderOrderStep, RouterOrderStep, FramesBehindStep, FramesInOrderStep
     DEF OrderInv
<1>2. CASE UNCHANGED vars
  <2>1. UNCHANGED <<wal, lost, currentLSN, pending, txClosed, ctxDone, txCh, rpc,
                    cur, eligible, target, wire, batch, queue>>
    BY <1>2 DEF vars, readerVars, routerVars, handlerVars, outVars
  <2> QED BY <2>1 DEF OrderInv, ReaderOrder, RouterOrder, FramesBehind,
          FramesInOrder, InFrames
<1> QED BY <1>1, <1>2
----------------------------------------------------------------------------
(* The handshake.                                                          *)

\* The handshake: StartLSN is read before the promise is made, and a stream is in
\* an index before its response goes out.
LEMMA StreamStep ==
  ASSUME TypeInv, StreamInv, [Next]_vars
  PROVE  StreamInv'
<1> USE DEF StreamInv, Phase, TypeInv, TypeOK, HandlerTypeOK, Goto, WriteFails,
        startVars, outVars
<1>1. /\ MaxTx \in Nat /\ Len(wal) \in 0 .. MaxTx /\ currentLSN \in 0 .. Len(wal)
      /\ SinceLSNs \subseteq Nat
  BY FlightTypes, ConstantTypes
<1>2. CASE /\ UNCHANGED <<promise, startLSN, asked>>
           /\ currentLSN' \in Nat /\ currentLSN <= currentLSN'
           /\ \A s \in Subs :
                /\ Phase(s)' = "new" => Phase(s) = "new"
                /\ hpc'[s] \notin {"new", "register", "ended"} => s \in registered'
  <2> QED BY <1>1, <1>2
<1>3. CASE UNCHANGED <<promise, startLSN, asked, hpc, registered>>
           /\ currentLSN' \in Nat /\ currentLSN <= currentLSN'
  BY <1>2, <1>3
<1>4. CASE UNCHANGED vars
  BY <1>1, <1>3, <1>4 DEF vars, readerVars, handlerVars
<1>5. CASE Elsewhere
  <2>1. UNCHANGED <<promise, startLSN, asked, hpc, registered>>
    BY <1>5 DEF Elsewhere, Commit, Reader, ReadCommit, Deliver, ReaderStop,
       Reconnect, Signal, Receive, IngestStop, mergeMatches, RouteTxEnd,
       ShutdownClose, Snapshot, ShutdownWaveEnd, Drain, dispatchEvent, Send,
       RouterDropReturn, ShutdownNext, handlerVars
  <2>2. \/ currentLSN' = currentLSN \/ currentLSN' = currentLSN + 1
        \/ currentLSN' = Len(wal)
    BY <1>5 DEF Elsewhere, Commit, Reader, ReadCommit, Deliver, ReaderStop,
       Reconnect, Signal, Receive, IngestStop, mergeMatches, RouteTxEnd,
       ShutdownClose, Snapshot, ShutdownWaveEnd, Drain, dispatchEvent, Send,
       RouterDropReturn, ShutdownNext, readerVars, ConsistentPoint
  <2> QED BY <1>1, <1>3, <2>1, <2>2
<1>6. ASSUME NEW s \in Subs, parseSinceLSN(s)
      PROVE  StreamInv'
  BY <1>1, <1>6 DEF parseSinceLSN, readerVars
<1>7. ASSUME NEW s \in Subs, RegisterAdd(s) \/ Deregister(s)
      PROVE  StreamInv'
  BY <1>2, <1>1, <1>7 DEF RegisterAdd, Add, Deregister, Remove, readerVars
<1>8. ASSUME NEW s \in Subs, Prelude(s)
      PROVE  StreamInv'
  <2>1. UNCHANGED <<startLSN, asked, currentLSN, registered>> /\ hpc[s] = "prelude"
    BY <1>8 DEF Prelude, readerVars
  <2>2. hpc'[s] \in {"loop", "drop"} /\ \A u \in Subs : u # s => hpc'[u] = hpc[u]
    BY <1>8 DEF Prelude
  <2>3. \A u \in Subs : u # s => promise'[u] = promise[u]
    BY <1>8 DEF Prelude
  <2>4. promise'[s] \in {promise[s], Len(wal)}
    BY <1>8 DEF Prelude
  <2>5. \/ startLSN[s] <= asked[s]
        \/ startLSN[s] <= currentLSN /\ startLSN[s] <= promise'[s]
    BY <1>1, <2>4
  <2>6. ASSUME NEW u \in Subs
        PROVE  /\ Phase(u)' = "new" => promise'[u] = MaxTx
               /\ hpc'[u] \notin {"new", "register", "ended"} => u \in registered
    BY <2>1, <2>2, <2>3
  <2> QED BY <2>1, <2>3, <2>5, <2>6
<1>9. ASSUME NEW s \in Subs,
             \/ RegisterCheck(s) \/ RegisterDrop(s) \/ Take(s) \/ BatchEnd(s)
             \/ CheckDone(s) \/ Write(s) \/ LeaveLoop(s) \/ SeeDone(s)
             \/ finish(s) \/ HandlerDrop(s)
      PROVE  StreamInv'
  <2>1. UNCHANGED <<promise, startLSN, asked, currentLSN, registered>>
    BY <1>9 DEF RegisterCheck, RegisterDrop, Take, BatchEnd, CheckDone, Write,
       LeaveLoop, SeeDone, finish, HandlerDrop, readerVars
  <2>2. \A u \in Subs :
          /\ Phase(u)' = "new" => Phase(u) = "new"
          /\ hpc'[u] \notin {"new", "register", "ended"} =>
               hpc[u] \notin {"new", "register", "ended"}
    BY <1>9 DEF RegisterCheck, RegisterDrop, Take, BatchEnd, CheckDone, Write,
       LeaveLoop, SeeDone, finish, HandlerDrop
  <2> QED BY <1>1, <1>2, <2>1, <2>2
<1>10. ASSUME NEW s \in Subs,
              AuthDrop(s) \/ Cancel(s) \/ RouterDrop(s) \/ ShutdownDrop(s)
       PROVE  StreamInv'
  <2>1. UNCHANGED <<promise, startLSN, asked, currentLSN, registered, hpc>>
    BY <1>10 DEF AuthDrop, Cancel, RouterDrop, ShutdownDrop, readerVars, handlerVars
  <2> QED BY <1>1, <1>3, <2>1
<1> QED BY <1>4, <1>5, <1>6, <1>7, <1>8, <1>9, <1>10, NextCases

\* Only a commit makes a new debt, and a stream that has ended stays so.
LEMMA OwedStep ==
  ASSUME TypeInv, StreamInv, Next, NEW s \in Subs, NEW t \in LSNs, Owed(s, t)'
  PROVE  Owed(s, t) \/ (Commit /\ t = Len(wal) + 1)
<1> USE DEF TypeInv, TypeOK, HandlerTypeOK
<1>1. /\ MaxTx \in Nat /\ Len(wal) \in 0 .. MaxTx /\ t \in Nat /\ wal \in Seq(TxShapes)
  BY FlightTypes DEF LSNs, ReaderTypeOK
<1>2. ASSUME wal' = wal, lost \subseteq lost', promise'[s] = promise[s],
             asked'[s] = asked[s]
      PROVE  Owed(s, t)
  BY <1>2 DEF Owed, Hits
<1>3. CASE Commit
  <2>1. PICK tx \in TxShapes : wal' = Append(wal, tx)
    BY <1>3 DEF Commit
  <2>2. Len(wal') = Len(wal) + 1 /\ \A i \in 1 .. Len(wal) : wal'[i] = wal[i]
    BY <1>1, <2>1
  <2>3. UNCHANGED <<lost, promise, asked>>
    BY <1>3 DEF Commit, handlerVars, outVars, startVars
  <2>4. CASE t \in 1 .. Len(wal)
    BY <2>2, <2>3, <2>4 DEF Owed, Hits
  <2> QED BY <1>1, <1>3, <2>2, <2>4 DEF Owed
<1>4. CASE Elsewhere /\ ~Commit
  BY <1>2, <1>4 DEF Elsewhere, Reader, ReadCommit, Deliver, ReaderStop,
     Reconnect, Signal, Receive, IngestStop, mergeMatches, RouteTxEnd,
     ShutdownClose, Snapshot, ShutdownWaveEnd, Drain, dispatchEvent, Send,
     RouterDropReturn, ShutdownNext, readerVars, handlerVars, outVars, startVars
<1>5. ASSUME NEW u \in Subs, parseSinceLSN(u)
      PROVE  Owed(s, t)
  <2>1. UNCHANGED <<wal, lost, promise>>
    BY <1>5 DEF parseSinceLSN, readerVars, outVars
  <2>2. CASE u = s
    <3>1. promise'[s] = MaxTx
      BY <1>5, <2>1, <2>2 DEF parseSinceLSN, StreamInv, Phase
    <3> QED BY <1>1, <3>1 DEF Owed, LSNs
  <2>3. CASE u # s
    <3>1. asked'[s] = asked[s]
      BY <1>5, <2>3 DEF parseSinceLSN
    <3> QED BY <1>2, <2>1, <3>1
  <2> QED BY <2>2, <2>3
<1>6. ASSUME NEW u \in Subs, Prelude(u)
      PROVE  Owed(s, t)
  <2>1. UNCHANGED <<wal, lost, asked>>
    BY <1>6 DEF Prelude, readerVars, startVars
  <2>2. CASE u = s /\ promise'[s] = Len(wal)
    BY <1>1, <2>1, <2>2 DEF Owed
  <2>3. CASE promise'[s] = promise[s]
    BY <1>2, <2>1, <2>3
  <2> QED BY <1>6, <2>2, <2>3 DEF Prelude
<1>7. ASSUME NEW u \in Subs,
             \/ RegisterAdd(u) \/ RegisterCheck(u)
             \/ RegisterDrop(u) \/ Take(u) \/ BatchEnd(u)
             \/ CheckDone(u) \/ Write(u) \/ LeaveLoop(u) \/ SeeDone(u)
             \/ finish(u) \/ HandlerDrop(u) \/ Deregister(u)
             \/ AuthDrop(u) \/ Cancel(u) \/ RouterDrop(u) \/ ShutdownDrop(u)
      PROVE  Owed(s, t)
  <2>1. UNCHANGED <<wal, lost, promise, asked>>
    BY <1>7 DEF RegisterAdd, RegisterCheck, RegisterDrop, Take, BatchEnd, CheckDone,
       Write, LeaveLoop, SeeDone, finish, HandlerDrop, Deregister, AuthDrop, Cancel,
       RouterDrop, ShutdownDrop, readerVars, handlerVars, outVars, startVars
  <2> QED BY <1>2, <2>1
<1> QED BY <1>3, <1>4, <1>5, <1>6, <1>7, NextCases

\* A handler on its way out does not come back.
LEMMA MayWriteStep ==
  ASSUME TypeInv, Next, NEW s \in Subs, MayWrite(s)'
  PROVE  MayWrite(s)
<1> USE DEF MayWrite, TypeInv, TypeOK, HandlerTypeOK, Goto, WriteFails
<1>1. CASE Elsewhere
  BY <1>1, ElsewhereStays
<1>2. ASSUME NEW u \in Subs,
             \/ parseSinceLSN(u) \/ RegisterAdd(u) \/ RegisterCheck(u)
             \/ RegisterDrop(u) \/ Prelude(u) \/ Take(u) \/ BatchEnd(u)
             \/ CheckDone(u) \/ Write(u) \/ LeaveLoop(u)
      PROVE  MayWrite(s)
  BY <1>2 DEF parseSinceLSN, RegisterAdd, RegisterCheck, RegisterDrop, Prelude,
     Take, BatchEnd, CheckDone, Write, LeaveLoop
<1>3. ASSUME NEW u \in Subs,
             \/ SeeDone(u) \/ finish(u) \/ HandlerDrop(u) \/ Deregister(u)
             \/ AuthDrop(u) \/ Cancel(u) \/ RouterDrop(u) \/ ShutdownDrop(u)
      PROVE  MayWrite(s)
  BY <1>3 DEF SeeDone, finish, HandlerDrop, Deregister, AuthDrop, Cancel,
     RouterDrop, ShutdownDrop, handlerVars
<1> QED BY <1>1, <1>2, <1>3, NextCases

\* A frame is thrown away only by a handler that will write no more.
LEMMA FramesKept ==
  ASSUME TypeInv, OrderInv, Next, NEW s \in Subs, NEW x, InFrames(s, x), MayWrite(s)'
  PROVE  InFrames(s, x)'
<1> USE DEF InFrames
<1>1. CASE UNCHANGED <<wire, batch, queue>>
  BY <1>1
<1>2. ASSUME NEW u \in Subs, Take(u)
      PROVE  InFrames(s, x)'
  BY <1>2, TakeFrames
<1>3. ASSUME NEW u \in Subs, Write(u)
      PROVE  InFrames(s, x)'
  <2>1. Increasing(batch[u])
    BY DEF OrderInv, FramesInOrder
  <2>2. hpc'[s] # "drop"
    BY DEF MayWrite
  <2> QED BY <1>3, <2>1, <2>2, WriteFrames
<1>4. ASSUME NEW u \in Subs, CheckDone(u)
      PROVE  InFrames(s, x)'
  <2>1. wire' = wire /\ queue' = queue
    BY <1>4 DEF CheckDone, outVars
  <2>2. hpc'[s] # "finish"
    BY DEF MayWrite
  <2>3. batch'[s] = batch[s]
    BY <1>4, <2>2 DEF CheckDone, Goto, TypeInv, TypeOK, FrameTypeOK, HandlerTypeOK
  <2> QED BY <2>1, <2>3
<1>5. ASSUME NEW u \in Subs, Send(u)
      PROVE  InFrames(s, x)'
  <2>1. UNCHANGED <<wire, batch>>
    BY <1>5 DEF Send, handlerVars, outVars
  <2> QED BY <1>5, <2>1, SendFrames
<1>6. CASE \/ QuietStep \/ Commit \/ ReadCommit \/ Deliver \/ Reconnect
           \/ ReaderStop \/ Signal \/ Receive \/ IngestStop \/ mergeMatches
           \/ RouteTxEnd \/ Drain
           \/ \E u \in Subs : dispatchEvent(u) \/ RouterDropReturn(u)
  <2>1. UNCHANGED <<wire, batch, queue>>
    BY <1>6, QuietIsStill DEF Still, Commit, ReadCommit, Deliver, Reconnect,
       ReaderStop, Signal, Receive, IngestStop, mergeMatches, RouteTxEnd, Drain,
       dispatchEvent, RouterDropReturn, handlerVars, outVars
  <2> QED BY <1>1, <2>1
<1> QED BY <1>2, <1>3, <1>4, <1>5, <1>6, PipelineCases

\* Only Write sends frames.
LEMMA WireStays ==
  ASSUME TypeInv, Next, NEW s \in Subs, ~Write(s)
  PROVE  wire'[s] = wire[s]
<1>1. wire \in [Subs -> Seq(LSNs)]
  BY DEF TypeInv, TypeOK, FrameTypeOK
<1>2. ASSUME NEW u \in Subs, Write(u)
      PROVE  wire'[s] = wire[s]
  BY <1>1, <1>2 DEF Write
<1>3. CASE ~\E u \in Subs : Write(u)
  BY <1>3, QuietIsStill, PipelineCases DEF Still, Commit, ReadCommit, Deliver,
     Reconnect, ReaderStop, Signal, Receive, IngestStop, mergeMatches, RouteTxEnd,
     Drain, dispatchEvent, Send, RouterDropReturn, Take, CheckDone, handlerVars,
     outVars
<1> QED BY <1>2, <1>3

\* A drop is never undone.
LEMMA DoneStays ==
  ASSUME TypeInv, Next, NEW s \in Subs, ~done'[s]
  PROVE  ~done[s]
<1>1. done \in [Subs -> BOOLEAN]
  BY DEF TypeInv, TypeOK, DropTypeOK
<1>2. done' = done \/ \E u \in Subs : done' = [done EXCEPT ![u] = TRUE]
  <2>1. CASE Elsewhere
    BY <2>1, ElsewhereStays
  <2>2. CASE ~Elsewhere
    BY <2>2, NextCases DEF parseSinceLSN, RegisterAdd, RegisterCheck, RegisterDrop,
       Prelude, Take, BatchEnd, CheckDone, Write, LeaveLoop, SeeDone, finish,
       HandlerDrop, Deregister, AuthDrop, Cancel, RouterDrop, ShutdownDrop,
       StoreReason, dropVars
  <2> QED BY <2>1, <2>2
<1> QED BY <1>1, <1>2
----------------------------------------------------------------------------
(* Where an owed transaction is.                                           *)

\* A subscriber to which the transaction in routeTx is owed is not skipped.
LEMMA OwedNotSkipped ==
  ASSUME TypeInv, StreamInv, NEW s \in Subs, Owed(s, cur), ~done[s]
  PROVE  ~Skips(s)
<1>1. /\ cur > promise[s] /\ cur > asked[s] /\ wal[cur].fate[s] # "silent"
  BY DEF Owed
<1>2. cur \in Nat /\ promise[s] \in Nat /\ asked[s] \in Nat /\ startLSN[s] \in Nat
  BY FlightTypes DEF TypeInv, TypeOK, HandlerTypeOK
<1>3. startLSN[s] <= asked[s] \/ startLSN[s] <= promise[s]
  BY DEF StreamInv
<1> QED BY <1>1, <1>2, <1>3 DEF Skips

\* When the drain throws transactions away, everybody they are owed to is
\* dropped already.
LEMMA DrainAfterDrop ==
  ASSUME TypeInv, StreamInv, WaveInv, spc = "drain", NEW s \in Subs, MayWrite(s),
         NEW t \in LSNs, Owed(s, t)
  PROVE  done[s]
<1>1. Phase(s) # "new"
  <2>1. t <= MaxTx /\ t > promise[s] /\ t \in Nat /\ MaxTx \in Nat
    BY ConstantTypes DEF Owed, LSNs
  <2> QED BY <2>1 DEF StreamInv
<1>2. hpc[s] \notin {"new", "register", "ended", "regcheck", "regdrop"}
  BY <1>1 DEF Phase, MayWrite
<1>3. s \in registered
  BY <1>2 DEF StreamInv
<1> QED BY <1>2, <1>3 DEF WaveInv, SnapshotTaken

\* A transaction owed to a stream that is not dropped is not lost on its way: at
\* every step it stays under way or becomes a frame.
LEMMA UnderwayStep ==
  ASSUME TypeInv, OrderInv, StreamInv, WaveInv, Next, NEW s \in Subs, NEW t \in LSNs,
         MayWrite(s), Owed(s, t), Owed(s, t)', ~done[s], ~done'[s], Underway(s, t)
  PROVE  Underway(s, t)' \/ InFrames(s, t)'
<1> USE DEF readerVars, routerVars, shutVars
<1>1. /\ Len(wal) \in Nat /\ currentLSN \in 0 .. Len(wal) /\ pending \in 0 .. Len(wal)
      /\ txCh \in Seq(LSNs) /\ cur \in 0 .. Len(wal) /\ MaxTx \in Nat /\ t \in Nat
      /\ t \in 1 .. Len(wal) /\ t \notin lost /\ t \notin lost'
  BY FlightTypes DEF LSNs, Owed
<1>2. ReaderOrder /\ RouterOrder
  BY DEF OrderInv
<1>3. CASE UNCHANGED <<wal, currentLSN, pending, txClosed, txCh, cur, chg, rpc,
                       eligible, target>>
  BY <1>3 DEF Underway
<1>4. CASE Commit
  <2>1. wal'[t] = wal[t]
    BY <1>1, <1>4 DEF Commit, TypeInv, TypeOK, ReaderTypeOK
  <2> QED BY <1>4, <2>1 DEF Underway, Commit
<1>5. CASE ReadCommit
  <2>1. ~(t = currentLSN /\ (pending # 0 \/ txClosed))
    BY <1>2, <1>5 DEF ReadCommit, ReaderOrder
  <2>2. t > currentLSN => t > currentLSN' \/ (t = currentLSN' /\ pending' # 0)
    BY <1>1, <1>5 DEF ReadCommit
  <2> QED BY <1>5, <2>1, <2>2 DEF Underway, ReadCommit
<1>6. CASE Deliver
  <2>1. pending \in LSNs /\ pending = currentLSN /\ txCh' = Append(txCh, pending)
    BY <1>1, <1>2, <1>6, FlightTypes DEF ReaderOrder, Deliver, LSNs
  <2>2. \A x : Has(txCh', x) <=> Has(txCh, x) \/ x = pending
    BY <1>1, <2>1, HasAppend
  <2> QED BY <1>6, <2>1, <2>2 DEF Underway, Deliver
<1>7. CASE Reconnect
  <2>1. ~(t = currentLSN /\ (pending # 0 \/ txClosed))
    BY <1>2, <1>7 DEF Reconnect, ReaderOrder
  <2>2. ~(t > currentLSN)
    BY <1>1, <1>7 DEF Reconnect, ConsistentPoint
  <2> QED BY <1>7, <2>1, <2>2 DEF Underway, Reconnect
<1>8. CASE ReaderStop
  BY <1>8 DEF Underway, ReaderStop
<1>9. CASE Receive
  <2>1. /\ txCh # <<>> /\ txCh' = Tail(txCh) /\ cur' = Head(txCh) /\ rpc' = "match"
        /\ chg' = 1 /\ rpc = "idle"
        /\ UNCHANGED <<wal, currentLSN, pending, txClosed>>
    BY <1>9 DEF Receive
  <2>2. \A x : Has(txCh, x) <=> x = cur' \/ Has(txCh', x)
    BY <1>1, <2>1, HasTail
  <2>3. CASE t = cur'
    BY <2>1, <2>3 DEF Underway
  <2> QED BY <2>1, <2>2, <2>3 DEF Underway
<1>10. CASE Drain
  <2>1. spc = "drain"
    BY <1>10 DEF Drain
  <2> QED BY <2>1, DrainAfterDrop
<1>11. CASE IngestStop
  BY <1>11 DEF Underway, IngestStop
<1>12. CASE mergeMatches
  <2>1. /\ rpc = "match"
        /\ UNCHANGED <<wal, currentLSN, pending, txClosed, txCh, cur, target>>
    BY <1>12 DEF mergeMatches
  <2>2. CASE t # cur
    BY <2>1, <2>2 DEF Underway
  <2>3. CASE t = cur /\ ~(\A i \in 1 .. Len(wal[t].hits) :
                            i < chg /\ s \in wal[t].hits[i] => s \in eligible)
    BY <2>1, <2>3 DEF Underway
  <2>4. CASE t = cur /\ \A i \in 1 .. Len(wal[t].hits) :
                          i < chg /\ s \in wal[t].hits[i] => s \in eligible
    <3>1. chg \in Nat /\ \A i \in 1 .. Len(wal[t].hits) : i \in Int
      BY DEF TypeInv, TypeOK, RouterTypeOK
    <3>2. PICK k \in 1 .. Len(wal[t].hits) : s \in wal[t].hits[k]
      BY DEF Owed, Hits
    <3>3. s \in registered
      <4>1. t <= MaxTx /\ t > promise[s]
        BY DEF Owed, LSNs
      <4>2. Phase(s) # "new"
        BY <1>1, <4>1 DEF StreamInv
      <4> QED BY <4>2 DEF StreamInv, Phase, MayWrite
    <3>4. CASE chg <= Len(wal[cur].hits)
      <4>1. eligible' = eligible \cup (wal[t].hits[chg] \cap registered)
            /\ chg' = chg + 1 /\ rpc' = "match"
        BY <1>12, <2>1, <2>4, <3>4 DEF mergeMatches, Lookup
      <4>2. \A i \in 1 .. Len(wal[t].hits) :
              i < chg + 1 /\ s \in wal[t].hits[i] => s \in eligible'
        <5> SUFFICES ASSUME NEW i \in 1 .. Len(wal[t].hits), i < chg + 1,
                            s \in wal[t].hits[i]
                     PROVE  s \in eligible'
          OBVIOUS
        <5>1. i < chg \/ i = chg
          BY <3>1
        <5> QED BY <2>4, <3>3, <4>1, <5>1
      <4> QED BY <2>1, <2>4, <4>1, <4>2 DEF Underway
    <3>5. CASE ~(chg <= Len(wal[cur].hits))
      <4>1. eligible' = eligible /\ rpc' = "dispatch"
        BY <1>12, <3>5 DEF mergeMatches
      <4>2. k < chg
        BY <2>4, <3>1, <3>5
      <4>3. s \in eligible
        BY <2>4, <3>2, <4>2
      <4> QED BY <2>1, <2>4, <4>1, <4>3 DEF Underway
    <3> QED BY <3>4, <3>5
  <2> QED BY <2>2, <2>3, <2>4
<1>13. CASE RouteTxEnd
  <2>1. target = {}
    BY <1>2, <1>13 DEF RouterOrder, RouteTxEnd
  <2> QED BY <1>13, <2>1 DEF Underway, RouteTxEnd
<1>14. ASSUME NEW u \in Subs, dispatchEvent(u)
       PROVE  Underway(s, t)'
  <2>1. /\ UNCHANGED <<wal, currentLSN, pending, txClosed, txCh, cur>>
        /\ rpc = "dispatch" /\ rpc' \in {"dispatch", "send", "drop"}
        /\ eligible' = eligible \ {u} /\ target \subseteq {}
    BY <1>2, <1>14 DEF dispatchEvent, RouterOrder
  <2>2. CASE t # cur
    BY <2>1, <2>2 DEF Underway
  <2>3. CASE t = cur /\ u = s
    <3>1. ~Skips(u)
      BY <2>3, OwedNotSkipped
    <3>2. target' = {s}
      BY <1>14, <2>3, <3>1 DEF dispatchEvent
    <3> QED BY <2>1, <2>3, <3>2 DEF Underway
  <2>4. CASE t = cur /\ u # s
    BY <2>1, <2>4 DEF Underway
  <2> QED BY <2>2, <2>3, <2>4
<1>15. ASSUME NEW u \in Subs, Send(u)
       PROVE  Underway(s, t)' \/ InFrames(s, t)'
  <2>1. /\ UNCHANGED <<wal, currentLSN, pending, txClosed, txCh, cur, eligible>>
        /\ rpc = "send" /\ u \in target
        /\ rpc' \in {"dispatch", "drop"}
    BY <1>15 DEF Send
  <2>2. CASE queue' = queue /\ rpc' = "drop" /\ target' = target
    BY <2>1, <2>2 DEF Underway
  <2>3. CASE t = cur /\ u = s /\ rpc' = "dispatch"
    <3>1. queue' = [queue EXCEPT ![s] = Append(@, cur)]
      BY <1>15, <2>3 DEF Send
    <3>2. queue \in [Subs -> Seq(LSNs)]
      BY DEF TypeInv, TypeOK, FrameTypeOK
    <3>3. Has(queue'[s], t)
      BY <2>3, <3>1, <3>2, HasAppend
    <3> QED BY <3>3 DEF InFrames
  <2>4. CASE ~(t = cur /\ u = s) /\ rpc' = "dispatch"
    <3>1. s \in target => u = s
      BY <1>2, <2>1 DEF RouterOrder
    <3> QED BY <2>1, <2>4, <3>1 DEF Underway
  <2> QED BY <1>15, <2>2, <2>3, <2>4 DEF Send
<1>16. ASSUME NEW u \in Subs, RouterDropReturn(u)
       PROVE  Underway(s, t)'
  <2>1. /\ UNCHANGED <<wal, currentLSN, pending, txClosed, txCh, cur, eligible>>
        /\ rpc = "drop" /\ u \in target /\ done[u] /\ rpc' = "dispatch"
    BY <1>16 DEF RouterDropReturn
  <2>2. s \notin target
    BY <1>2, <2>1 DEF RouterOrder
  <2> QED BY <2>1, <2>2 DEF Underway
<1>17. CASE \/ QuietStep \/ Signal
            \/ \E u \in Subs : Take(u) \/ CheckDone(u) \/ Write(u)
  <2>1. UNCHANGED <<wal, currentLSN, pending, txClosed, txCh, cur, chg, rpc,
                    eligible, target>>
    BY <1>17, QuietIsStill DEF Still, Signal, Take, CheckDone, Write
  <2> QED BY <1>3, <2>1
<1> QED BY <1>4, <1>5, <1>6, <1>7, <1>8, <1>9, <1>10, <1>11, <1>12, <1>13, <1>14,
        <1>15, <1>16, <1>17, PipelineCases

\* A transaction is about to be queued for s only after dispatchEvent.
LEMMA SendComesFromDispatch ==
  ASSUME Next, NEW s \in Subs, rpc' = "send", s \in target'
  PROVE  /\ cur' = cur
         /\ \/ rpc = "send" /\ s \in target
            \/ rpc = "dispatch" /\ ~done[s]
<1>1. CASE UNCHANGED <<rpc, cur, target>>
  BY <1>1
<1>2. ASSUME NEW u \in Subs, dispatchEvent(u)
      PROVE  /\ cur' = cur
             /\ \/ rpc = "send" /\ s \in target
                \/ rpc = "dispatch" /\ ~done[s]
  BY <1>2 DEF dispatchEvent, Skips
<1>3. CASE \/ Receive \/ IngestStop \/ mergeMatches \/ RouteTxEnd
           \/ \E u \in Subs : Send(u) \/ RouterDropReturn(u)
  BY <1>3 DEF Receive, IngestStop, mergeMatches, RouteTxEnd, Send, RouterDropReturn
<1>4. CASE \/ QuietStep \/ Commit \/ ReadCommit \/ Deliver \/ Reconnect
           \/ ReaderStop \/ Signal \/ Drain
           \/ \E u \in Subs : Take(u) \/ CheckDone(u) \/ Write(u)
  <2>1. UNCHANGED <<rpc, cur, target>>
    BY <1>4, QuietIsStill DEF Still, Commit, ReadCommit, Deliver, Reconnect,
       ReaderStop, Signal, Drain, Take, CheckDone, Write, routerVars
  <2> QED BY <1>1, <2>1
<1> QED BY <1>2, <1>3, <1>4, PipelineCases

\* So LocationInv is kept, also while a drop and a send of the router race.
LEMMA LocationStep ==
  ASSUME TypeInv, OrderInv, StreamInv, WaveInv, LocationInv, Next
  PROVE  LocationInv'
<1> SUFFICES ASSUME NEW s \in Subs, NEW t \in LSNs, MayWrite(s)', Owed(s, t)'
             PROVE  /\ ~done'[s] => InFrames(s, t)' \/ Underway(s, t)'
                    /\ rpc' = "send" /\ s \in target' /\ t < cur' => InFrames(s, t)'
  BY DEF LocationInv
<1>1. /\ Len(wal) \in Nat /\ currentLSN \in 0 .. Len(wal) /\ cur \in 0 .. Len(wal)
      /\ t \in Nat
  BY FlightTypes DEF LSNs
<1>2. MayWrite(s)
  BY MayWriteStep
<1>3. CASE Commit /\ t = Len(wal) + 1
  <2>1. UNCHANGED <<currentLSN, cur>>
    BY <1>3 DEF Commit, routerVars
  <2> QED BY <1>1, <1>3, <2>1 DEF Underway
<1>4. CASE Owed(s, t)
  <2>1. ASSUME ~done'[s]
        PROVE  InFrames(s, t)' \/ Underway(s, t)'
    <3>1. ~done[s]
      BY <2>1, DoneStays
    <3>2. CASE InFrames(s, t)
      BY <3>2, FramesKept
    <3>3. CASE Underway(s, t)
      BY <1>2, <1>4, <2>1, <3>1, <3>3, UnderwayStep
    <3> QED BY <1>2, <1>4, <3>1, <3>2, <3>3 DEF LocationInv
  <2>2. ASSUME rpc' = "send", s \in target', t < cur'
        PROVE  InFrames(s, t)'
    <3>1. /\ t < cur
          /\ \/ rpc = "send" /\ s \in target
             \/ rpc = "dispatch" /\ ~done[s]
      BY <2>2, SendComesFromDispatch
    <3>2. ASSUME rpc = "dispatch"
          PROVE  ~Underway(s, t)
      <4>1. ~Has(txCh, t) /\ cur <= currentLSN
        BY <1>1, <3>1 DEF OrderInv, RouterOrder
      <4> QED BY <1>1, <3>1, <3>2, <4>1 DEF Underway
    <3>3. InFrames(s, t)
      BY <1>2, <1>4, <3>1, <3>2 DEF LocationInv
    <3> QED BY <3>3, FramesKept
  <2> QED BY <2>1, <2>2
<1> QED BY <1>3, <1>4, OwedStep
----------------------------------------------------------------------------
(* No gaps.                                                                *)

\* So is GapInv: batches that are thrown away, and writes that fail after a
\* prefix, take frames from the end only.
LEMMA GapStep ==
  ASSUME TypeInv, OrderInv, StreamInv, LocationInv, GapInv, Next
  PROVE  GapInv'
<1> SUFFICES ASSUME NEW s \in Subs, NEW t \in LSNs, NEW x \in LSNs, Owed(s, t)', t < x
             PROVE  /\ MayWrite(s)' /\ InFrames(s, x)' => InFrames(s, t)'
                    /\ Has(wire'[s], x) => Has(wire'[s], t)
  BY DEF GapInv
<1>1. /\ Len(wal) \in Nat /\ currentLSN \in 0 .. Len(wal) /\ t \in Nat /\ x \in Nat
  BY FlightTypes DEF LSNs
<1>2. CASE Commit /\ t = Len(wal) + 1
  <2>1. UNCHANGED <<wire, batch, queue>>
    BY <1>2 DEF Commit, handlerVars, outVars
  <2>2. ~InFrames(s, x)
    BY <1>1, <1>2 DEF OrderInv, FramesBehind
  <2> QED BY <2>1, <2>2 DEF InFrames
<1>3. CASE Owed(s, t)
  <2>1. ASSUME MayWrite(s)', InFrames(s, x)'
        PROVE  InFrames(s, t)'
    <3>1. MayWrite(s)
      BY <2>1, MayWriteStep
    <3>2. CASE InFrames(s, x)
      BY <1>3, <2>1, <3>1, <3>2, FramesKept DEF GapInv
    <3>3. CASE x = cur /\ Send(s)
      <4>1. rpc = "send" /\ s \in target
        BY <3>3 DEF Send
      <4>2. InFrames(s, t)
        BY <1>3, <3>1, <3>3, <4>1 DEF LocationInv
      <4> QED BY <2>1, <4>2, FramesKept
    <3> QED BY <2>1, <3>2, <3>3, FramesStep
  <2>2. ASSUME Has(wire'[s], x)
        PROVE  Has(wire'[s], t)
    <3>1. CASE ~Write(s)
      BY <1>3, <2>2, <3>1, WireStays DEF GapInv
    <3>2. CASE Write(s)
      <4>1. FramesInOrder(s)
        BY DEF OrderInv
      <4>2. Increasing(batch[s])
        BY <4>1 DEF FramesInOrder
      <4>3. PICK p \in Seq(LSNs) :
              /\ \A z : Has(p, z) => Has(batch[s], z)
              /\ \A y, z \in LSNs : Has(batch[s], y) /\ Has(p, z) /\ y < z => Has(p, y)
              /\ \A z : Has(wire'[s], z) <=> Has(wire[s], z) \/ Has(p, z)
        BY <3>2, <4>2, WriteFrames
      <4>4. CASE Has(wire[s], x)
        BY <1>3, <4>3, <4>4 DEF GapInv
      <4>5. CASE Has(p, x)
        <5>1. MayWrite(s) /\ InFrames(s, x)
          BY <3>2, <4>3, <4>5 DEF Write, MayWrite, InFrames
        <5>2. InFrames(s, t)
          BY <1>3, <5>1 DEF GapInv
        <5>3. ~Has(queue[s], t)
          BY <1>1, <4>1, <4>3, <4>5 DEF FramesInOrder
        <5> QED BY <4>3, <4>5, <5>2, <5>3 DEF InFrames
      <4> QED BY <2>2, <4>3, <4>4, <4>5
    <3> QED BY <3>1, <3>2
  <2> QED BY <2>1, <2>2
<1> QED BY <1>2, <1>3, OwedStep

\* Nothing is in flight at first.
LEMMA InitDelivery == Init => DeliveryInv
<1> SUFFICES ASSUME Init PROVE DeliveryInv
  OBVIOUS
<1>1. \A s \in Subs : wire[s] = <<>> /\ batch[s] = <<>> /\ queue[s] = <<>>
  BY DEF Init
<1>2. txCh = <<>> /\ wal = <<>> /\ Len(wal) = 0
  BY DEF Init
<1>3. Increasing(<<>>)
  BY DEF Increasing
<1>4. OrderInv
  <2>1. ReaderOrder /\ RouterOrder
    BY <1>2, <1>3, HasEmpty DEF Init, ReaderOrder, RouterOrder
  <2>2. \A s \in Subs : FramesBehind(s) /\ FramesInOrder(s)
    BY <1>1, <1>3, HasEmpty DEF FramesBehind, FramesInOrder, InFrames
  <2> QED BY <2>1, <2>2 DEF OrderInv
<1>5. StreamInv
  BY DEF Init, StreamInv, Phase, Unopened
<1>6. \A s \in Subs, t \in LSNs : ~Owed(s, t)
  BY <1>2 DEF Owed
<1> QED BY <1>4, <1>5, <1>6 DEF DeliveryInv, LocationInv, GapInv

\* DeliveryInv is inductive, given the types and the stages of the wave.
LEMMA NextDelivery ==
  ASSUME TypeInv, WaveInv, DeliveryInv, [Next]_vars
  PROVE  DeliveryInv'
<1>1. OrderInv' /\ StreamInv'
  BY OrderStep, StreamStep DEF DeliveryInv
<1>2. CASE Next
  BY <1>1, <1>2, LocationStep, GapStep DEF DeliveryInv
<1>3. CASE UNCHANGED vars
  <2>1. UNCHANGED <<wal, lost, currentLSN, pending, txClosed, txCh, rpc, cur, chg,
                    eligible, target, wire, batch, queue, hpc, done, promise, asked>>
    BY <1>3 DEF vars, readerVars, routerVars, handlerVars, outVars, startVars,
       dropVars
  <2>2. LocationInv'
    BY <2>1 DEF DeliveryInv, LocationInv, MayWrite, Owed, Hits, InFrames, Underway
  <2>3. GapInv'
    BY <2>1 DEF DeliveryInv, GapInv, MayWrite, Owed, Hits, InFrames
  <2> QED BY <1>1, <2>2, <2>3 DEF DeliveryInv
<1> QED BY <1>2, <1>3

\* The facts the theorems rest on, together.
LEMMA AlwaysDelivery == Spec => [](TypeInv /\ WaveInv /\ DeliveryInv)
<1>1. Init => WaveInv
  BY DEF Init, WaveInv, SnapshotTaken
<1>2. TypeInv /\ WaveInv /\ DeliveryInv /\ [Next]_vars => WaveInv' /\ DeliveryInv'
  BY NextWave, NextDelivery
<1> QED BY <1>1, <1>2, InitType, NextType, InitDelivery, PTL DEF Spec

\* NoGap is DeliveryInv as seen on the wire.
LEMMA WireHasNoGap ==
  ASSUME TypeInv, DeliveryInv
  PROVE  NoGap
<1> SUFFICES ASSUME NEW s \in Subs
             PROVE  /\ Increasing(wire[s])
                    /\ \A t \in 1 .. Len(wal), i \in 1 .. Len(wire[s]) :
                         Owed(s, t) /\ t < wire[s][i] => OnWire(s, t)
  BY DEF NoGap
<1>1. Increasing(wire[s])
  BY DEF DeliveryInv, OrderInv, FramesInOrder
<1>2. ASSUME NEW t \in 1 .. Len(wal), NEW i \in 1 .. Len(wire[s]),
             Owed(s, t), t < wire[s][i]
      PROVE  OnWire(s, t)
  <2>1. t \in LSNs
    BY FlightTypes DEF LSNs
  <2>2. wire[s][i] \in LSNs /\ Has(wire[s], wire[s][i])
    BY FlightTypes DEF Has
  <2>3. Has(wire[s], t)
    BY <1>2, <2>1, <2>2 DEF DeliveryInv, GapInv
  <2> QED BY <2>3 DEF Has, OnWire
<1> QED BY <1>1, <1>2

\* For any subscribers, transactions, buffers and interleaving: a client's
\* frames come in commit order, none twice, and a frame means that every
\* earlier transaction owed to the client was written before it.
THEOREM NoGapInDelivery == Spec => []NoGap
<1>1. TypeInv /\ WaveInv /\ DeliveryInv => NoGap
  BY WireHasNoGap
<1> QED BY <1>1, AlwaysDelivery, PTL
----------------------------------------------------------------------------
(* The contract.  Each step of Broadcaster is a step of DeliveryContract   *)
(* under the mapping that Contract names, or changes nothing in it.        *)

\* A stream's phase depends on its handler only,
LEMMA PhaseStays ==
  ASSUME NEW s, hpc'[s] = hpc[s]
  PROVE  Phase(s)' = Phase(s)
BY DEF Phase

\* and what it was promised on its start.
LEMMA AfterStays ==
  ASSUME NEW s, Phase(s)' = Phase(s), UNCHANGED <<promise, asked>>
  PROVE  After(s)' = After(s)
BY DEF After

\* The initial states satisfy the contract.
LEMMA InitContract == Init => Contract!Init
<1> SUFFICES ASSUME Init PROVE Contract!Init
  OBVIOUS
<1>1. \A s \in Subs : Phase(s) = "new" /\ After(s) = 0
  BY DEF Init, Phase, After
<1> QED BY <1>1 DEF Init, Contract!Init

\* A step that touches neither the log nor what clients see.
LEMMA UnseenStep ==
  ASSUME UNCHANGED <<wal, lost, wire, farewell>>,
         \A s \in Subs : Phase(s)' = Phase(s) /\ After(s)' = After(s)
  PROVE  UNCHANGED Contract!vars
BY DEF Contract!vars

\* Commits, and commits lost to a new slot, are steps of the contract's log.
LEMMA LogSteps ==
  ASSUME TypeInv, DeliveryInv, Commit \/ Reconnect
  PROVE  Contract!Commit \/ Contract!LoseSome
<1>1. UNCHANGED <<hpc, promise, asked, wire, farewell>>
  BY DEF Commit, Reconnect, handlerVars, outVars, startVars
<1>2. \A s \in Subs : Phase(s)' = Phase(s) /\ After(s)' = After(s)
  BY <1>1, PhaseStays, AfterStays
<1>3. CASE Commit
  <2>1. lost' = lost /\ \E tx \in TxShapes : wal' = Append(wal, tx)
    BY <1>3 DEF Commit
  <2> QED BY <1>1, <1>2, <2>1 DEF Contract!Commit
<1>4. CASE Reconnect
  <2>1. wal' = wal /\ lost \subseteq lost'
    BY <1>4 DEF Reconnect
  <2>2. lost' \subseteq 1 .. Len(wal)
    <3>1. lost \subseteq 1 .. Len(wal) /\ currentLSN \in Nat /\ Len(wal) \in Nat
      BY FlightTypes DEF DeliveryInv, OrderInv, ReaderOrder
    <3>2. lost' = lost \cup (currentLSN + 1 .. Len(wal))
      BY <1>4 DEF Reconnect, ConsistentPoint
    <3>3. currentLSN + 1 .. Len(wal) \subseteq 1 .. Len(wal)
      BY <3>1
    <3> QED BY <3>1, <3>2, <3>3
  <2> QED BY <1>1, <1>2, <2>1, <2>2 DEF Contract!LoseSome
<1> QED BY <1>3, <1>4

\* The first flush opens the stream, at the promise or at what was asked.
LEMMA PreludeBegins ==
  ASSUME TypeInv, StreamInv, NEW s \in Subs, Prelude(s)
  PROVE  Contract!Begin(s)
<1> USE DEF TypeInv, TypeOK, HandlerTypeOK
<1>1. /\ MaxTx \in Nat /\ Len(wal) \in 0 .. MaxTx
      /\ promise[s] \in 0 .. MaxTx /\ asked[s] \in Nat
  BY FlightTypes
<1>2. UNCHANGED <<wal, lost, wire, farewell, asked>> /\ hpc[s] = "prelude"
  BY DEF Prelude, readerVars, startVars
<1>3. hpc'[s] \in {"loop", "drop"} /\ \A u \in Subs : u # s => hpc'[u] = hpc[u]
  BY DEF Prelude, Goto, WriteFails
<1>4. \A u \in Subs : u # s => promise'[u] = promise[u]
  BY DEF Prelude
<1>5. promise'[s] \in {MaxTx, Len(wal)}
  <2>1. promise[s] = MaxTx
    BY <1>2 DEF StreamInv, Phase
  <2> QED BY <2>1 DEF Prelude
<1>6. Phase(s) = "new" /\ Phase(s)' \in {"open", "ending"}
  BY <1>2, <1>3 DEF Phase
<1>7. \A u \in Subs : u # s => Phase(u)' = Phase(u) /\ After(u)' = After(u)
  BY <1>2, <1>3, <1>4 DEF Phase, After
<1>8. After(s)' \in {MaxTx, Len(wal), asked[s]} /\ After(s)' >= Len(wal)
  <2>1. After(s)' = IF promise'[s] > asked[s] THEN promise'[s] ELSE asked[s]
    BY <1>2, <1>6 DEF After
  <2> QED BY <1>1, <1>5, <2>1
<1>9. After(s)' \in 0 .. MaxTx \cup SinceLSNs
  <2>1. asked[s] \in SinceLSNs \cup {0}
    BY DEF StreamInv
  <2> QED BY <1>1, <1>8, <2>1
<1>10. [u \in Subs |-> Phase(u)'] = [[u \in Subs |-> Phase(u)] EXCEPT ![s] = Phase(s)']
  BY <1>7
<1>11. [u \in Subs |-> After(u)'] = [[u \in Subs |-> After(u)] EXCEPT ![s] = After(s)']
  BY <1>7
<1> QED BY <1>2, <1>6, <1>8, <1>9, <1>10, <1>11 DEF Contract!Begin

\* Frames are written, or the loop is left.
LEMMA LoopSends ==
  ASSUME TypeInv, TypeInv', DeliveryInv', NEW s \in Subs,
         Phase(s) = "open", Phase(s)' \in {"open", "ending"},
         \A u \in Subs : u # s => hpc'[u] = hpc[u] /\ wire'[u] = wire[u],
         UNCHANGED <<wal, lost, promise, asked, farewell>>,
         NEW p \in Seq(LSNs), wire'[s] = wire[s] \o p
  PROVE  Contract!Send(s)
<1>1. wire[s] \in Seq(LSNs) /\ wire'[s] \in Seq(LSNs)
  BY FlightTypes DEF TypeInv, TypeOK, FrameTypeOK
<1>2. \A u \in Subs : u # s => Phase(u)' = Phase(u) /\ After(u)' = After(u)
  BY DEF Phase, After
<1>3. After(s)' = After(s)
  BY DEF After
<1>4. [u \in Subs |-> Phase(u)'] = [[u \in Subs |-> Phase(u)] EXCEPT ![s] = Phase(s)']
  BY <1>2
<1>5. [u \in Subs |-> After(u)'] = [u \in Subs |-> After(u)]
  BY <1>2, <1>3
<1>6. wire' = [wire EXCEPT ![s] = wire'[s]]
  <2>1. wire \in [Subs -> Seq(LSNs)] /\ wire' \in [Subs -> Seq(LSNs)]
    BY DEF TypeInv, TypeOK, FrameTypeOK
  <2> QED BY <2>1
<1>7. Len(wire[s]) <= Len(wire'[s]) /\ SubSeq(wire'[s], 1, Len(wire[s])) = wire[s]
  <2>1. Len(wire'[s]) = Len(wire[s]) + Len(p) /\ Len(p) \in Nat /\ Len(wire[s]) \in Nat
    BY <1>1
  <2>2. SubSeq(wire[s] \o p, 1, Len(wire[s])) = wire[s]
    BY <1>1, SubSeqOfConcat1, SubSeqFull
  <2> QED BY <2>1, <2>2
<1>8. Contract!InOrder(wire'[s])
  BY DEF DeliveryInv, OrderInv, FramesInOrder, Increasing, Contract!InOrder
<1>9. Contract!Complete(s, wire'[s])
  <2> SUFFICES ASSUME NEW i \in 1 .. Len(wire'[s]), NEW t \in 1 .. Len(wal),
                      After(s) < t, t < wire'[s][i], t \notin lost, Wants(s, wal[t])
               PROVE  \E j \in 1 .. Len(wire'[s]) : wire'[s][j] = t
    BY DEF Contract!Complete
  <2>1. t \in LSNs /\ t \in Nat
    <3>1. MaxTx \in Nat /\ Len(wal) \in 0 .. MaxTx
      BY FlightTypes
    <3> QED BY <3>1 DEF LSNs
  <2>2. t > promise[s] /\ t > asked[s]
    <3>1. promise[s] \in Nat /\ asked[s] \in Nat
      BY ConstantTypes DEF TypeInv, TypeOK, HandlerTypeOK
    <3>2. After(s) = IF promise[s] > asked[s] THEN promise[s] ELSE asked[s]
      BY DEF After
    <3> QED BY <2>1, <3>1, <3>2
  <2>3. Owed(s, t)'
    BY <2>2 DEF Owed, Hits, Wants
  <2>4. wire'[s][i] \in LSNs /\ Has(wire'[s], wire'[s][i])
    BY <1>1 DEF Has
  <2>5. Has(wire'[s], t)
    BY <2>1, <2>3, <2>4 DEF DeliveryInv, GapInv
  <2> QED BY <2>5 DEF Has
<1> QED BY <1>4, <1>5, <1>6, <1>7, <1>8, <1>9 DEF Contract!Send

\* The handler is through with the client.
LEMMA HandlerEnds ==
  ASSUME TypeInv, TypeInv', NEW s \in Subs, finish(s) \/ HandlerDrop(s), hpc' # hpc
  PROVE  Contract!End(s)
<1>1. hpc \in [Subs -> HandlerPCs] /\ hpc' = [hpc EXCEPT ![s] = "dereg"]
      /\ hpc[s] \in {"finish", "drop"}
  BY DEF finish, HandlerDrop, Goto, TypeInv, TypeOK, HandlerTypeOK
<1>2. UNCHANGED <<wal, lost, wire, promise, asked>>
  BY DEF finish, HandlerDrop, readerVars, startVars, outVars
<1>3. Phase(s) = "ending" /\ Phase(s)' = "ended"
      /\ \A u \in Subs : u # s => Phase(u)' = Phase(u)
  BY <1>1 DEF Phase
<1>4. \A u \in Subs : After(u)' = After(u)
  BY <1>2, <1>3 DEF After
<1>5. farewell'[s] \in Reasons \cup {"none"}
      /\ farewell' = [farewell EXCEPT ![s] = farewell'[s]]
  BY DEF finish, HandlerDrop, outVars, TypeInv, TypeOK, DropTypeOK
<1>6. [u \in Subs |-> Phase(u)'] = [[u \in Subs |-> Phase(u)] EXCEPT ![s] = "ended"]
  BY <1>3
<1>7. [u \in Subs |-> After(u)'] = [u \in Subs |-> After(u)]
  BY <1>4
<1> QED BY <1>2, <1>3, <1>5, <1>6, <1>7 DEF Contract!End

\* A write, a write error, Done seen in the loop or before the write.
LEMMA LoopSteps ==
  ASSUME TypeInv, TypeInv', DeliveryInv, DeliveryInv', NEW s \in Subs,
         Write(s) \/ LeaveLoop(s) \/ SeeDone(s) \/ CheckDone(s)
  PROVE  Contract!Send(s)
<1> USE DEF Goto, WriteFails, readerVars, startVars, outVars, handlerVars
<1>1. UNCHANGED <<wal, lost, promise, asked, farewell>>
  BY DEF Write, LeaveLoop, SeeDone, CheckDone
<1>2. /\ hpc[s] \in {"loop", "check", "write"}
      /\ hpc'[s] \in {"loop", "write", "finish", "drop"}
      /\ \A u \in Subs : u # s => hpc'[u] = hpc[u]
  BY DEF Write, LeaveLoop, SeeDone, CheckDone, TypeInv, TypeOK, HandlerTypeOK
<1>3. Phase(s) = "open" /\ Phase(s)' \in {"open", "ending"}
  BY <1>2 DEF Phase
<1>4. CASE Write(s)
  <2>1. Increasing(batch[s])
    BY DEF DeliveryInv, OrderInv, FramesInOrder
  <2>2. PICK p \in Seq(LSNs) :
          /\ wire'[s] = wire[s] \o p
          /\ \A u \in Subs : u # s => wire'[u] = wire[u]
    BY <1>4, <2>1, WriteFrames
  <2> QED BY <1>1, <1>2, <1>3, <2>2, LoopSends
<1>5. CASE LeaveLoop(s) \/ SeeDone(s) \/ CheckDone(s)
  <2>1. wire' = wire
    BY <1>5 DEF LeaveLoop, SeeDone, CheckDone
  <2>2. <<>> \in Seq(LSNs) /\ wire[s] = wire[s] \o <<>>
    BY FlightTypes
  <2> QED BY <1>1, <1>2, <1>3, <2>1, <2>2, LoopSends
<1> QED BY <1>4, <1>5

\* Every step is a step of the contract, or changes nothing in it.
LEMMA NextContract ==
  ASSUME TypeInv, TypeInv', DeliveryInv, DeliveryInv', [Next]_vars
  PROVE  [Contract!Next]_(Contract!vars)
<1> USE DEF readerVars, routerVars, handlerVars, startVars, outVars, dropVars
<1>1. CASE /\ UNCHANGED <<wal, lost, wire, farewell, promise, asked>>
           /\ \A s \in Subs : Phase(s)' = Phase(s)
  <2>1. \A s \in Subs : After(s)' = After(s)
    BY <1>1 DEF After
  <2> QED BY <1>1, <2>1, UnseenStep
<1>2. CASE UNCHANGED vars
  BY <1>1, <1>2, PhaseStays DEF vars
<1>3. CASE Commit \/ Reconnect
  BY <1>3, LogSteps DEF Contract!Next
<1>4. CASE Elsewhere /\ ~Commit /\ ~Reconnect
  <2>1. UNCHANGED <<wal, lost, hpc, wire, farewell, promise, asked>>
    BY <1>4 DEF Elsewhere, Reader, ReadCommit, Deliver, ReaderStop, Signal, Receive,
       IngestStop, mergeMatches, RouteTxEnd, ShutdownClose, Snapshot,
       ShutdownWaveEnd, Drain, dispatchEvent, Send, RouterDropReturn, ShutdownNext
  <2> QED BY <1>1, <2>1, PhaseStays
<1>5. ASSUME NEW s \in Subs, Prelude(s)
      PROVE  Contract!Next
  BY <1>5, PreludeBegins DEF Contract!Next, DeliveryInv
<1>6. ASSUME NEW s \in Subs, Write(s) \/ LeaveLoop(s) \/ SeeDone(s) \/ CheckDone(s)
      PROVE  Contract!Next
  BY <1>6, LoopSteps DEF Contract!Next
<1>7. ASSUME NEW s \in Subs, finish(s) \/ HandlerDrop(s), hpc' # hpc
      PROVE  Contract!Next
  BY <1>7, HandlerEnds DEF Contract!Next
<1>8. ASSUME NEW s \in Subs, parseSinceLSN(s)
      PROVE  UNCHANGED Contract!vars
  <2>1. hpc \in [Subs -> HandlerPCs] /\ asked \in [Subs -> Nat]
    BY DEF TypeInv, TypeOK, HandlerTypeOK
  <2>2. UNCHANGED <<wal, lost, wire, farewell, promise>> /\ hpc[s] = "new"
        /\ hpc' = [hpc EXCEPT ![s] = "register"]
        /\ \A u \in Subs : u # s => asked'[u] = asked[u]
    BY <1>8, <2>1 DEF parseSinceLSN
  <2>3. \A u \in Subs : Phase(u)' = Phase(u) /\ After(u)' = After(u)
    BY <2>1, <2>2 DEF Phase, After
  <2> QED BY <2>2, <2>3, UnseenStep
<1>9. ASSUME NEW s \in Subs,
             \/ RegisterAdd(s) \/ RegisterCheck(s) \/ RegisterDrop(s) \/ Take(s)
             \/ BatchEnd(s) \/ Deregister(s) \/ (HandlerDrop(s) /\ hpc' = hpc)
             \/ AuthDrop(s) \/ Cancel(s) \/ RouterDrop(s) \/ ShutdownDrop(s)
      PROVE  UNCHANGED Contract!vars
  <2>1. UNCHANGED <<wal, lost, wire, farewell, promise, asked>>
    BY <1>9 DEF RegisterAdd, RegisterCheck, RegisterDrop, Take, BatchEnd, Deregister,
       HandlerDrop, AuthDrop, Cancel, RouterDrop, ShutdownDrop
  <2>2. hpc \in [Subs -> HandlerPCs]
    BY DEF TypeInv, TypeOK, HandlerTypeOK
  <2>3. \A u \in Subs : Phase(u)' = Phase(u)
    BY <1>9, <2>2 DEF Phase, Goto, RegisterAdd, RegisterCheck, RegisterDrop, Take,
       BatchEnd, Deregister, HandlerDrop, AuthDrop, Cancel, RouterDrop, ShutdownDrop
  <2>4. \A u \in Subs : After(u)' = After(u)
    BY <2>1, <2>3 DEF After
  <2> QED BY <2>1, <2>3, <2>4, UnseenStep
<1>10. ASSUME NEW s \in Subs, finish(s)
       PROVE  hpc' # hpc
  BY <1>10 DEF finish, Goto, TypeInv, TypeOK, HandlerTypeOK
<1> QED BY <1>2, <1>3, <1>4, <1>5, <1>6, <1>7, <1>8, <1>9, <1>10, NextCases

\* Broadcaster implements DeliveryContract, whatever the subscribers, the
\* transactions, the buffer sizes and the order of the goroutines' steps: what
\* was sent is never taken back or repeated, frames go only to open streams,
\* in commit order and without a hole, and nothing follows the terminal frame.
THEOREM ContractIsKept == Spec => KeepsContract
<1>1. Init => Contract!Init
  BY InitContract
<1>2. /\ TypeInv /\ WaveInv /\ DeliveryInv
      /\ (TypeInv /\ WaveInv /\ DeliveryInv)'
      /\ [Next]_vars
      => [Contract!Next]_(Contract!vars)
  BY NextContract
<1> QED BY <1>1, <1>2, AlwaysDelivery, PTL DEF Spec, KeepsContract, Contract!Spec
=============================================================================
