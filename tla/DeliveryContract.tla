-------------------------- MODULE DeliveryContract --------------------------
(***************************************************************************)
(* What a client may rely on about a stream (README, "Delivery"), without  *)
(* the reader, the router, queues, batches, drops or shutdown: frames come *)
(* in commit order, each once, and none is left out in front of another;   *)
(* the stream may end at any time, its last frame may say why, and nothing *)
(* follows that.  Broadcaster is shown to implement it.                    *)
(***************************************************************************)
EXTENDS Integers, Sequences

CONSTANTS
  Streams,
  Txs,             \* transactions that may commit
  Positions,       \* where a stream may start
  Concerns(_, _),  \* Concerns(s, tx): what tx changes is for stream s
  Reasons          \* reasons that a terminal frame may name

VARIABLES
  log,      \* committed transactions, in commit order
  gaps,     \* those that the replication connection lost
  phase,    \* of a stream: "new", "open", "ending", "ended"
  after,    \* the position that a stream starts after
  sent,     \* the transactions a client was sent
  farewell  \* the reason its terminal frame names, "none" without one

vars == <<log, gaps, phase, after, sent, farewell>>

Init ==
  /\ log = <<>> /\ gaps = {}
  /\ phase = [s \in Streams |-> "new"] /\ after = [s \in Streams |-> 0]
  /\ sent = [s \in Streams |-> <<>>] /\ farewell = [s \in Streams |-> "none"]

Commit ==
  /\ \E tx \in Txs : log' = Append(log, tx)
  /\ UNCHANGED <<gaps, phase, after, sent, farewell>>

LoseSome ==
  /\ gaps \subseteq gaps' /\ gaps' \subseteq 1 .. Len(log)
  /\ UNCHANGED <<log, phase, after, sent, farewell>>

\* The response is flushed (or cannot be): what commits from now on is promised.
Begin(s) ==
  /\ phase[s] = "new"
  /\ \E p \in {"open", "ending"} : phase' = [phase EXCEPT ![s] = p]
  /\ \E n \in Positions : n >= Len(log) /\ after' = [after EXCEPT ![s] = n]
  /\ UNCHANGED <<log, gaps, sent, farewell>>

InOrder(q) == \A i, j \in 1 .. Len(q) : i < j => q[i] < q[j]

\* Nothing that concerns s is missing in front of a frame of q.
Complete(s, q) ==
  \A i \in 1 .. Len(q) : \A t \in 1 .. Len(log) :
    after[s] < t /\ t < q[i] /\ t \notin gaps /\ Concerns(s, log[t])
      => \E j \in 1 .. Len(q) : q[j] = t

\* Frames are written, or none, and the stream goes on or not.
Send(s) ==
  /\ phase[s] = "open"
  /\ \E p \in {"open", "ending"} : phase' = [phase EXCEPT ![s] = p]
  /\ sent' = [sent EXCEPT ![s] = sent'[s]]
  /\ Len(sent[s]) <= Len(sent'[s]) /\ SubSeq(sent'[s], 1, Len(sent[s])) = sent[s]
  /\ InOrder(sent'[s]) /\ Complete(s, sent'[s])
  /\ UNCHANGED <<log, gaps, after, farewell>>

End(s) ==
  /\ phase[s] = "ending"
  /\ phase' = [phase EXCEPT ![s] = "ended"]
  /\ \E r \in Reasons \cup {"none"} : farewell' = [farewell EXCEPT ![s] = r]
  /\ UNCHANGED <<log, gaps, after, sent>>

Next == Commit \/ LoseSome \/ \E s \in Streams : Begin(s) \/ Send(s) \/ End(s)
Spec == Init /\ [][Next]_vars
=============================================================================
