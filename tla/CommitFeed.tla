----------------------------- MODULE CommitFeed -----------------------------
(***************************************************************************)
(* What the router may rely on about the channel it reads: the promise of  *)
(* wal.Reader, without connections, slots, messages or acknowledgements.   *)
(* Committed transactions are handed over whole, in commit order and each  *)
(* once; some are left out only when a new replication slot is made, which *)
(* is logged ("WAL reader: transient error; reconnecting").                *)
(***************************************************************************)
EXTENDS Integers, Sequences

CONSTANTS
  Records,           \* what one record of the log commits
  Published(_),      \* whether a record is for us
  Decodings(_)       \* what a record may be handed over as

VARIABLES
  log,    \* the records, in commit order
  pos,    \* everything up to here was handed over or given up
  out,    \* what was handed over: position and changes
  slots   \* replication slots made so far

vars == <<log, pos, out, slots>>

Init == log = <<>> /\ pos = 0 /\ out = <<>> /\ slots = 0

Write ==
  /\ \E r \in Records : log' = Append(log, r)
  /\ UNCHANGED <<pos, out, slots>>

Hand ==
  /\ \E t \in pos + 1 .. Len(log) :
       /\ Published(log[t])
       /\ \A u \in pos + 1 .. t - 1 : ~Published(log[u])
       /\ \E c \in Decodings(log[t]) :
            out' = Append(out, [lsn |-> t, changes |-> c])
       /\ pos' = t
  /\ UNCHANGED <<log, slots>>

NewSlot ==
  /\ slots' = slots + 1
  /\ pos' = Len(log)
  /\ UNCHANGED <<log, out>>

Next == Write \/ Hand \/ NewSlot
Spec == Init /\ [][Next]_vars
=============================================================================
