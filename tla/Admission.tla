----------------------------- MODULE Admission -----------------------------
(***************************************************************************)
(* Admission of SSE requests: internal/limits (a global semaphore and one  *)
(* atomic counter per user) used by runHandshake and released by the       *)
(* deferred function of runHandshakeAndWriter.  Handlers run concurrently; *)
(* the counter is incremented first and compared afterwards, so for a      *)
(* moment it also counts a request that is about to be refused.            *)
(***************************************************************************)
EXTENDS Integers, FiniteSets

CONSTANTS
  Requests,               \* handler goroutines
  Users,                  \* user ids the auth backend answers with
  NoUser,                 \* handshakeResult.userID before that: ""
  GlobalConcurrent,       \* limits.Config
  PerUserConcurrentMax    \* limits.Config

ASSUME RequestsFinite == IsFiniteSet(Requests)
ASSUME NoUserAssumption == NoUser \notin Users
ASSUME LimitsAssumption ==
  /\ GlobalConcurrent \in Nat \ {0}
  /\ PerUserConcurrentMax \in Nat \ {0}

VARIABLES
  globalSem,          \* tokens in the semaphore channel
  perUserConcurrent,  \* the counters, 0 for a user not in the map yet
  pc,                 \* handler control
  userID,             \* handshakeResult.userID
  globalAcquired,     \* handshakeResult.globalAcquired
  perUserAcquired,    \* handshakeResult.perUserAcquired
  status              \* HTTP status answered, 0 before the answer

vars == <<globalSem, perUserConcurrent, pc, userID, globalAcquired,
          perUserAcquired, status>>

AuthFailures == {400, 401, 403, 404, 503}

Init ==
  /\ globalSem = 0
  /\ perUserConcurrent = [u \in Users |-> 0]
  /\ pc = [r \in Requests |-> "new"]
  /\ userID = [r \in Requests |-> NoUser]
  /\ globalAcquired = [r \in Requests |-> FALSE]
  /\ perUserAcquired = [r \in Requests |-> FALSE]
  /\ status = [r \in Requests |-> 0]

Goto(r, l) == pc' = [pc EXCEPT ![r] = l]
Answer(r, code) == status' = [status EXCEPT ![r] = code]
----------------------------------------------------------------------------
\* serveExact, serveWildcard: a bad channel or since_lsn is answered before
\* any limit is touched.
Serve(r) ==
  /\ pc[r] = "new"
  /\ \/ Goto(r, "global") /\ status' = status
     \/ Goto(r, "done") /\ Answer(r, 400)
  /\ UNCHANGED <<globalSem, perUserConcurrent, userID, globalAcquired,
                 perUserAcquired>>

\* Fault: a plain channel send, which waits for a slot.
AcquireGlobalWaiting(r) ==
  /\ pc[r] = "global" /\ globalSem < GlobalConcurrent
  /\ globalSem' = globalSem + 1
  /\ globalAcquired' = [globalAcquired EXCEPT ![r] = TRUE]
  /\ Goto(r, "auth")
  /\ UNCHANGED <<perUserConcurrent, userID, perUserAcquired, status>>

\* A slot or 503 at once: the channel send has a default case.
AcquireGlobal(r) ==
  /\ pc[r] = "global"
  /\ IF globalSem < GlobalConcurrent
       THEN /\ globalSem' = globalSem + 1
            /\ globalAcquired' = [globalAcquired EXCEPT ![r] = TRUE]
            /\ Goto(r, "auth") /\ status' = status
       ELSE /\ Goto(r, "releaseGlobal") /\ Answer(r, 503)
            /\ UNCHANGED <<globalSem, globalAcquired>>
  /\ UNCHANGED <<perUserConcurrent, userID, perUserAcquired>>

\* authenticate: a refusal is answered there; a grant names the user.
authenticate(r) ==
  /\ pc[r] = "auth"
  /\ \/ /\ \E code \in AuthFailures : Answer(r, code)
        /\ Goto(r, "releaseGlobal") /\ userID' = userID
     \/ /\ \E u \in Users : userID' = [userID EXCEPT ![r] = u]
        /\ Goto(r, "user") /\ status' = status
  /\ UNCHANGED <<globalSem, perUserConcurrent, globalAcquired, perUserAcquired>>

\* Fault: off by one, the counter from before the increment is compared.
AcquireOffByOne(r) ==
  /\ pc[r] = "user"
  /\ IF perUserConcurrent[userID[r]] > PerUserConcurrentMax
       THEN Goto(r, "undo") /\ UNCHANGED perUserAcquired
       ELSE /\ Goto(r, "table")
            /\ perUserAcquired' = [perUserAcquired EXCEPT ![r] = TRUE]
  /\ perUserConcurrent' = [perUserConcurrent EXCEPT ![userID[r]] = @ + 1]
  /\ UNCHANGED <<globalSem, userID, globalAcquired, status>>

\* AcquirePerUser: counter.Add(1) and the comparison of what it returned.
AcquirePerUser(r) ==
  /\ pc[r] = "user"
  /\ perUserConcurrent' = [perUserConcurrent EXCEPT ![userID[r]] = @ + 1]
  /\ IF perUserConcurrent[userID[r]] + 1 > PerUserConcurrentMax
       THEN Goto(r, "undo") /\ UNCHANGED perUserAcquired
       ELSE /\ Goto(r, "table")
            /\ perUserAcquired' = [perUserAcquired EXCEPT ![r] = TRUE]
  /\ UNCHANGED <<globalSem, userID, globalAcquired, status>>

\* Fault: the refused request keeps its count.
RefuseWithoutUndo(r) ==
  /\ pc[r] = "undo"
  /\ Answer(r, 429) /\ Goto(r, "releaseGlobal")
  /\ UNCHANGED <<globalSem, perUserConcurrent, userID, globalAcquired,
                 perUserAcquired>>

\* counter.Add(-1) of a refused request, which is then answered 429.
Refuse(r) ==
  /\ pc[r] = "undo"
  /\ perUserConcurrent' = [perUserConcurrent EXCEPT ![userID[r]] = @ - 1]
  /\ Answer(r, 429) /\ Goto(r, "releaseGlobal")
  /\ UNCHANGED <<globalSem, userID, globalAcquired, perUserAcquired>>

\* The grant must name the table; otherwise 403 with both limits held.
CheckTable(r) ==
  /\ pc[r] = "table"
  /\ \/ Goto(r, "stream") /\ Answer(r, 200)
     \/ Goto(r, "releaseGlobal") /\ Answer(r, 403)
  /\ UNCHANGED <<globalSem, perUserConcurrent, userID, globalAcquired,
                 perUserAcquired>>

\* runWriter returns: client left, subscriber dropped, shutdown.
StreamEnds(r) ==
  /\ pc[r] = "stream"
  /\ Goto(r, "releaseGlobal")
  /\ UNCHANGED <<globalSem, perUserConcurrent, userID, globalAcquired,
                 perUserAcquired, status>>

\* The deferred function, first half.  ReleaseGlobal on an empty semaphore
\* only warns.
ReleaseGlobal(r) ==
  /\ pc[r] = "releaseGlobal"
  /\ globalSem' = IF globalAcquired[r] /\ globalSem > 0 THEN globalSem - 1
                                                        ELSE globalSem
  /\ globalAcquired' = [globalAcquired EXCEPT ![r] = FALSE]
  /\ Goto(r, "releaseUser")
  /\ UNCHANGED <<perUserConcurrent, userID, perUserAcquired, status>>

\* The deferred function, second half.
ReleasePerUser(r) ==
  /\ pc[r] = "releaseUser"
  /\ perUserConcurrent' =
       IF perUserAcquired[r]
         THEN [perUserConcurrent EXCEPT ![userID[r]] = @ - 1]
         ELSE perUserConcurrent
  /\ perUserAcquired' = [perUserAcquired EXCEPT ![r] = FALSE]
  /\ Goto(r, "done")
  /\ UNCHANGED <<globalSem, userID, globalAcquired, status>>

\* The goroutine is gone; a new request takes its name.
Again(r) ==
  /\ pc[r] = "done"
  /\ Goto(r, "new") /\ Answer(r, 0)
  /\ userID' = [userID EXCEPT ![r] = NoUser]
  /\ UNCHANGED <<globalSem, perUserConcurrent, globalAcquired, perUserAcquired>>

Handle(r) ==
  \/ AcquireGlobal(r) \/ authenticate(r) \/ AcquirePerUser(r) \/ Refuse(r)
  \/ CheckTable(r) \/ ReleaseGlobal(r) \/ ReleasePerUser(r)

Next == \E r \in Requests : Serve(r) \/ Handle(r) \/ StreamEnds(r) \/ Again(r)

Spec == Init /\ [][Next]_vars

\* A handler that is not waiting for its stream to end runs on; the auth call
\* has a timeout.
FairSpec == Spec /\ \A r \in Requests : WF_vars(Handle(r))
----------------------------------------------------------------------------
Locations == {"new", "global", "auth", "user", "undo", "table", "stream",
              "releaseGlobal", "releaseUser", "done"}

\* Types; the semaphore channel never holds more than its capacity.
TypeOK ==
  /\ globalSem \in 0 .. GlobalConcurrent
  /\ perUserConcurrent \in [Users -> Int]
  /\ pc \in [Requests -> Locations]
  /\ userID \in [Requests -> Users \cup {NoUser}]
  /\ globalAcquired \in [Requests -> BOOLEAN]
  /\ perUserAcquired \in [Requests -> BOOLEAN]
  /\ status \in [Requests -> AuthFailures \cup {0, 200, 429}]

Holders == {r \in Requests : globalAcquired[r]}
Admitted(u) == {r \in Requests : userID[r] = u /\ perUserAcquired[r]}
Refused(u) == {r \in Requests : userID[r] = u /\ pc[r] = "undo"}
Counted(u) == Admitted(u) \cup Refused(u)
Streams == {r \in Requests : pc[r] = "stream"}

\* The two limits bind: never more than GlobalConcurrent requests past
\* admission, never more than PerUserConcurrentMax streams of one user, however
\* their increments, comparisons and releases interleave.
LimitsBind ==
  /\ Cardinality(Streams) <= GlobalConcurrent
  /\ \A u \in Users :
       Cardinality({r \in Streams : userID[r] = u}) <= PerUserConcurrentMax

\* Nothing leaks and nothing is released twice: a request that is over holds
\* nothing, the semaphore holds one token per holder, and a counter counts the
\* admitted requests of its user and those about to be refused.
NothingLeaks ==
  /\ globalSem = Cardinality(Holders)
  /\ \A u \in Users :
       perUserConcurrent[u] = Cardinality(Counted(u))
  /\ \A r \in Requests : pc[r] \in {"new", "done"} =>
       ~globalAcquired[r] /\ ~perUserAcquired[r]

\* Nobody waits for anybody: whatever is full, a request becomes a stream or
\* is answered and gives back what it took.
HandshakeEnds ==
  \A r \in Requests :
    (pc[r] \notin {"new", "stream"}) ~>
      (pc[r] = "stream" \/ (pc[r] = "done" /\ r \notin Holders))
=============================================================================
