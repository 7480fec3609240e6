------------------------------ MODULE Refresh ------------------------------
(***************************************************************************)
(* The permission refresh of one stream (auth.Subscriber) against the      *)
(* router, which filters transactions with the very whitelists the refresh *)
(* goroutine replaces.  The two share two atomic pointers, AuthMap and     *)
(* PrevWhitelist, and no lock: swapMap reads the reader's LSN, stores the  *)
(* old map and stores the new one, three steps; FilterWithLSN, called once *)
(* per change, loads the one and perhaps the other, two steps.             *)
(*                                                                         *)
(* Whitelists are generations 1, 2, ...; 0 stands for nil.  A transaction  *)
(* is its LSN.  The auth backend is external: it grants, denies or is down.*)
(***************************************************************************)
EXTENDS Integers, Sequences

CONSTANTS
  Backoffs,      \* len(backoffs): retries after an unavailable backend
  ChangesPerTx,  \* changes the router filters per transaction
  MaxLSN,        \* bound: positions, and so transactions
  MaxGen         \* bound: whitelists, the one of the handshake included

ASSUME RefreshAssumption ==
  /\ Backoffs \in Nat
  /\ ChangesPerTx \in Nat \ {0} /\ MaxLSN \in Nat /\ MaxGen \in Nat \ {0}

VARIABLES
  lsn,        \* wal.CurrentLSN
  points,     \* history: consistent points of the slots created so far
  inbox,      \* transactions read and not yet routed
  cur,        \* the transaction in dispatchEvent, 0 if none
  chg,        \* the change FilterWithLSN is called for
  loaded,     \* FilterWithLSN's m while it needs PrevWhitelist, else 0
  authMap,    \* AuthMap: its generation
  prev,       \* PrevWhitelist: its generation, 0 while nil
  refreshAt,  \* RefreshLSN of every generation copied so far
  pc,         \* refresh goroutine
  attempt,    \* tryRefresh's counter
  backend,    \* the auth backend
  ctxDone,    \* the request is over
  reason,     \* router.Subscriber.reasonPtr, "none" while nil
  used,       \* history: generations that filtered changes of a transaction
  readUnder,  \* history: AuthMap's generation when a transaction was read, 0
              \* as long as none was read at that LSN
  copied,     \* history: refreshes stamped with an LSN by then
  failures    \* history: calls the backend failed in the last refresh that
              \* began before the stream was dropped

routerVars == <<cur, chg, loaded, used>>
mapVars == <<authMap, prev, refreshAt>>
loopVars == <<pc, attempt, failures>>
readVars == <<points, readUnder, copied>>
vars == <<lsn, inbox, routerVars, mapVars, loopVars, backend, ctxDone, reason,
          readVars>>

Gens == 1 .. MaxGen
LSNs == 1 .. MaxLSN

Init ==
  /\ lsn = 0 /\ inbox = <<>>
  /\ cur = 0 /\ chg = 0 /\ loaded = 0 /\ used = [t \in LSNs |-> {}]
  /\ authMap = 1 /\ prev = 0 /\ refreshAt = <<0>>
  /\ pc = "sleep" /\ attempt = 0 /\ failures = 0
  /\ backend = "grant" /\ ctxDone = FALSE /\ reason = "none"
  /\ points = {} /\ readUnder = [t \in LSNs |-> 0] /\ copied = [t \in LSNs |-> 0]
----------------------------------------------------------------------------
(* The surroundings.                                                       *)

\* bootstrapSlot, after a connection that broke: CurrentLSN becomes the
\* consistent point of the new slot, beyond every commit read so far.
bootstrapSlot ==
  /\ \E p \in LSNs : p > lsn /\ lsn' = p /\ points' = points \cup {p}
  /\ UNCHANGED <<inbox, routerVars, mapVars, loopVars, backend, ctxDone, reason,
                 readUnder, copied>>

\* processWALMessage, Commit: setLSN, then deliver.  A commit is beyond the
\* position, or the first one of a slot and exactly at its consistent point.
ReadTx ==
  /\ \E t \in LSNs :
       /\ t = lsn + 1 \/ (t = lsn /\ t \in points /\ readUnder[t] = 0)
       /\ lsn' = t
       /\ inbox' = Append(inbox, t)
       /\ readUnder' = [readUnder EXCEPT ![t] = authMap]
       /\ copied' = [copied EXCEPT ![t] = Len(refreshAt)]
  /\ UNCHANGED <<points, routerVars, mapVars, loopVars, backend, ctxDone, reason>>

BackendTurns ==
  /\ backend' \in {"grant", "deny", "down"} \ {backend}
  /\ UNCHANGED <<lsn, inbox, routerVars, mapVars, loopVars, ctxDone, reason,
                 readVars>>

\* The client leaves; stream drops the subscriber a little later.
ClientLeaves ==
  /\ ~ctxDone /\ ctxDone' = TRUE
  /\ UNCHANGED <<lsn, inbox, routerVars, mapVars, loopVars, backend, reason,
                 readVars>>

Drop(r) == reason' = IF reason = "none" THEN r ELSE reason

\* Somebody else drops the subscriber: router, handler or shutdown.
OtherDrop ==
  /\ reason = "none" /\ Drop("other")
  /\ UNCHANGED <<lsn, inbox, routerVars, mapVars, loopVars, backend, ctxDone,
                 readVars>>
----------------------------------------------------------------------------
(* The router: one call of FilterWithLSN per change.                       *)

StartTx ==
  /\ cur = 0 /\ inbox # <<>>
  /\ cur' = Head(inbox) /\ inbox' = Tail(inbox) /\ chg' = 1
  /\ UNCHANGED <<lsn, loaded, used, mapVars, loopVars, backend, ctxDone, reason,
                 readVars>>

\* One change has been filtered with generation g.
Filtered(g) ==
  /\ used' = [used EXCEPT ![cur] = @ \cup {g}]
  /\ loaded' = 0
  /\ IF chg = ChangesPerTx THEN cur' = 0 /\ chg' = 0
                           ELSE cur' = cur /\ chg' = chg + 1

\* Fault: off by one at the refresh position.
FilterOffByOne ==
  /\ cur # 0 /\ loaded = 0
  /\ IF cur <= refreshAt[authMap] + 1 /\ authMap > 1
       THEN loaded' = authMap /\ UNCHANGED <<cur, chg, used>>
       ELSE Filtered(authMap)
  /\ UNCHANGED <<lsn, inbox, mapVars, loopVars, backend, ctxDone, reason,
                 readVars>>

\* Fault: the grant of the moment, whenever the transaction was read.
FilterCurrentOnly ==
  /\ cur # 0 /\ loaded = 0
  /\ Filtered(authMap)
  /\ UNCHANGED <<lsn, inbox, mapVars, loopVars, backend, ctxDone, reason,
                 readVars>>

\* m := AuthMap.Load(); a transaction read before m's refresh needs the
\* previous whitelist, which is loaded a step later.
FilterWithLSN ==
  /\ cur # 0 /\ loaded = 0
  /\ IF cur <= refreshAt[authMap]
       THEN loaded' = authMap /\ UNCHANGED <<cur, chg, used>>
       ELSE Filtered(authMap)
  /\ UNCHANGED <<lsn, inbox, mapVars, loopVars, backend, ctxDone, reason,
                 readVars>>

FilterWithPrev ==
  /\ loaded # 0
  /\ Filtered(prev)
  /\ UNCHANGED <<lsn, inbox, mapVars, loopVars, backend, ctxDone, reason,
                 readVars>>
----------------------------------------------------------------------------
(* RefreshLoop and tryRefresh.                                             *)

Quit ==
  /\ pc \in {"sleep", "backoff"} /\ (ctxDone \/ reason # "none")
  /\ pc' = "ended"
  /\ UNCHANGED <<lsn, inbox, routerVars, mapVars, attempt, failures, backend,
                 ctxDone, reason, readVars>>

\* The ticker fires; a select with several ready cases picks any of them.
Tick ==
  /\ pc = "sleep"
  /\ pc' = "call" /\ attempt' = 0
  /\ failures' = IF reason = "none" THEN 0 ELSE failures
  /\ UNCHANGED <<lsn, inbox, routerVars, mapVars, backend, ctxDone, reason,
                 readVars>>

\* Fault: a call that fails because the request is over counts as a failure.
CallIgnoresContext ==
  /\ pc = "call" /\ ctxDone
  /\ IF attempt = Backoffs
       THEN pc' = "sleep" /\ Drop("auth_unavailable")
       ELSE pc' = "backoff" /\ reason' = reason
  /\ UNCHANGED <<lsn, inbox, routerVars, mapVars, attempt, failures, backend,
                 ctxDone, readVars>>

\* OpenSession of a request that is over: its result is not looked at.
CallCancelled ==
  /\ pc = "call" /\ ctxDone
  /\ pc' = "sleep"
  /\ UNCHANGED <<lsn, inbox, routerVars, mapVars, attempt, failures, backend,
                 ctxDone, reason, readVars>>

\* 200 with the same user and the table granted.
CallGranted ==
  /\ pc = "call" /\ ~ctxDone /\ backend = "grant" /\ Len(refreshAt) < MaxGen
  /\ pc' = "lsn"
  /\ UNCHANGED <<lsn, inbox, routerVars, mapVars, attempt, failures, backend,
                 ctxDone, reason, readVars>>

\* 401, 403, 404, another user, or the table gone from the grant.
CallDenied ==
  /\ pc = "call" /\ ~ctxDone /\ backend = "deny"
  /\ Drop("auth_revoked") /\ pc' = "sleep"
  /\ UNCHANGED <<lsn, inbox, routerVars, mapVars, attempt, failures, backend,
                 ctxDone, readVars>>

\* Fault: retries at once and without an end.
CallRetriesForever ==
  /\ pc = "call" /\ ~ctxDone /\ backend = "down"
  /\ UNCHANGED vars

\* Fault: off by one, a fifth attempt.
CallOneMore ==
  /\ pc = "call" /\ ~ctxDone /\ backend = "down"
  /\ failures' = IF reason = "none" THEN failures + 1 ELSE failures
  /\ IF attempt > Backoffs
       THEN pc' = "sleep" /\ Drop("auth_unavailable")
       ELSE pc' = "backoff" /\ reason' = reason
  /\ UNCHANGED <<lsn, inbox, routerVars, mapVars, attempt, backend, ctxDone,
                 readVars>>

\* ErrUnavailable: transport, timeout, any other status, unreadable body.
CallUnavailable ==
  /\ pc = "call" /\ ~ctxDone /\ backend = "down"
  /\ failures' = IF reason = "none" THEN failures + 1 ELSE failures
  /\ IF attempt = Backoffs
       THEN pc' = "sleep" /\ Drop("auth_unavailable")
       ELSE pc' = "backoff" /\ reason' = reason
  /\ UNCHANGED <<lsn, inbox, routerVars, mapVars, attempt, backend, ctxDone,
                 readVars>>

Retry ==
  /\ pc = "backoff"
  /\ pc' = "call" /\ attempt' = attempt + 1
  /\ UNCHANGED <<lsn, inbox, routerVars, mapVars, failures, backend, ctxDone,
                 reason, readVars>>

\* swapMap: cp.RefreshLSN = lsn() ...
SwapReadLSN ==
  /\ pc = "lsn" /\ refreshAt' = Append(refreshAt, lsn) /\ pc' = "prev"
  /\ UNCHANGED <<lsn, inbox, routerVars, authMap, prev, attempt, failures,
                 backend, ctxDone, reason, readVars>>

\* ... PrevWhitelist.Store(AuthMap.Load()) ...
SwapStorePrev ==
  /\ pc = "prev" /\ prev' = authMap /\ pc' = "map"
  /\ UNCHANGED <<lsn, inbox, routerVars, authMap, refreshAt, attempt, failures,
                 backend, ctxDone, reason, readVars>>

\* ... AuthMap.Store(&cp).
SwapStoreMap ==
  /\ pc = "map" /\ authMap' = Len(refreshAt) /\ pc' = "sleep"
  /\ UNCHANGED <<lsn, inbox, routerVars, prev, refreshAt, attempt, failures,
                 backend, ctxDone, reason, readVars>>
----------------------------------------------------------------------------
tryRefresh ==
  \/ CallCancelled \/ CallGranted \/ CallDenied \/ CallUnavailable \/ Retry
  \/ SwapReadLSN \/ SwapStorePrev \/ SwapStoreMap
RefreshLoop == Quit \/ Tick \/ tryRefresh

Next ==
  \/ bootstrapSlot \/ ReadTx \/ BackendTurns \/ ClientLeaves \/ OtherDrop
  \/ StartTx \/ FilterWithLSN \/ FilterWithPrev \/ RefreshLoop

Spec == Init /\ [][Next]_vars

\* Timers fire and calls return: the HTTP client has a timeout.
FairSpec == Spec /\ WF_vars(RefreshLoop)
----------------------------------------------------------------------------
(* Properties.                                                             *)

\* Types, and the bounds that FilterWithLSN's pointers keep: PrevWhitelist is
\* never ahead of AuthMap, nor AuthMap of the copies made.
TypeOK ==
  /\ lsn \in 0 .. MaxLSN /\ inbox \in Seq(LSNs)
  /\ cur \in 0 .. lsn /\ chg \in 0 .. ChangesPerTx
  /\ refreshAt \in Seq(0 .. MaxLSN) /\ Len(refreshAt) \in Gens
  /\ authMap \in 1 .. Len(refreshAt) /\ prev \in 0 .. authMap
  /\ loaded \in 0 .. authMap
  /\ pc \in {"sleep", "call", "backoff", "lsn", "prev", "map", "ended"}
  /\ attempt \in 0 .. Backoffs /\ failures \in 0 .. Backoffs + 1
  /\ backend \in {"grant", "deny", "down"} /\ ctxDone \in BOOLEAN
  /\ reason \in {"none", "other", "auth_revoked", "auth_unavailable"}
  /\ used \in [LSNs -> SUBSET (0 .. MaxGen)]
  /\ readUnder \in [LSNs -> 0 .. MaxGen] /\ copied \in [LSNs -> 0 .. MaxGen]
  /\ points \subseteq LSNs

\* The refresh in force when t was read is stamped with t itself: a slot was
\* created at t, the swap read CurrentLSN, and only then came the commit at t.
AtStampedPoint(t) == t \in points /\ t = refreshAt[readUnder[t]]

\* Every change of a transaction is filtered with the grant in force when the
\* transaction was read, or a newer one; never with an older one, and never
\* lost because PrevWhitelist is still nil.  So once a refresh is through, what
\* it took away is gone from every transaction read after it (docs/auth.md:
\* "New column set applies to transactions committed from now on").  The
\* exception: FilterWithLSN takes a commit at the consistent point of a slot for
\* one read before a refresh that was stamped with that point, and filters it
\* with the grant just before.
FreshGrantApplies ==
  \A t \in LSNs : \A g \in used[t] :
    g >= readUnder[t] \/ (g = readUnder[t] - 1 /\ AtStampedPoint(t))

\* docs/architecture.md, Refresh: "transactions already read keep the previous
\* grant": no change is filtered with a grant whose refresh came after its
\* transaction was read.
KeepsPreviousGrant ==
  \A t \in LSNs : \A g \in used[t] : g <= copied[t]

\* What of it holds: it takes a second swap before the transaction is routed,
\* because only one previous whitelist is kept.
SkewNeedsSecondSwap ==
  \A t \in LSNs : \A g \in used[t] : g > copied[t] => Len(refreshAt) > g

\* docs/auth.md: "if all four attempts fail, the stream ends with
\* auth_unavailable": a client that leaves during a call is not an outage, and
\* neither is a backend that recovers before the last retry.
OutageIsReal == reason = "auth_unavailable" => failures = Backoffs + 1

\* Fail closed: a backend that stays down or keeps denying ends the stream.
FailsClosed == <>[](backend \in {"deny", "down"}) => <>(reason # "none" \/ ctxDone)
=============================================================================
