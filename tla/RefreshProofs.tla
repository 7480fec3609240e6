--------------------------- MODULE RefreshProofs ---------------------------
(***************************************************************************)
(* Proofs about Refresh, for any number of retries, transactions, changes  *)
(* and refreshes.  The two atomic pointers are never read together, so the *)
(* argument is about what a load can still see: PrevWhitelist is at most   *)
(* one generation behind AuthMap and never behind the map it was loaded    *)
(* after, and RefreshLSNs never decrease.                                  *)
(***************************************************************************)
EXTENDS Refresh, TLAPS

\* Where swapMap is decides how AuthMap, PrevWhitelist and the newest copy
\* stand to each other.
SwapInv ==
  /\ Len(refreshAt) = IF pc \in {"prev", "map"} THEN authMap + 1 ELSE authMap
  /\ pc = "lsn" => Len(refreshAt) < MaxGen
  /\ prev = IF pc = "map" THEN authMap ELSE authMap - 1
  /\ refreshAt[1] = 0
  /\ \A g \in 1 .. Len(refreshAt) : refreshAt[g] <= lsn
  /\ \A g, h \in 1 .. Len(refreshAt) : g <= h => refreshAt[g] <= refreshAt[h]

\* A transaction was read after the refresh of the map that was then current,
\* or at a consistent point that this refresh is stamped with; and a refresh
\* stamped below it had been made by then.
ReadInv ==
  /\ \A i \in 1 .. Len(inbox) : inbox[i] <= lsn /\ readUnder[inbox[i]] # 0
  /\ cur # 0 => readUnder[cur] # 0
  /\ \A t \in LSNs : readUnder[t] # 0 =>
       /\ t <= lsn /\ readUnder[t] \in 1 .. authMap
       /\ t > refreshAt[readUnder[t]] \/ AtStampedPoint(t)
       /\ \A g \in 1 .. Len(refreshAt) : t > refreshAt[g] => g <= copied[t]

\* A call of FilterWithLSN that goes on to PrevWhitelist had a reason to.
LoadInv ==
  /\ cur = 0 => loaded = 0
  /\ loaded # 0 => cur <= refreshAt[loaded]
  /\ \A t \in LSNs : /\ used[t] # {} => readUnder[t] # 0
                     /\ used[t] \subseteq 1 .. Len(refreshAt)

UseInv == FreshGrantApplies /\ SkewNeedsSecondSwap

\* The failures seen so far are the attempts made so far.
CountInv ==
  /\ reason = "none" /\ pc = "call" => failures = attempt
  /\ pc = "backoff" => attempt < Backoffs
  /\ reason = "none" /\ pc = "backoff" => failures = attempt + 1
  /\ OutageIsReal

RefreshInv ==
  TypeOK /\ SwapInv /\ ReadInv /\ LoadInv /\ UseInv /\ CountInv
----------------------------------------------------------------------------
\* The bounds are natural numbers.
LEMMA ConstantTypes ==
  /\ Backoffs \in Nat /\ ChangesPerTx \in Nat /\ ChangesPerTx >= 1
  /\ MaxLSN \in Nat /\ MaxGen \in Nat /\ MaxGen >= 1
BY RefreshAssumption

\* Everything that neither reads a transaction, filters a change nor swaps a
\* map: it moves the loop, the backend, the client or the reason.
ControlStep ==
  \/ BackendTurns \/ ClientLeaves \/ OtherDrop \/ Quit \/ Tick \/ CallCancelled
  \/ CallGranted \/ CallDenied \/ CallUnavailable \/ Retry

\* A control step disturbs nothing but the count of failures.
LEMMA ControlStepKeeps ==
  ASSUME RefreshInv, ControlStep
  PROVE  RefreshInv'
<1>0. UNCHANGED <<lsn, inbox, cur, chg, loaded, used, authMap, prev, refreshAt,
                  points, readUnder, copied>>
  BY DEF ControlStep, BackendTurns, ClientLeaves, OtherDrop, Quit, Tick,
     CallCancelled, CallGranted, CallDenied, CallUnavailable, Retry, Drop,
     routerVars, mapVars, loopVars, readVars
<1>1. TypeOK'
  <2>1. CASE BackendTurns
    BY <1>0, <2>1, ConstantTypes DEF RefreshInv, TypeOK, CountInv, BackendTurns, routerVars, mapVars, loopVars, readVars
  <2>2. CASE ClientLeaves
    BY <1>0, <2>2, ConstantTypes DEF RefreshInv, TypeOK, CountInv, ClientLeaves, routerVars, mapVars, loopVars, readVars
  <2>3. CASE OtherDrop
    BY <1>0, <2>3, ConstantTypes DEF RefreshInv, TypeOK, CountInv, OtherDrop, Drop, routerVars, mapVars, loopVars, readVars
  <2>4. CASE Quit
    BY <1>0, <2>4, ConstantTypes DEF RefreshInv, TypeOK, CountInv, Quit, routerVars, mapVars, readVars
  <2>5. CASE Tick
    BY <1>0, <2>5, ConstantTypes DEF RefreshInv, TypeOK, CountInv, Tick, routerVars, mapVars, readVars
  <2>6. CASE CallCancelled
    BY <1>0, <2>6, ConstantTypes DEF RefreshInv, TypeOK, CountInv, CallCancelled, routerVars, mapVars, readVars
  <2>7. CASE CallGranted
    BY <1>0, <2>7, ConstantTypes DEF RefreshInv, TypeOK, CountInv, CallGranted, routerVars, mapVars, readVars
  <2>8. CASE CallDenied
    BY <1>0, <2>8, ConstantTypes DEF RefreshInv, TypeOK, CountInv, CallDenied, Drop, routerVars, mapVars, readVars
  <2>9. CASE CallUnavailable
    BY <1>0, <2>9, ConstantTypes DEF RefreshInv, TypeOK, CountInv, CallUnavailable, Drop, routerVars, mapVars, readVars
  <2>10. CASE Retry
    BY <1>0, <2>10, ConstantTypes DEF RefreshInv, TypeOK, CountInv, Retry, routerVars, mapVars, readVars
  <2>11. QED BY <2>1, <2>2, <2>3, <2>4, <2>5, <2>6, <2>7, <2>8, <2>9, <2>10 DEF ControlStep
<1>2. SwapInv'
  <2>1. /\ pc' \in {"prev", "map"} <=> pc \in {"prev", "map"}
        /\ pc' = "map" <=> pc = "map"
        /\ pc' = "lsn" => pc = "lsn" \/ Len(refreshAt) < MaxGen
    BY DEF ControlStep, BackendTurns, ClientLeaves, OtherDrop, Quit, Tick,
     CallCancelled, CallGranted, CallDenied, CallUnavailable, Retry, Drop,
     routerVars, mapVars, loopVars, readVars
  <2>2. QED BY <1>0, <2>1 DEF RefreshInv, SwapInv
<1>3. ReadInv'
  BY <1>0 DEF RefreshInv, ReadInv, AtStampedPoint
<1>4. LoadInv'
  BY <1>0 DEF RefreshInv, LoadInv
<1>5. UseInv'
  BY <1>0 DEF RefreshInv, UseInv, FreshGrantApplies, SkewNeedsSecondSwap, AtStampedPoint
<1>6. CountInv'
  <2>1. CASE BackendTurns
    BY <2>1, ConstantTypes DEF RefreshInv, TypeOK, CountInv, OutageIsReal, BackendTurns, routerVars, mapVars, loopVars, readVars
  <2>2. CASE ClientLeaves
    BY <2>2, ConstantTypes DEF RefreshInv, TypeOK, CountInv, OutageIsReal, ClientLeaves, routerVars, mapVars, loopVars, readVars
  <2>3. CASE OtherDrop
    BY <2>3, ConstantTypes DEF RefreshInv, TypeOK, CountInv, OutageIsReal, OtherDrop, Drop, routerVars, mapVars, loopVars, readVars
  <2>4. CASE Quit
    BY <2>4, ConstantTypes DEF RefreshInv, TypeOK, CountInv, OutageIsReal, Quit, routerVars, mapVars, readVars
  <2>5. CASE Tick
    BY <2>5, ConstantTypes DEF RefreshInv, TypeOK, CountInv, OutageIsReal, Tick, routerVars, mapVars, readVars
  <2>6. CASE CallCancelled
    BY <2>6, ConstantTypes DEF RefreshInv, TypeOK, CountInv, OutageIsReal, CallCancelled, routerVars, mapVars, readVars
  <2>7. CASE CallGranted
    BY <2>7, ConstantTypes DEF RefreshInv, TypeOK, CountInv, OutageIsReal, CallGranted, routerVars, mapVars, readVars
  <2>8. CASE CallDenied
    BY <2>8, ConstantTypes DEF RefreshInv, TypeOK, CountInv, OutageIsReal, CallDenied, Drop, routerVars, mapVars, readVars
  <2>9. CASE CallUnavailable
    BY <2>9, ConstantTypes DEF RefreshInv, TypeOK, CountInv, OutageIsReal, CallUnavailable, Drop, routerVars, mapVars, readVars
  <2>10. CASE Retry
    BY <2>10, ConstantTypes DEF RefreshInv, TypeOK, CountInv, OutageIsReal, Retry, routerVars, mapVars, readVars
  <2>11. QED BY <2>1, <2>2, <2>3, <2>4, <2>5, <2>6, <2>7, <2>8, <2>9, <2>10 DEF ControlStep
<1>7. QED BY <1>1, <1>2, <1>3, <1>4, <1>5, <1>6 DEF RefreshInv

\* A new slot moves the position up, beyond every refresh and transaction.
LEMMA BootstrapSlotKeeps ==
  ASSUME RefreshInv, bootstrapSlot
  PROVE  RefreshInv'
<1>0. UNCHANGED <<inbox, cur, chg, loaded, used, authMap, prev, refreshAt, pc,
                  attempt, failures, backend, ctxDone, reason, readUnder, copied>>
  BY DEF bootstrapSlot, routerVars, mapVars, loopVars
<1>p. PICK p \in LSNs : p > lsn /\ lsn' = p /\ points' = points \cup {p}
  BY DEF bootstrapSlot
<1>q. lsn \in Nat /\ p \in Nat /\ p \in 0 .. MaxLSN
  BY <1>p, ConstantTypes DEF RefreshInv, TypeOK, LSNs
<1>1. TypeOK'
  <2>1. cur' \in 0 .. lsn' /\ lsn' \in 0 .. MaxLSN /\ points' \subseteq LSNs
    BY <1>0, <1>p, <1>q DEF RefreshInv, TypeOK
  <2> QED BY <1>0, <2>1 DEF RefreshInv, TypeOK
<1>2. SwapInv'
  <2>1. \A g \in 1 .. Len(refreshAt) : refreshAt[g] \in Nat /\ refreshAt[g] <= lsn
    BY ConstantTypes DEF RefreshInv, TypeOK, SwapInv
  <2>2. \A g \in 1 .. Len(refreshAt) : refreshAt[g] <= p
    BY <1>p, <1>q, <2>1
  <2> QED BY <1>0, <1>p, <2>2 DEF RefreshInv, SwapInv
<1>3. ReadInv'
  <2>1. \A i \in 1 .. Len(inbox) : inbox[i] <= p /\ readUnder[inbox[i]] # 0
    <3>0. inbox \in Seq(LSNs)
      BY DEF RefreshInv, TypeOK
    <3>1. \A i \in 1 .. Len(inbox) : inbox[i] \in Nat
      BY <3>0, ConstantTypes DEF LSNs
    <3> QED BY <3>1, <1>p, <1>q DEF RefreshInv, ReadInv
  <2>2. \A t \in LSNs : readUnder[t] # 0 => t <= p
    BY <1>p, <1>q, ConstantTypes DEF RefreshInv, ReadInv, LSNs
  <2>3. \A t \in LSNs : AtStampedPoint(t) => AtStampedPoint(t)'
    BY <1>0, <1>p DEF AtStampedPoint
  <2> QED BY <1>0, <1>p, <2>1, <2>2, <2>3 DEF RefreshInv, ReadInv
<1>4. LoadInv'
  BY <1>0 DEF RefreshInv, LoadInv
<1>5. UseInv'
  BY <1>0, <1>p DEF RefreshInv, UseInv, FreshGrantApplies, SkewNeedsSecondSwap,
     AtStampedPoint
<1>6. CountInv'
  BY <1>0 DEF RefreshInv, CountInv, OutageIsReal
<1> QED BY <1>1, <1>2, <1>3, <1>4, <1>5, <1>6 DEF RefreshInv

\* The reader moves on: its new transaction is newer than every refresh, or at
\* the consistent point that the newest ones are stamped with.
LEMMA ReadTxKeeps ==
  ASSUME RefreshInv, ReadTx
  PROVE  RefreshInv'
<1>0. UNCHANGED <<points, cur, chg, loaded, used, authMap, prev, refreshAt, pc,
                  attempt, failures, backend, ctxDone, reason>>
  BY DEF ReadTx, routerVars, mapVars, loopVars
<1>t. PICK n \in LSNs :
        /\ n = lsn + 1 \/ (n = lsn /\ n \in points /\ readUnder[n] = 0)
        /\ lsn' = n
        /\ inbox' = Append(inbox, n)
        /\ readUnder' = [readUnder EXCEPT ![n] = authMap]
        /\ copied' = [copied EXCEPT ![n] = Len(refreshAt)]
  BY DEF ReadTx
<1>q. /\ lsn \in Nat /\ n \in Nat /\ n \in 0 .. MaxLSN /\ lsn <= n
      /\ authMap \in 1 .. Len(refreshAt) /\ Len(refreshAt) \in 1 .. MaxGen
  BY <1>t, ConstantTypes DEF RefreshInv, TypeOK, LSNs, Gens
<1>u. readUnder[n] = 0
  BY <1>t, <1>q DEF RefreshInv, ReadInv
<1>r. /\ \A t \in LSNs : t # n => readUnder'[t] = readUnder[t] /\ copied'[t] = copied[t]
      /\ readUnder'[n] = authMap /\ copied'[n] = Len(refreshAt)
  BY <1>t DEF RefreshInv, TypeOK
<1>s. \A g \in 1 .. Len(refreshAt) : refreshAt[g] \in Nat /\ refreshAt[g] <= lsn
  BY ConstantTypes DEF RefreshInv, TypeOK, SwapInv
<1>1. TypeOK'
  <2>1. readUnder' \in [LSNs -> 0 .. MaxGen] /\ copied' \in [LSNs -> 0 .. MaxGen]
    <3>1. authMap \in 0 .. MaxGen /\ Len(refreshAt) \in 0 .. MaxGen
      BY <1>q, ConstantTypes
    <3> QED BY <1>t, <3>1 DEF RefreshInv, TypeOK
  <2>2. inbox' \in Seq(LSNs)
    BY <1>t DEF RefreshInv, TypeOK
  <2>3. cur' \in 0 .. lsn' /\ lsn' \in 0 .. MaxLSN
    BY <1>0, <1>t, <1>q DEF RefreshInv, TypeOK
  <2> QED BY <1>0, <2>1, <2>2, <2>3 DEF RefreshInv, TypeOK
<1>2. SwapInv'
  <2>1. \A g \in 1 .. Len(refreshAt) : refreshAt[g] <= n
    BY <1>q, <1>s
  <2> QED BY <1>0, <1>t, <2>1 DEF RefreshInv, SwapInv
<1>3. ReadInv'
  <2>1. \A i \in 1 .. Len(inbox') : inbox'[i] <= lsn' /\ readUnder'[inbox'[i]] # 0
    <3>1. /\ inbox \in Seq(LSNs) /\ Len(inbox) \in Nat
          /\ Len(inbox') = Len(inbox) + 1 /\ inbox'[Len(inbox) + 1] = n
          /\ \A i \in 1 .. Len(inbox) : inbox'[i] = inbox[i] /\ inbox[i] \in LSNs
      BY <1>t DEF RefreshInv, TypeOK
    <3>2. ASSUME NEW i \in 1 .. Len(inbox)
          PROVE  inbox'[i] <= n /\ readUnder'[inbox'[i]] # 0
      <4>1. inbox[i] \in LSNs /\ inbox[i] <= lsn /\ readUnder[inbox[i]] # 0
        BY <3>1, <3>2 DEF RefreshInv, ReadInv
      <4>2. inbox[i] # n /\ inbox[i] <= n
        BY <4>1, <1>u, <1>q, ConstantTypes DEF LSNs
      <4> QED BY <3>1, <4>1, <4>2, <1>r
    <3>3. n <= n /\ readUnder'[n] # 0
      BY <1>q, <1>r
    <3>4. \A i \in 1 .. Len(inbox') : i \in 1 .. Len(inbox) \/ i = Len(inbox) + 1
      BY <3>1
    <3> QED BY <1>t, <3>1, <3>2, <3>3, <3>4
  <2>2. cur' # 0 => readUnder'[cur'] # 0
    <3>1. cur # 0 => cur \in LSNs /\ readUnder[cur] # 0
      BY ConstantTypes DEF RefreshInv, TypeOK, ReadInv, LSNs
    <3> QED BY <1>0, <1>r, <1>u, <3>1
  <2>3. ASSUME NEW t \in LSNs, readUnder'[t] # 0
        PROVE  /\ t <= lsn' /\ readUnder'[t] \in 1 .. authMap'
               /\ t > refreshAt'[readUnder'[t]] \/ AtStampedPoint(t)'
               /\ \A g \in 1 .. Len(refreshAt') : t > refreshAt'[g] => g <= copied'[t]
    <3>1. CASE t = n
      <4>1. t <= lsn' /\ readUnder'[t] \in 1 .. authMap'
        BY <1>0, <1>t, <1>q, <1>r, <3>1
      <4>2. t > refreshAt[authMap] \/ (t \in points /\ t = refreshAt[authMap])
        BY <1>t, <1>q, <1>s, <3>1
      <4>3. \A g \in 1 .. Len(refreshAt') : t > refreshAt'[g] => g <= copied'[t]
        BY <1>0, <1>q, <1>r, <3>1
      <4> QED BY <4>1, <4>2, <4>3, <1>0, <1>r, <3>1 DEF AtStampedPoint
    <3>2. CASE t # n
      <4>1. readUnder'[t] = readUnder[t] /\ copied'[t] = copied[t]
        BY <1>r, <3>2
      <4>2. t <= n
        BY <2>3, <4>1, <1>q, ConstantTypes DEF RefreshInv, ReadInv, LSNs
      <4> QED BY <2>3, <4>1, <4>2, <1>0, <1>t DEF RefreshInv, ReadInv, AtStampedPoint
    <3> QED BY <3>1, <3>2
  <2> QED BY <2>1, <2>2, <2>3 DEF ReadInv
<1>4. LoadInv'
  <2>1. \A t \in LSNs : used[t] # {} => readUnder'[t] # 0
    BY <1>q, <1>r DEF RefreshInv, LoadInv
  <2> QED BY <1>0, <2>1 DEF RefreshInv, LoadInv
<1>5. UseInv'
  <2>1. \A t \in LSNs : used[t] # {} =>
          readUnder'[t] = readUnder[t] /\ copied'[t] = copied[t]
    BY <1>u, <1>r DEF RefreshInv, LoadInv
  <2> QED BY <1>0, <2>1
      DEF RefreshInv, UseInv, FreshGrantApplies, SkewNeedsSecondSwap, AtStampedPoint
<1>6. CountInv'
  BY <1>0 DEF RefreshInv, CountInv, OutageIsReal
<1> QED BY <1>1, <1>2, <1>3, <1>4, <1>5, <1>6 DEF RefreshInv

\* The router takes up a transaction that has been read.
LEMMA StartTxKeeps ==
  ASSUME RefreshInv, StartTx
  PROVE  RefreshInv'
<1>0. /\ cur' = Head(inbox) /\ chg' = 1 /\ inbox' = Tail(inbox) /\ cur = 0
      /\ UNCHANGED <<lsn, points, loaded, used, authMap, prev, refreshAt, pc,
                     attempt, failures, backend, ctxDone, reason, readUnder, copied>>
  BY DEF StartTx, mapVars, loopVars, readVars
<1>a. /\ inbox \in Seq(LSNs) /\ Len(inbox) \in Nat /\ Len(inbox) >= 1
      /\ Head(inbox) = inbox[1] /\ inbox[1] \in LSNs
      /\ Tail(inbox) \in Seq(LSNs) /\ Len(Tail(inbox)) = Len(inbox) - 1
      /\ \A i \in 1 .. Len(inbox) - 1 : Tail(inbox)[i] = inbox[i + 1]
  BY DEF RefreshInv, TypeOK, StartTx
<1>b. inbox[1] <= lsn /\ readUnder[inbox[1]] # 0
  BY <1>a DEF RefreshInv, ReadInv
<1>1. TypeOK'
  <2>1. cur' \in 0 .. lsn' /\ chg' \in 0 .. ChangesPerTx
    BY <1>0, <1>a, <1>b, ConstantTypes DEF RefreshInv, TypeOK, LSNs
  <2> QED BY <1>0, <1>a, <2>1 DEF RefreshInv, TypeOK
<1>2. SwapInv'
  BY <1>0 DEF RefreshInv, SwapInv
<1>3. ReadInv'
  <2>1. \A i \in 1 .. Len(inbox') : inbox'[i] <= lsn' /\ readUnder'[inbox'[i]] # 0
    BY <1>0, <1>a DEF RefreshInv, ReadInv
  <2>2. cur' # 0 => readUnder'[cur'] # 0
    BY <1>0, <1>a, <1>b
  <2> QED BY <1>0, <2>1, <2>2 DEF RefreshInv, ReadInv, AtStampedPoint
<1>4. LoadInv'
  BY <1>0 DEF RefreshInv, LoadInv
<1>5. UseInv'
  BY <1>0 DEF RefreshInv, UseInv, FreshGrantApplies, SkewNeedsSecondSwap, AtStampedPoint
<1>6. CountInv'
  BY <1>0 DEF RefreshInv, CountInv, OutageIsReal
<1> QED BY <1>1, <1>2, <1>3, <1>4, <1>5, <1>6 DEF RefreshInv

\* What filtering one change does, for any grant at least as new as the one
\* the transaction was read under, up to the exception.
LEMMA FilteredKeeps ==
  ASSUME RefreshInv, cur # 0, NEW g \in 1 .. Len(refreshAt), Filtered(g),
         g >= readUnder[cur] \/ (g = readUnder[cur] - 1 /\ AtStampedPoint(cur)),
         g > copied[cur] => Len(refreshAt) > g,
         UNCHANGED <<lsn, inbox, mapVars, loopVars, backend, ctxDone, reason,
                     readVars>>
  PROVE  RefreshInv'
<1>0. /\ cur \in LSNs /\ loaded' = 0 /\ cur' \in {0, cur}
      /\ UNCHANGED <<lsn, inbox, authMap, prev, refreshAt, pc, attempt, failures,
                     backend, ctxDone, reason, points, readUnder, copied>>
  BY ConstantTypes DEF RefreshInv, TypeOK, Filtered, mapVars, loopVars, readVars, LSNs
<1>a. used' \in [LSNs -> SUBSET (0 .. MaxGen)]
  <2>1. g \in 0 .. MaxGen
    BY ConstantTypes DEF RefreshInv, TypeOK, Gens
  <2>2. QED BY <1>0, <2>1 DEF RefreshInv, TypeOK, Filtered
<1>b. \A t \in LSNs : used'[t] = IF t = cur THEN used[t] \cup {g} ELSE used[t]
  BY <1>0 DEF RefreshInv, TypeOK, Filtered
<1>c. readUnder[cur] # 0
  BY DEF RefreshInv, ReadInv
<1>1. TypeOK'
  <2>1. chg' \in 0 .. ChangesPerTx
    BY ConstantTypes DEF RefreshInv, TypeOK, Filtered
  <2>2. cur' \in 0 .. lsn' /\ loaded' \in 0 .. authMap'
    BY <1>0 DEF RefreshInv, TypeOK
  <2>3. QED BY <1>0, <1>a, <2>1, <2>2 DEF RefreshInv, TypeOK
<1>2. SwapInv'
  BY <1>0 DEF RefreshInv, SwapInv
<1>3. ReadInv'
  BY <1>0, <1>c DEF RefreshInv, ReadInv, AtStampedPoint
<1>4. LoadInv'
  <2>1. \A t \in LSNs : /\ used'[t] # {} => readUnder[t] # 0
                       /\ used'[t] \subseteq 1 .. Len(refreshAt)
    BY <1>b, <1>c DEF RefreshInv, LoadInv
  <2>3. QED BY <1>0, <2>1 DEF LoadInv
<1>5. UseInv'
  <2>1. \A t \in LSNs : AtStampedPoint(t)' <=> AtStampedPoint(t)
    BY <1>0 DEF AtStampedPoint
  <2>2. ASSUME NEW t \in LSNs, NEW h \in used'[t]
        PROVE  /\ h >= readUnder[t] \/ (h = readUnder[t] - 1 /\ AtStampedPoint(t))
               /\ h > copied[t] => Len(refreshAt) > h
    <3>1. h \in used[t] \/ (t = cur /\ h = g)
      BY <1>b, <2>2
    <3>2. CASE h \in used[t]
      BY <3>2 DEF RefreshInv, UseInv, FreshGrantApplies, SkewNeedsSecondSwap
    <3> QED BY <3>1, <3>2
  <2> QED BY <1>0, <2>1, <2>2 DEF UseInv, FreshGrantApplies, SkewNeedsSecondSwap
<1>6. CountInv'
  BY <1>0 DEF RefreshInv, CountInv, OutageIsReal
<1>7. QED BY <1>1, <1>2, <1>3, <1>4, <1>5, <1>6 DEF RefreshInv

\* AuthMap is at least as new as the map the transaction was read under.
LEMMA FilterWithLSNKeeps ==
  ASSUME RefreshInv, FilterWithLSN
  PROVE  RefreshInv'
<1>0. /\ cur \in LSNs /\ cur \in Nat /\ authMap \in 1 .. Len(refreshAt)
      /\ readUnder[cur] # 0 /\ refreshAt[authMap] \in Nat
  <2>1. /\ cur # 0 /\ cur \in 0 .. lsn /\ lsn \in 0 .. MaxLSN
        /\ refreshAt \in Seq(0 .. MaxLSN) /\ authMap \in 1 .. Len(refreshAt)
    BY DEF RefreshInv, TypeOK, FilterWithLSN
  <2>2. cur \in LSNs /\ cur \in Nat
    BY <2>1, ConstantTypes DEF LSNs
  <2>3. refreshAt[authMap] \in Nat
    <3>1. \A i \in 1 .. Len(refreshAt) : refreshAt[i] \in Nat
      BY ConstantTypes DEF RefreshInv, TypeOK
    <3> QED BY <2>1, <3>1
  <2>4. readUnder[cur] # 0
    BY <2>1 DEF RefreshInv, ReadInv
  <2> QED BY <2>1, <2>2, <2>3, <2>4
<1>1. CASE cur <= refreshAt[authMap]
  <2>0. /\ loaded' = authMap /\ cur # 0
        /\ UNCHANGED <<lsn, inbox, cur, chg, used, authMap, prev, refreshAt, pc,
                       attempt, failures, backend, ctxDone, reason, points,
                       readUnder, copied>>
    BY <1>1 DEF FilterWithLSN, mapVars, loopVars, readVars
  <2>1. TypeOK'
    <3>1. loaded' \in 0 .. authMap'
      BY <1>0, <2>0 DEF RefreshInv, TypeOK
    <3> QED BY <2>0, <3>1 DEF RefreshInv, TypeOK
  <2>2. SwapInv'
    BY <2>0 DEF RefreshInv, SwapInv
  <2>3. ReadInv'
    BY <2>0 DEF RefreshInv, ReadInv, AtStampedPoint
  <2>4. LoadInv'
    BY <1>1, <2>0 DEF RefreshInv, LoadInv
  <2>5. UseInv'
    BY <2>0 DEF RefreshInv, UseInv, FreshGrantApplies, SkewNeedsSecondSwap, AtStampedPoint
  <2>6. CountInv'
    BY <2>0 DEF RefreshInv, CountInv, OutageIsReal
  <2>7. QED BY <2>1, <2>2, <2>3, <2>4, <2>5, <2>6 DEF RefreshInv
<1>2. CASE ~(cur <= refreshAt[authMap])
  <2>1. authMap >= readUnder[cur]
    BY <1>0 DEF RefreshInv, ReadInv
  <2>2. cur # 0 /\ Filtered(authMap)
        /\ UNCHANGED <<lsn, inbox, mapVars, loopVars, backend, ctxDone, reason,
                       readVars>>
    BY <1>2 DEF FilterWithLSN
  <2>3. authMap <= copied[cur]
    BY <1>0, <1>2 DEF RefreshInv, ReadInv
  <2>4. ~(authMap > copied[cur])
    BY <1>0, <2>3 DEF RefreshInv, TypeOK
  <2>5. QED BY <1>0, <2>1, <2>2, <2>4, FilteredKeeps
<1>3. QED BY <1>1, <1>2

\* PrevWhitelist too: the transaction is not newer than the map that was
\* loaded, so it was read under an earlier one, or at the point where the map
\* it was read under is stamped; PrevWhitelist is one generation behind at most.
LEMMA FilterWithPrevKeeps ==
  ASSUME RefreshInv, FilterWithPrev
  PROVE  RefreshInv'
<1>0. /\ loaded \in 1 .. Len(refreshAt) /\ loaded <= authMap /\ authMap \in Nat
      /\ cur # 0 /\ cur \in LSNs /\ cur \in Nat /\ Len(refreshAt) \in Nat
  <2>1. /\ loaded # 0 /\ loaded \in 0 .. authMap /\ authMap \in 1 .. Len(refreshAt)
        /\ refreshAt \in Seq(0 .. MaxLSN) /\ cur # 0
    BY DEF RefreshInv, TypeOK, LoadInv, FilterWithPrev
  <2>2. Len(refreshAt) \in Nat
    BY <2>1
  <2>3. cur \in 0 .. lsn /\ lsn \in 0 .. MaxLSN
    BY DEF RefreshInv, TypeOK
  <2>4. cur \in LSNs /\ cur \in Nat
    BY <2>1, <2>3, ConstantTypes DEF LSNs
  <2> QED BY <2>1, <2>2, <2>4
<1>1. \A i \in 1 .. Len(refreshAt) : refreshAt[i] \in Nat
  BY ConstantTypes DEF RefreshInv, TypeOK
<1>2. cur <= refreshAt[loaded]
  BY <1>0 DEF RefreshInv, LoadInv
<1>3. readUnder[cur] # 0 /\ readUnder[cur] \in 1 .. authMap
  BY <1>0 DEF RefreshInv, ReadInv
<1>4. readUnder[cur] \in 1 .. Len(refreshAt)
  BY <1>0, <1>3 DEF RefreshInv, TypeOK
<1>5. loaded >= 2
  BY <1>0, <1>2 DEF RefreshInv, SwapInv
<1>6. prev >= authMap - 1 /\ prev < Len(refreshAt) /\ prev \in Int
  BY <1>0 DEF RefreshInv, TypeOK, SwapInv
<1>7. prev \in 1 .. Len(refreshAt)
  BY <1>0, <1>5, <1>6
<1>8. prev >= readUnder[cur] \/ (prev = readUnder[cur] - 1 /\ AtStampedPoint(cur))
  <2>1. CASE AtStampedPoint(cur)
    BY <1>0, <1>3, <1>6, <2>1
  <2>2. CASE cur > refreshAt[readUnder[cur]]
    <3>1. loaded <= readUnder[cur] => refreshAt[loaded] <= refreshAt[readUnder[cur]]
      BY <1>0, <1>4 DEF RefreshInv, SwapInv
    <3>2. refreshAt[loaded] \in Nat /\ refreshAt[readUnder[cur]] \in Nat
      BY <1>0, <1>1, <1>4
    <3>3. readUnder[cur] < loaded
      BY <1>0, <1>2, <1>3, <2>2, <3>1, <3>2
    <3> QED BY <1>0, <1>3, <1>6, <3>3
  <2> QED BY <1>0, <1>3, <2>1, <2>2 DEF RefreshInv, ReadInv
<1>9. Filtered(prev)
      /\ UNCHANGED <<lsn, inbox, mapVars, loopVars, backend, ctxDone, reason,
                     readVars>>
  BY DEF FilterWithPrev
<1>10. Len(refreshAt) > prev
  BY <1>0, <1>6
<1> QED BY <1>0, <1>7, <1>8, <1>9, <1>10, FilteredKeeps

\* The new copy's RefreshLSN is the greatest so far.
LEMMA SwapReadLSNKeeps ==
  ASSUME RefreshInv, SwapReadLSN
  PROVE  RefreshInv'
<1>0. /\ refreshAt \in Seq(0 .. MaxLSN) /\ lsn \in 0 .. MaxLSN
      /\ refreshAt' = Append(refreshAt, lsn) /\ pc = "lsn" /\ pc' = "prev"
      /\ UNCHANGED <<lsn, points, inbox, cur, chg, loaded, used, authMap, prev,
                     attempt, failures, backend, ctxDone, reason, readUnder, copied>>
  BY DEF RefreshInv, TypeOK, SwapReadLSN, routerVars, readVars
<1>a. /\ Len(refreshAt) \in Nat /\ Len(refreshAt') = Len(refreshAt) + 1
      /\ refreshAt' \in Seq(0 .. MaxLSN)
      /\ \A g \in 1 .. Len(refreshAt) : refreshAt'[g] = refreshAt[g]
      /\ refreshAt'[Len(refreshAt) + 1] = lsn
  BY <1>0
<1>b. \A g \in 1 .. Len(refreshAt') :
        g \in 1 .. Len(refreshAt) \/ (g = Len(refreshAt) + 1 /\ refreshAt'[g] = lsn)
  BY <1>a
<1>1. TypeOK'
  <2>1. Len(refreshAt') \in Gens
    BY <1>0, <1>a, ConstantTypes DEF RefreshInv, SwapInv, Gens
  <2>2. authMap' \in 1 .. Len(refreshAt')
    BY <1>0, <1>a DEF RefreshInv, TypeOK
  <2> QED BY <1>0, <1>a, <2>1, <2>2 DEF RefreshInv, TypeOK
<1>2. SwapInv'
  BY <1>0, <1>a, ConstantTypes DEF RefreshInv, TypeOK, SwapInv
<1>3. ReadInv'
  <2>1. \A t \in LSNs : readUnder[t] # 0 =>
          /\ t <= lsn /\ readUnder[t] \in 1 .. authMap
          /\ refreshAt'[readUnder[t]] = refreshAt[readUnder[t]]
    BY <1>0, <1>a DEF RefreshInv, TypeOK, ReadInv
  <2>2. \A t \in LSNs : readUnder[t] # 0 =>
          \A g \in 1 .. Len(refreshAt') : t > refreshAt'[g] => g <= copied[t]
    <3> SUFFICES ASSUME NEW t \in LSNs, readUnder[t] # 0,
                        NEW g \in 1 .. Len(refreshAt'), t > refreshAt'[g]
                 PROVE  g <= copied[t]
      OBVIOUS
    <3>1. CASE g \in 1 .. Len(refreshAt)
      BY <1>a, <3>1 DEF RefreshInv, ReadInv
    <3>2. CASE refreshAt'[g] = lsn
      BY <1>0, <2>1, <3>2, ConstantTypes DEF LSNs
    <3> QED BY <1>b, <3>1, <3>2
  <2> QED BY <1>0, <2>1, <2>2 DEF RefreshInv, ReadInv, AtStampedPoint
<1>4. LoadInv'
  BY <1>0, <1>a DEF RefreshInv, TypeOK, LoadInv
<1>5. UseInv'
  <2>1. \A t \in LSNs : \A g \in used[t] :
          /\ g \in 1 .. Len(refreshAt) /\ readUnder[t] \in 1 .. Len(refreshAt)
    BY <1>a DEF RefreshInv, LoadInv, ReadInv, TypeOK
  <2>2. QED BY <1>0, <1>a, <2>1
        DEF RefreshInv, UseInv, FreshGrantApplies, SkewNeedsSecondSwap, AtStampedPoint
<1>6. CountInv'
  BY <1>0 DEF RefreshInv, CountInv, OutageIsReal
<1>7. QED BY <1>1, <1>2, <1>3, <1>4, <1>5, <1>6 DEF RefreshInv

\* Between the two stores the previous map is the current one.
LEMMA SwapStorePrevKeeps ==
  ASSUME RefreshInv, SwapStorePrev
  PROVE  RefreshInv'
<1>0. /\ pc = "prev" /\ pc' = "map" /\ prev' = authMap
      /\ UNCHANGED <<lsn, points, inbox, cur, chg, loaded, used, authMap, refreshAt,
                     attempt, failures, backend, ctxDone, reason, readUnder, copied>>
  BY DEF SwapStorePrev, routerVars, readVars
<1>1. TypeOK'
  <2>1. prev' \in 0 .. authMap'
    BY <1>0 DEF RefreshInv, TypeOK
  <2> QED BY <1>0, <2>1 DEF RefreshInv, TypeOK
<1>2. SwapInv'
  BY <1>0 DEF RefreshInv, SwapInv
<1>3. ReadInv'
  BY <1>0 DEF RefreshInv, ReadInv, AtStampedPoint
<1>4. LoadInv'
  BY <1>0 DEF RefreshInv, LoadInv
<1>5. UseInv'
  BY <1>0 DEF RefreshInv, UseInv, FreshGrantApplies, SkewNeedsSecondSwap, AtStampedPoint
<1>6. CountInv'
  BY <1>0 DEF RefreshInv, CountInv, OutageIsReal
<1>7. QED BY <1>1, <1>2, <1>3, <1>4, <1>5, <1>6 DEF RefreshInv

\* The second store puts the previous map one generation behind again.
LEMMA SwapStoreMapKeeps ==
  ASSUME RefreshInv, SwapStoreMap
  PROVE  RefreshInv'
<1>0. /\ pc = "map" /\ pc' = "sleep" /\ authMap' = Len(refreshAt)
      /\ UNCHANGED <<lsn, points, inbox, cur, chg, loaded, used, prev, refreshAt,
                     attempt, failures, backend, ctxDone, reason, readUnder, copied>>
  BY DEF SwapStoreMap, routerVars, readVars
<1>a. authMap \in Nat /\ authMap' = authMap + 1 /\ prev = authMap
  BY <1>0 DEF RefreshInv, TypeOK, SwapInv
<1>1. TypeOK'
  <2>1. /\ authMap' \in 1 .. Len(refreshAt') /\ prev' \in 0 .. authMap'
        /\ loaded' \in 0 .. authMap'
    BY <1>0, <1>a DEF RefreshInv, TypeOK
  <2> QED BY <1>0, <2>1 DEF RefreshInv, TypeOK
<1>2. SwapInv'
  BY <1>0, <1>a DEF RefreshInv, SwapInv
<1>3. ReadInv'
  <2>1. \A t \in LSNs : readUnder[t] # 0 => readUnder[t] \in 1 .. authMap'
    BY <1>0, <1>a DEF RefreshInv, ReadInv
  <2> QED BY <1>0, <2>1 DEF RefreshInv, ReadInv, AtStampedPoint
<1>4. LoadInv'
  BY <1>0 DEF RefreshInv, LoadInv
<1>5. UseInv'
  BY <1>0 DEF RefreshInv, UseInv, FreshGrantApplies, SkewNeedsSecondSwap, AtStampedPoint
<1>6. CountInv'
  BY <1>0 DEF RefreshInv, CountInv, OutageIsReal
<1>7. QED BY <1>1, <1>2, <1>3, <1>4, <1>5, <1>6 DEF RefreshInv


----------------------------------------------------------------------------
\* RefreshInv is an invariant.
LEMMA RefreshInvariant == Spec => []RefreshInv
<1>1. Init => RefreshInv
  <2>1. ASSUME Init PROVE TypeOK
    <3>1. /\ inbox \in Seq(LSNs)
          /\ refreshAt \in Seq(0 .. MaxLSN) /\ Len(refreshAt) \in Gens
      BY <2>1, ConstantTypes DEF Init, Gens
    <3>2. /\ used \in [LSNs -> SUBSET (0 .. MaxGen)]
          /\ readUnder \in [LSNs -> 0 .. MaxGen]
      BY <2>1, ConstantTypes DEF Init
    <3>3. Len(refreshAt) = 1
      BY <2>1 DEF Init
    <3>4. /\ authMap \in 1 .. Len(refreshAt) /\ prev \in 0 .. authMap
          /\ loaded \in 0 .. authMap
      BY <2>1, <3>3 DEF Init
    <3>5. /\ lsn \in 0 .. MaxLSN /\ cur \in 0 .. lsn /\ chg \in 0 .. ChangesPerTx
          /\ attempt \in 0 .. Backoffs /\ failures \in 0 .. Backoffs + 1
      BY <2>1, ConstantTypes DEF Init
    <3>6. QED BY <2>1, <3>1, <3>2, <3>4, <3>5 DEF Init, TypeOK
  <2>2. ASSUME Init PROVE SwapInv /\ ReadInv /\ LoadInv /\ UseInv /\ CountInv
    BY <2>2, ConstantTypes DEF Init, SwapInv, ReadInv, LoadInv, UseInv, CountInv,
       FreshGrantApplies, SkewNeedsSecondSwap, AtStampedPoint, OutageIsReal, LSNs
  <2>3. QED BY <2>1, <2>2 DEF RefreshInv
<1>2. RefreshInv /\ [Next]_vars => RefreshInv'
  <2>1. ASSUME RefreshInv, UNCHANGED vars PROVE RefreshInv'
    <3>0. UNCHANGED <<lsn, inbox, cur, chg, loaded, used, authMap, prev,
                      refreshAt, pc, attempt, failures, backend, ctxDone,
                      reason, points, readUnder, copied>>
      BY <2>1 DEF vars, routerVars, mapVars, loopVars, readVars
    <3>1. TypeOK'
      BY <2>1, <3>0 DEF RefreshInv, TypeOK
    <3>2. SwapInv'
      BY <2>1, <3>0 DEF RefreshInv, SwapInv
    <3>3. ReadInv'
      BY <2>1, <3>0 DEF RefreshInv, ReadInv, AtStampedPoint
    <3>4. LoadInv'
      BY <2>1, <3>0 DEF RefreshInv, LoadInv
    <3>5. UseInv'
      BY <2>1, <3>0 DEF RefreshInv, UseInv, FreshGrantApplies,
         SkewNeedsSecondSwap, AtStampedPoint
    <3>6. CountInv'
      BY <2>1, <3>0 DEF RefreshInv, CountInv, OutageIsReal
    <3>7. QED BY <3>1, <3>2, <3>3, <3>4, <3>5, <3>6 DEF RefreshInv
  <2>2. QED
    BY <2>1, ControlStepKeeps, BootstrapSlotKeeps, ReadTxKeeps, StartTxKeeps, FilterWithLSNKeeps,
       FilterWithPrevKeeps, SwapReadLSNKeeps, SwapStorePrevKeeps,
       SwapStoreMapKeeps
    DEF Next, RefreshLoop, tryRefresh, ControlStep
<1>3. QED BY <1>1, <1>2, PTL DEF Spec

\* The previous grant is never ahead of the current one, nor that of the copies
\* swapMap made; attempts and failures keep within the backoffs.
THEOREM TypeCorrect == Spec => []TypeOK
<1>1. RefreshInv => TypeOK
  BY DEF RefreshInv
<1>2. QED BY <1>1, RefreshInvariant, PTL

\* No change is ever filtered with a grant older than the one in force when
\* its transaction was read, nor lost for want of a previous one.
THEOREM FreshGrantAlwaysApplies == Spec => []FreshGrantApplies
<1>1. RefreshInv => FreshGrantApplies
  BY DEF RefreshInv, UseInv
<1>2. QED BY <1>1, RefreshInvariant, PTL

\* A grant reaches back to a transaction read before its refresh only when a
\* second refresh overtakes the router.
THEOREM SkewIsOneSwap == Spec => []SkewNeedsSecondSwap
<1>1. RefreshInv => SkewNeedsSecondSwap
  BY DEF RefreshInv, UseInv
<1>2. QED BY <1>1, RefreshInvariant, PTL

\* auth_unavailable means that every attempt of one refresh was answered by a
\* failing backend.
THEOREM OutagesAreReal == Spec => []OutageIsReal
<1>1. RefreshInv => OutageIsReal
  BY DEF RefreshInv, CountInv
<1>2. QED BY <1>1, RefreshInvariant, PTL
=============================================================================
