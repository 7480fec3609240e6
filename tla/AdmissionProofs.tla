-------------------------- MODULE AdmissionProofs --------------------------
(***************************************************************************)
(* The limits bind and nothing leaks, for any number of handlers, users    *)
(* and any limits.                                                         *)
(***************************************************************************)
EXTENDS Admission, FiniteSetTheorems, TLAPS

\* What a handler holds, by its location.
ControlInv ==
  \A r \in Requests :
    /\ pc[r] \in {"auth", "user", "undo", "table", "stream"} => globalAcquired[r]
    /\ pc[r] \in {"new", "global", "releaseUser", "done"} => ~globalAcquired[r]
    /\ pc[r] \in {"table", "stream"} => perUserAcquired[r]
    /\ pc[r] \in {"new", "global", "auth", "user", "undo", "done"} =>
         ~perUserAcquired[r]
    /\ pc[r] \in {"user", "undo"} \/ perUserAcquired[r] => userID[r] \in Users

GlobalInv == globalSem = Cardinality(Holders)
CountInv == \A u \in Users : perUserConcurrent[u] = Cardinality(Counted(u))

\* Admitted requests of a user never exceed the maximum: when one is admitted,
\* the counter it compares counts at least all of them.
CapInv == \A u \in Users : Cardinality(Admitted(u)) <= PerUserConcurrentMax

AdmissionInv == TypeOK /\ ControlInv /\ GlobalInv /\ CountInv /\ CapInv

LEMMA SubsetsFinite ==
  /\ IsFiniteSet(Holders) /\ Cardinality(Holders) \in Nat
  /\ \A u : /\ IsFiniteSet(Counted(u)) /\ Cardinality(Counted(u)) \in Nat
            /\ IsFiniteSet(Admitted(u)) /\ Cardinality(Admitted(u)) \in Nat
            /\ Cardinality(Admitted(u)) <= Cardinality(Counted(u))
<1>1. \A S : S \subseteq Requests => IsFiniteSet(S) /\ Cardinality(S) \in Nat
  BY RequestsFinite, FS_Subset, FS_CardinalityType
<1>2. Holders \subseteq Requests
  BY DEF Holders
<1>3. ASSUME NEW u
      PROVE  Counted(u) \subseteq Requests /\ Admitted(u) \subseteq Counted(u)
  BY DEF Counted, Admitted, Refused
<1>4. ASSUME NEW u
      PROVE  Cardinality(Admitted(u)) <= Cardinality(Counted(u))
  BY <1>1, <1>3, FS_Subset
<1> QED BY <1>1, <1>2, <1>3, <1>4

LEMMA SetFlag ==
  ASSUME NEW f \in [Requests -> BOOLEAN], NEW r \in Requests, NEW b \in BOOLEAN
  PROVE  [f EXCEPT ![r] = b] \in [Requests -> BOOLEAN]
OBVIOUS

LEMMA InitAdmission == Init => AdmissionInv
<1> SUFFICES ASSUME Init PROVE AdmissionInv
  OBVIOUS
<1>1. TypeOK
  BY LimitsAssumption DEF Init, TypeOK, Locations, AuthFailures
<1>2. ControlInv
  BY DEF Init, ControlInv
<1>3. Holders = {} /\ \A u : Counted(u) = {} /\ Admitted(u) = {}
  BY DEF Init, Holders, Counted, Admitted, Refused
<1>4. GlobalInv /\ CountInv /\ CapInv
  BY <1>3, FS_EmptySet, LimitsAssumption
     DEF Init, GlobalInv, CountInv, CapInv
<1> QED BY <1>1, <1>2, <1>4 DEF AdmissionInv

LEMMA NextTypes ==
  ASSUME AdmissionInv, NEW r \in Requests,
         Serve(r) \/ Handle(r) \/ StreamEnds(r) \/ Again(r)
  PROVE  TypeOK' /\ ControlInv'
<1> USE DEF AdmissionInv, TypeOK, ControlInv, Goto, Answer, Locations,
        AuthFailures
<1>1. CASE Serve(r)
  BY <1>1 DEF Serve
<1>2. CASE AcquireGlobal(r)
  <2>1. CASE globalSem < GlobalConcurrent
    <3>1. globalSem' \in 0 .. GlobalConcurrent
      BY <1>2, <2>1, LimitsAssumption DEF AcquireGlobal
    <3>2. globalAcquired' \in [Requests -> BOOLEAN]
      <4>1. [globalAcquired EXCEPT ![r] = TRUE] \in [Requests -> BOOLEAN]
        BY SetFlag
      <4> QED BY <1>2, <2>1, <4>1 DEF AcquireGlobal
    <3>3. TypeOK'
      BY <1>2, <2>1, <3>1, <3>2 DEF AcquireGlobal
    <3>4. ControlInv'
      BY <1>2, <2>1 DEF AcquireGlobal
    <3> QED BY <3>3, <3>4
  <2>2. CASE ~(globalSem < GlobalConcurrent)
    BY <1>2, <2>2 DEF AcquireGlobal
  <2> QED BY <2>1, <2>2
<1>3. CASE authenticate(r)
  BY <1>3 DEF authenticate
<1>4. CASE AcquirePerUser(r)
  <2>1. userID[r] \in Users
        /\ perUserConcurrent' = [perUserConcurrent EXCEPT ![userID[r]] = @ + 1]
    BY <1>4 DEF AcquirePerUser
  <2>2. perUserConcurrent' \in [Users -> Int]
    BY <2>1
  <2>3. perUserAcquired' \in [Requests -> BOOLEAN]
    <3>1. perUserAcquired \in [Requests -> BOOLEAN]
      OBVIOUS
    <3>2. [perUserAcquired EXCEPT ![r] = TRUE] \in [Requests -> BOOLEAN]
      BY <3>1, SetFlag
    <3> QED BY <1>4, <3>1, <3>2 DEF AcquirePerUser
  <2>4. TypeOK'
    BY <1>4, <2>2, <2>3 DEF AcquirePerUser
  <2>5. ControlInv'
    BY <1>4, <2>1 DEF AcquirePerUser
  <2> QED BY <2>4, <2>5
<1>5. CASE Refuse(r)
  BY <1>5 DEF Refuse
<1>6. CASE CheckTable(r)
  BY <1>6 DEF CheckTable
<1>7. CASE StreamEnds(r)
  BY <1>7 DEF StreamEnds
<1>8. CASE ReleaseGlobal(r)
  BY <1>8, LimitsAssumption DEF ReleaseGlobal
<1>9. CASE ReleasePerUser(r)
  BY <1>9 DEF ReleasePerUser
<1>10. CASE Again(r)
  BY <1>10 DEF Again
<1> QED BY <1>1, <1>2, <1>3, <1>4, <1>5, <1>6, <1>7, <1>8, <1>9, <1>10
        DEF Handle

LEMMA NextGlobal ==
  ASSUME AdmissionInv, NEW r \in Requests,
         Serve(r) \/ Handle(r) \/ StreamEnds(r) \/ Again(r)
  PROVE  GlobalInv'
<1> USE DEF AdmissionInv, TypeOK, GlobalInv
<1>1. CASE AcquireGlobal(r) /\ globalSem < GlobalConcurrent
  <2>1. r \notin Holders /\ Holders' = Holders \cup {r}
    BY <1>1 DEF AcquireGlobal, ControlInv, Holders
  <2>2. globalSem' = globalSem + 1
    BY <1>1 DEF AcquireGlobal
  <2> QED BY <2>1, <2>2, SubsetsFinite, FS_AddElement
<1>2. CASE ReleaseGlobal(r)
  <2>1. Holders' = Holders \ {r}
    BY <1>2 DEF ReleaseGlobal, Holders
  <2>2. Cardinality(Holders') =
          IF r \in Holders THEN Cardinality(Holders) - 1 ELSE Cardinality(Holders)
    BY <2>1, SubsetsFinite, FS_RemoveElement
  <2>3. r \in Holders <=> globalAcquired[r]
    BY DEF Holders
  <2>4. r \in Holders => Cardinality(Holders) > 0
    BY SubsetsFinite, FS_EmptySet
  <2> QED BY <1>2, <2>2, <2>3, <2>4, LimitsAssumption DEF ReleaseGlobal
<1>3. CASE UNCHANGED <<globalSem, globalAcquired>>
  BY <1>3 DEF Holders
<1> QED BY <1>1, <1>2, <1>3 DEF Serve, Handle, StreamEnds, Again, AcquireGlobal,
        authenticate, AcquirePerUser, Refuse, CheckTable, ReleasePerUser

\* The steps that change nobody's count.
LEMMA NextUncounted ==
  ASSUME AdmissionInv, NEW r \in Requests,
         Serve(r) \/ AcquireGlobal(r) \/ authenticate(r) \/ CheckTable(r)
         \/ StreamEnds(r) \/ ReleaseGlobal(r) \/ Again(r)
  PROVE  CountInv' /\ CapInv'
<1>1. UNCHANGED <<perUserConcurrent, perUserAcquired>>
  BY DEF Serve, AcquireGlobal, authenticate, CheckTable, StreamEnds,
     ReleaseGlobal, Again
<1>2. ASSUME NEW u \in Users
      PROVE  Admitted(u)' = Admitted(u) /\ Refused(u)' = Refused(u)
  <2>1. \A q \in Requests :
          (pc'[q] = "undo" <=> pc[q] = "undo")
          /\ (pc[q] = "undo" \/ perUserAcquired[q] => userID'[q] = userID[q])
    BY DEF AdmissionInv, TypeOK, ControlInv, Goto, Serve, AcquireGlobal,
       authenticate, CheckTable, StreamEnds, ReleaseGlobal, Again
  <2> QED BY <1>1, <2>1 DEF Admitted, Refused
<1>3. \A u \in Users : Counted(u)' = Counted(u)
  BY <1>2 DEF Counted
<1> QED BY <1>1, <1>2, <1>3 DEF AdmissionInv, CountInv, CapInv

LEMMA NextAcquire ==
  ASSUME AdmissionInv, NEW r \in Requests, AcquirePerUser(r)
  PROVE  CountInv' /\ CapInv'
<1> USE DEF AdmissionInv, TypeOK
<1>0. PICK v \in Users : v = userID[r]
  BY DEF ControlInv, AcquirePerUser
<1>1. v = userID[r] /\ pc[r] = "user" /\ ~perUserAcquired[r] /\ userID' = userID
  BY <1>0 DEF ControlInv, AcquirePerUser
<1>2. r \notin Counted(v) /\ Counted(v)' = Counted(v) \cup {r}
  BY <1>1 DEF Counted, Admitted, Refused, AcquirePerUser, Goto
<1>3. \A u \in Users : u # v =>
        Counted(u)' = Counted(u) /\ Admitted(u)' = Admitted(u)
  BY <1>1 DEF Counted, Admitted, Refused, AcquirePerUser, Goto
<1>4. Cardinality(Counted(v)') = Cardinality(Counted(v)) + 1
  <2>1. IsFiniteSet(Counted(v))
    BY SubsetsFinite
  <2>2. Cardinality(Counted(v) \cup {r}) = Cardinality(Counted(v)) + 1
    BY <1>2, <2>1, FS_AddElement
  <2> QED BY <1>2, <2>2
<1>5. perUserConcurrent' = [perUserConcurrent EXCEPT ![v] = @ + 1]
  BY <1>1 DEF AcquirePerUser
<1>6. CountInv'
  BY <1>1, <1>3, <1>4, <1>5 DEF CountInv
<1>7. Cardinality(Admitted(v)') <= PerUserConcurrentMax
  <2>1. CASE perUserConcurrent[v] + 1 > PerUserConcurrentMax
    <3>1. perUserAcquired' = perUserAcquired
      BY <1>1, <2>1 DEF AcquirePerUser
    <3>2. Admitted(v)' = Admitted(v)
      BY <1>1, <3>1 DEF Admitted
    <3> QED BY <1>1, <3>2 DEF CapInv
  <2>2. CASE ~(perUserConcurrent[v] + 1 > PerUserConcurrentMax)
    <3>1. Admitted(v)' \subseteq Counted(v)' /\ Counted(v)' \subseteq Requests
      BY DEF Admitted, Counted, Refused
    <3>2. Cardinality(Admitted(v)') <= Cardinality(Counted(v)')
          /\ Cardinality(Admitted(v)') \in Nat
      BY <3>1, RequestsFinite, FS_Subset, FS_CardinalityType
    <3>3. Cardinality(Counted(v)') <= PerUserConcurrentMax
      BY <1>1, <1>4, <2>2, SubsetsFinite, LimitsAssumption DEF CountInv
    <3>4. Cardinality(Counted(v)') \in Nat
      BY <1>4, SubsetsFinite
    <3> QED BY <3>2, <3>3, <3>4, LimitsAssumption
  <2> QED BY <2>1, <2>2
<1>8. CapInv'
  BY <1>3, <1>7 DEF CapInv
<1> QED BY <1>6, <1>8

LEMMA NextRelease ==
  ASSUME AdmissionInv, NEW r \in Requests, Refuse(r) \/ ReleasePerUser(r)
  PROVE  CountInv' /\ CapInv'
<1> USE DEF AdmissionInv, TypeOK
<1>0. userID' = userID
  BY DEF Refuse, ReleasePerUser
<1>1. CASE ReleasePerUser(r) /\ ~perUserAcquired[r]
  <2>1. UNCHANGED <<perUserConcurrent, perUserAcquired>>
    BY <1>1 DEF ReleasePerUser
  <2>2. \A q \in Requests : pc'[q] = "undo" <=> pc[q] = "undo"
    BY <1>1 DEF ReleasePerUser, Goto
  <2>3. \A u \in Users : Counted(u)' = Counted(u) /\ Admitted(u)' = Admitted(u)
    BY <1>0, <2>1, <2>2 DEF Counted, Admitted, Refused
  <2> QED BY <2>1, <2>3 DEF CountInv, CapInv
<1>2. CASE Refuse(r) \/ (ReleasePerUser(r) /\ perUserAcquired[r])
  <2>0. PICK v \in Users : v = userID[r]
    BY <1>2 DEF ControlInv, Refuse
  <2>1. r \in Counted(v)
    BY <1>2, <2>0 DEF ControlInv, Counted, Admitted, Refused, Refuse
  <2>2. Counted(v)' = Counted(v) \ {r}
    BY <1>0, <1>2, <2>0 DEF ControlInv, Counted, Admitted, Refused, Refuse,
       ReleasePerUser, Goto
  <2>3. \A u \in Users : u # v => Counted(u)' = Counted(u)
    BY <1>0, <1>2, <2>0 DEF Counted, Admitted, Refused, Refuse,
       ReleasePerUser, Goto
  <2>4. \A u \in Users : Admitted(u)' \subseteq Admitted(u)
    BY <1>0, <1>2 DEF Admitted, Refuse, ReleasePerUser
  <2>5. Cardinality(Counted(v)') = Cardinality(Counted(v)) - 1
    <3>1. IsFiniteSet(Counted(v))
      BY SubsetsFinite
    <3>2. Cardinality(Counted(v) \ {r}) = Cardinality(Counted(v)) - 1
      BY <2>1, <3>1, FS_RemoveElement
    <3> QED BY <2>2, <3>2
  <2>6. perUserConcurrent' = [perUserConcurrent EXCEPT ![v] = @ - 1]
    BY <1>2, <2>0 DEF Refuse, ReleasePerUser
  <2>7. CountInv'
    BY <2>1, <2>3, <2>5, <2>6 DEF CountInv
  <2>8. ASSUME NEW u \in Users
        PROVE  Cardinality(Admitted(u)') <= PerUserConcurrentMax
    <3>1. Cardinality(Admitted(u)') <= Cardinality(Admitted(u))
          /\ Cardinality(Admitted(u)') \in Nat
      BY <2>4, SubsetsFinite, FS_Subset, FS_CardinalityType
    <3> QED BY <3>1, SubsetsFinite, LimitsAssumption DEF CapInv
  <2> QED BY <2>7, <2>8 DEF CapInv
<1> QED BY <1>1, <1>2

LEMMA NextAdmission == AdmissionInv /\ [Next]_vars => AdmissionInv'
<1> SUFFICES ASSUME AdmissionInv, [Next]_vars PROVE AdmissionInv'
  OBVIOUS
<1>1. CASE UNCHANGED vars
  BY <1>1 DEF vars, AdmissionInv, TypeOK, ControlInv, GlobalInv, CountInv,
     CapInv, Holders, Counted, Admitted, Refused
<1>2. CASE Next
  <2>1. PICK r \in Requests : Serve(r) \/ Handle(r) \/ StreamEnds(r) \/ Again(r)
    BY <1>2 DEF Next
  <2>2. TypeOK' /\ ControlInv' /\ GlobalInv'
    BY <2>1, NextTypes, NextGlobal
  <2>3. CountInv' /\ CapInv'
    BY <2>1, NextUncounted, NextAcquire, NextRelease DEF Handle
  <2> QED BY <2>2, <2>3 DEF AdmissionInv
<1> QED BY <1>1, <1>2

LEMMA AdmissionInvariant == Spec => []AdmissionInv
BY InitAdmission, NextAdmission, PTL DEF Spec

\* The semaphore never holds more tokens than it has room for, and every
\* request is at a place of the handler, whatever the requests do together.
THEOREM TypeCorrect == Spec => []TypeOK
<1>1. AdmissionInv => TypeOK
  BY DEF AdmissionInv
<1> QED BY <1>1, AdmissionInvariant, PTL

\* The semaphore counts its holders, the counters count the admitted and the
\* about to be refused, and a finished request holds nothing.
THEOREM LimitsNeverLeak == Spec => []NothingLeaks
<1>1. AdmissionInv => NothingLeaks
  BY DEF AdmissionInv, ControlInv, GlobalInv, CountInv, NothingLeaks
<1> QED BY <1>1, AdmissionInvariant, PTL

\* Streams never exceed the global nor the per-user limit, although the
\* counter is incremented before it is compared.
THEOREM LimitsAlwaysBind == Spec => []LimitsBind
<1>1. ASSUME AdmissionInv PROVE LimitsBind
  <2> USE DEF AdmissionInv, TypeOK
  <2>1. Streams \subseteq Holders
    BY <1>1 DEF Streams, Holders, ControlInv
  <2>2. Cardinality(Streams) <= Cardinality(Holders) /\ Cardinality(Streams) \in Nat
    BY <2>1, SubsetsFinite, FS_Subset, FS_CardinalityType
  <2>3. Cardinality(Streams) <= GlobalConcurrent
    BY <1>1, <2>2, LimitsAssumption DEF GlobalInv
  <2>4. ASSUME NEW u \in Users
        PROVE  Cardinality({r \in Streams : userID[r] = u}) <= PerUserConcurrentMax
    <3> DEFINE S == {r \in Streams : userID[r] = u}
    <3>1. S \subseteq Admitted(u)
      BY <1>1 DEF Streams, Admitted, ControlInv
    <3>2. Cardinality(S) <= Cardinality(Admitted(u)) /\ Cardinality(S) \in Nat
      BY <3>1, SubsetsFinite, FS_Subset, FS_CardinalityType
    <3>3. Cardinality(Admitted(u)) <= PerUserConcurrentMax
          /\ Cardinality(Admitted(u)) \in Nat
      BY <1>1, SubsetsFinite DEF CapInv
    <3> QED BY <3>2, <3>3, LimitsAssumption
  <2> QED BY <2>3, <2>4 DEF LimitsBind
<1> QED BY <1>1, AdmissionInvariant, PTL
=============================================================================
