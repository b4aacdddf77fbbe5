-------------------------- MODULE RunServiceProofs --------------------------
(***************************************************************************)
(* Theorems about RunService for every value of its constants, and that it *)
(* implements RunLifecycle.                                                *)
(***************************************************************************)
EXTENDS RunServiceRefinement, FiniteSetTheorems, TLAPS

\* The results a task can end with.
FinalResults == {Completed} \cup {Failed(why) : why \in ErrorCodes}

\* The steps of a task, sorted by what they do to the store: all of its ways
\* to end are one, and so are its two moves that store nothing.  A run is
\* completed only once Metis has been asked.
Ends(r) ==
    /\ Live(r)
    /\ \E result \in FinalResults :
           /\ result = Completed => pc[r] \in {"metis", "emit"}
           /\ Finish(r, result)

Moves(r, from, to) ==
    /\ pc[r] = from
    /\ pc' = [pc EXCEPT ![r] = to]
    /\ UNCHANGED <<now, last, req, VISITS, RUNS, RUN_OWNERS, slots, rd>>

LEMMA TaskCases ==
    ASSUME NEW r \in Admitted, Task(r)
    PROVE  \/ Acquire(r)
           \/ Moves(r, "hub", "origin")
           \/ Moves(r, "metis", "emit")
           \/ OriginAnswers(r)
           \/ Ends(r)
<1> DEFINE Goal == \/ Acquire(r) \/ Moves(r, "hub", "origin")
                   \/ Moves(r, "metis", "emit") \/ OriginAnswers(r) \/ Ends(r)
<1>0. /\ Completed \in FinalResults
      /\ \A why \in ErrorCodes : Failed(why) \in FinalResults /\ Failed(why) # Completed
  BY DEF FinalResults, Completed, Failed
<1>1. CASE Acquire(r)
  BY <1>1
<1>2. CASE HubAnswers(r)
  BY <1>2 DEF HubAnswers, Moves
<1>3. CASE HubRefuses(r)
  BY <1>0, <1>3 DEF HubRefuses, Ends, Live, ErrorCodes
<1>4. CASE OriginAnswers(r)
  BY <1>4
<1>5. CASE MetisAnswers(r)
  <2>1. CASE EventUrl
    BY <1>5, <2>1 DEF MetisAnswers, Moves
  <2>2. CASE ~EventUrl
    BY <1>0, <1>5, <2>2 DEF MetisAnswers, Ends, Live
  <2> QED
    BY <2>1, <2>2
<1>6. CASE EmitReturns(r)
  BY <1>0, <1>6 DEF EmitReturns, Ends, Live
<1>7. CASE RunRaises(r)
  BY <1>0, <1>7 DEF RunRaises, Ends, Live, Holding, ErrorCodes
<1>8. CASE RunTimeout(r)
  BY <1>0, <1>8 DEF RunTimeout, Ends, ErrorCodes
<1> QED
  BY <1>1, <1>2, <1>3, <1>4, <1>5, <1>6, <1>7, <1>8 DEF Task

-----------------------------------------------------------------------------
(* Type correctness *)

\* Trimming keeps a store typed and loses runs only.
LEMMA TrimTypes ==
    ASSUME NEW D, NEW runs \in [D -> Results], NEW owners \in [D -> Visitors],
           StoreTrimmed(runs, owners)
    PROVE  /\ DOMAIN RUNS' \subseteq D
           /\ RUNS' \in [DOMAIN RUNS' -> Results]
           /\ RUN_OWNERS' \in [DOMAIN RUNS' -> Visitors]
<1>1. PICK kept \in SUBSET D :
          /\ RUNS' = [r \in kept |-> runs[r]]
          /\ RUN_OWNERS' = [r \in kept |-> owners[r]]
  BY DEF StoreTrimmed
<1> QED
  BY <1>1

\* store_result keeps the store typed, whether or not the run is known.
LEMMA StoreTypes ==
    ASSUME TypeOK, NEW r \in Admitted, NEW result \in Results,
           StoreResult(r, result)
    PROVE  /\ DOMAIN RUNS' \subseteq DOMAIN RUNS
           /\ RUNS' \in [DOMAIN RUNS' -> Results]
           /\ RUN_OWNERS' \in [DOMAIN RUNS' -> Visitors]
<1>1. CASE r \in DOMAIN RUN_OWNERS
  <2>1. [RUNS EXCEPT ![r] = result] \in [DOMAIN RUNS -> Results]
    BY DEF TypeOK
  <2>2. RUN_OWNERS \in [DOMAIN RUNS -> Visitors]
    BY DEF TypeOK
  <2> QED
    BY <1>1, <2>1, <2>2, TrimTypes DEF StoreResult
<1>2. CASE r \notin DOMAIN RUN_OWNERS
  BY <1>2 DEF StoreResult, TypeOK
<1> QED
  BY <1>1, <1>2

LEMMA ResultTypes ==
    /\ Running \in Results /\ Verifying \in Results
    /\ FinalResults \subseteq Results
<1> USE DEF Results, Pending, ErrorCodes
<1>1. Running \in Results /\ Verifying \in Results
  BY DEF Running, Verifying
<1>2. FinalResults \subseteq Results
  BY DEF FinalResults, Completed, Failed
<1> QED
  BY <1>1, <1>2

\* Init and every step respect the types.
LEMMA InitType == Init => TypeOK
  BY LimitsClamped, BoundsNat, ResultTypes DEF Init, TypeOK, Admitted, Idle

LEMMA CreateType ==
    ASSUME TypeOK, NEW v \in Visitors, NEW s \in Sources, CreateRun(v, s)
    PROVE  TypeOK'
<1> DEFINE r == last + 1
           D == DOMAIN RUNS \cup {r}
           runs == [q \in D |-> IF q = r THEN Running ELSE RUNS[q]]
           owners == [q \in D |-> IF q = r THEN v ELSE RUN_OWNERS[q]]
<1>1. /\ last' = r /\ r \in 1..RunBound /\ last \in Nat
      /\ now' = now /\ slots' = slots /\ rd' = rd /\ Admitted' = 1..r
      /\ Admitted \subseteq 1..r /\ 1..r = Admitted \cup {r}
  BY BoundsNat DEF CreateRun, TypeOK, Admitted
<1>2. /\ DOMAIN RUNS' \subseteq D
      /\ RUNS' \in [DOMAIN RUNS' -> Results]
      /\ RUN_OWNERS' \in [DOMAIN RUNS' -> Visitors]
  <2>1. runs \in [D -> Results]
    BY ResultTypes DEF TypeOK
  <2>2. owners \in [D -> Visitors]
    BY DEF TypeOK
  <2>3. StoreTrimmed(runs, owners)
    <3>1. DOMAIN RUN_OWNERS = DOMAIN RUNS
      BY DEF TypeOK
    <3> QED
      BY <3>1 DEF CreateRun
  <2> HIDE DEF runs, owners, D
  <2> QED
    BY <2>1, <2>2, <2>3, TrimTypes
<1>3. VISITS' \in [Keys -> SUBSET (1..r)]
  <2>1. \A k \in Keys : Recent(k) \subseteq 1..r
    BY <1>1 DEF Recent, TypeOK
  <2>2. r \in 1..r
    BY <1>1
  <2> QED
    BY <2>1, <2>2 DEF CreateRun
<1>4. req' \in [1..r -> [visitor : Visitors, source : Sources, at : 0..MaxTime]]
  BY <1>1 DEF CreateRun, TypeOK
<1>5. pc' \in [1..r -> Stages]
  BY <1>1 DEF CreateRun, TypeOK, Stages
<1>6. DOMAIN RUNS' \subseteq 1..r
  BY <1>1, <1>2 DEF TypeOK
<1> QED
  BY <1>1, <1>2, <1>3, <1>4, <1>5, <1>6 DEF TypeOK

LEMMA TaskType ==
    ASSUME TypeOK, NEW r \in Admitted, Task(r)
    PROVE  TypeOK'
<1> USE DEF Admitted
<1>1. CASE Acquire(r)
  BY <1>1 DEF Acquire, TypeOK, Stages, Holding
<1>2. CASE \/ Moves(r, "hub", "origin") \/ Moves(r, "metis", "emit")
  BY <1>2 DEF Moves, TypeOK, Stages, Holding
<1>3. CASE OriginAnswers(r)
  <2>1. /\ DOMAIN RUNS' \subseteq DOMAIN RUNS
        /\ RUNS' \in [DOMAIN RUNS' -> Results]
        /\ RUN_OWNERS' \in [DOMAIN RUNS' -> Visitors]
    BY <1>3, StoreTypes, ResultTypes DEF OriginAnswers
  <2> QED
    BY <1>3, <2>1 DEF OriginAnswers, TypeOK, Stages, Holding
<1>4. CASE Ends(r)
  <2>1. PICK result \in FinalResults : Finish(r, result)
    BY <1>4 DEF Ends
  <2>2. /\ DOMAIN RUNS' \subseteq DOMAIN RUNS
        /\ RUNS' \in [DOMAIN RUNS' -> Results]
        /\ RUN_OWNERS' \in [DOMAIN RUNS' -> Visitors]
    BY <2>1, StoreTypes, ResultTypes DEF Finish
  <2> QED
    BY <2>1, <2>2 DEF Finish, Release, TypeOK, Stages
<1> QED
  BY <1>1, <1>2, <1>3, <1>4, TaskCases

LEMMA ThreadType ==
    ASSUME TypeOK, NEW t \in Readers, Thread(t)
    PROVE  TypeOK'
<1>1. CASE \E v \in Visitors \cup {NoHeader}, r \in 1..RunBound : GetRun(t, v, r)
  <2>1. PICK v \in Visitors \cup {NoHeader}, r \in 1..RunBound : GetRun(t, v, r)
    BY <1>1
  <2> QED
    BY <2>1, ResultTypes, BoundsNat DEF GetRun, TypeOK, Admitted
<1>2. CASE CheckOwner(t)
  BY <1>2 DEF CheckOwner, TypeOK, Admitted
<1>3. CASE ReadRun(t)
  BY <1>3 DEF ReadRun, TypeOK, Admitted
<1> QED
  BY <1>1, <1>2, <1>3 DEF Thread

LEMMA NextType == TypeOK /\ [Next]_vars => TypeOK'
<1> SUFFICES ASSUME TypeOK, [Next]_vars PROVE TypeOK'
  OBVIOUS
<1>1. CASE \E v \in Visitors, s \in Sources : CreateRun(v, s)
  BY <1>1, CreateType
<1>2. CASE \E v \in Visitors, s \in Sources : RefuseRun(v, s)
  BY <1>2 DEF RefuseRun, Recent, TypeOK, Admitted
<1>3. CASE \E r \in Admitted : Task(r)
  BY <1>3, TaskType
<1>4. CASE \E t \in Readers : Thread(t)
  BY <1>4, ThreadType
<1>5. CASE Tick
  BY <1>5, BoundsNat DEF Tick, TypeOK, Admitted
<1>6. CASE UNCHANGED vars
  BY <1>6 DEF vars, TypeOK, Admitted
<1> QED
  BY <1>1, <1>2, <1>3, <1>4, <1>5, <1>6 DEF Next

\* Every reachable state of the service is well typed, for every instance.
THEOREM TypeCorrect == Spec => []TypeOK
<1>1. Init => TypeOK
  BY InitType
<1>2. TypeOK /\ [Next]_vars => TypeOK'
  BY NextType
<1> QED
  BY <1>1, <1>2, PTL DEF Spec

-----------------------------------------------------------------------------
(* The semaphore *)

LEMMA AdmittedFinite ==
    ASSUME TypeOK
    PROVE  IsFiniteSet(Admitted)
<1>1. last \in Int
  BY BoundsNat DEF TypeOK
<1> HIDE DEF TypeOK
<1>2. IsFiniteSet(1..last)
  BY <1>1, FS_Interval
<1> QED
  BY <1>2 DEF Admitted

LEMMA HoldersFinite ==
    ASSUME TypeOK
    PROVE  IsFiniteSet(Holders) /\ Cardinality(Holders) \in Nat
<1>1. IsFiniteSet(Admitted) /\ Holders \in SUBSET Admitted
  BY AdmittedFinite DEF Holders
<1>2. IsFiniteSet(Holders)
  BY <1>1, FS_Subset
<1> QED
  BY <1>2, FS_CardinalityType

LEMMA SlotsStep == TypeOK /\ SlotsAccounted /\ [Next]_vars => SlotsAccounted'
<1> SUFFICES ASSUME TypeOK, SlotsAccounted, [Next]_vars PROVE SlotsAccounted'
  OBVIOUS
<1> USE DEF SlotsAccounted
<1>0. slots \in Nat /\ IsFiniteSet(Holders) /\ Cardinality(Holders) \in Nat
  BY HoldersFinite DEF TypeOK
<1>1. CASE slots' = slots /\ Holders' = Holders
  BY <1>1
<1>2. CASE \E v \in Visitors, s \in Sources : CreateRun(v, s)
  <2>1. PICK v \in Visitors, s \in Sources : CreateRun(v, s)
    BY <1>2
  <2>2. /\ slots' = slots
        /\ Admitted' = Admitted \cup {last + 1}
        /\ pc'[last + 1] = "queued"
        /\ \A q \in Admitted : pc'[q] = pc[q]
    BY <2>1 DEF CreateRun, Admitted, TypeOK
  <2>3. Holders' = Holders
    BY <2>2 DEF Holders, Holding
  <2> QED
    BY <2>2, <2>3, <1>1
<1>3. CASE \E r \in Admitted : Task(r)
  <2>1. PICK r \in Admitted : Task(r)
    BY <1>3
  <2>2. pc \in [Admitted -> Stages]
    BY DEF TypeOK
  <2>3. CASE Acquire(r)
    <3>1. /\ slots' = slots - 1 /\ Admitted' = Admitted
          /\ pc[r] = "queued" /\ pc' = [pc EXCEPT ![r] = "hub"]
      BY <2>3 DEF Acquire, Admitted
    <3>2. Holders' = Holders \cup {r} /\ r \notin Holders
      BY <2>2, <3>1 DEF Holders, Holding
    <3>3. Cardinality(Holders') = Cardinality(Holders) + 1
      BY <1>0, <3>2, FS_AddElement
    <3> QED
      BY <1>0, <3>1, <3>3
  <2>4. CASE \/ Moves(r, "hub", "origin") \/ Moves(r, "metis", "emit")
             \/ OriginAnswers(r)
    <3>1. /\ slots' = slots /\ Admitted' = Admitted /\ pc[r] \in Holding
          /\ \E to \in Holding : pc' = [pc EXCEPT ![r] = to]
      BY <2>4 DEF Moves, OriginAnswers, Admitted, Holding
    <3>2. Holders' = Holders
      BY <2>2, <3>1 DEF Holders
    <3> QED
      BY <3>1, <3>2, <1>1
  <2>5. CASE Ends(r)
    <3>1. /\ Release(r) /\ Admitted' = Admitted
          /\ pc' = [pc EXCEPT ![r] = "done"]
      BY <2>5 DEF Ends, Finish, Admitted
    <3>2. CASE pc[r] \in Holding
      <4>1. Holders' = Holders \ {r} /\ r \in Holders
        BY <2>2, <3>1, <3>2 DEF Holders, Holding
      <4>2. Cardinality(Holders') = Cardinality(Holders) - 1
        BY <1>0, <4>1, FS_RemoveElement
      <4>3. slots' = slots + 1
        BY <3>1, <3>2 DEF Release
      <4> QED
        BY <1>0, <4>2, <4>3
    <3>3. CASE pc[r] \notin Holding
      <4>1. Holders' = Holders
        BY <2>2, <3>1, <3>3 DEF Holders, Holding
      <4>2. slots' = slots
        BY <3>1, <3>3 DEF Release
      <4> QED
        BY <4>1, <4>2, <1>1
    <3> QED
      BY <3>2, <3>3
  <2> QED
    BY <2>1, <2>3, <2>4, <2>5, TaskCases
<1>4. CASE \/ \E v \in Visitors, s \in Sources : RefuseRun(v, s)
           \/ \E t \in Readers : Thread(t)
           \/ Tick \/ UNCHANGED vars
  <2>1. slots' = slots /\ pc' = pc /\ last' = last
    BY <1>4 DEF RefuseRun, Thread, GetRun, CheckOwner, ReadRun, Tick, vars
  <2> QED
    BY <2>1, <1>1 DEF Holders, Admitted
<1> QED
  BY <1>2, <1>3, <1>4 DEF Next

\* Every slot is free or held by exactly one run, whichever way runs end.
THEOREM SlotsAreAccounted == Spec => []SlotsAccounted
<1>1. Init => SlotsAccounted
  <2> SUFFICES ASSUME Init PROVE SlotsAccounted
    OBVIOUS
  <2>1. Holders = {}
    BY DEF Init, Holders, Admitted
  <2> QED
    BY <2>1, FS_EmptySet, LimitsClamped DEF Init, SlotsAccounted
<1>2. TypeOK /\ SlotsAccounted /\ [Next]_vars => SlotsAccounted'
  BY SlotsStep
<1> QED
  BY <1>1, <1>2, TypeCorrect, PTL DEF Spec

-----------------------------------------------------------------------------
(* The hourly allowance *)

\* Runs were admitted in the past, and the live ones before their deadline.
AgesOK ==
    \A r \in Admitted : /\ req[r].at <= now
                        /\ Live(r) => now <= req[r].at + RUN_TIMEOUT_S

\* No stamp of the last hour is missing from a key it counts against.
StampsKept ==
    \A r \in Admitted : \A k \in KeysOf(req[r].visitor, req[r].source) :
        now - req[r].at < HOUR => r \in VISITS[k]

StampsLimited == \A k \in Keys : Cardinality(VISITS[k]) <= Limit(k)

AllowanceInv == AgesOK /\ StampsKept /\ StampsLimited /\ HourlyAllowance

LEMMA LimitNat == \A k \in Keys : Limit(k) \in Nat
  BY LimitsClamped DEF Limit

LEMMA VisitsFinite ==
    ASSUME TypeOK, NEW k \in Keys
    PROVE  /\ IsFiniteSet(VISITS[k]) /\ Cardinality(VISITS[k]) \in Nat
           /\ IsFiniteSet(Recent(k)) /\ Cardinality(Recent(k)) \in Nat
           /\ Cardinality(Recent(k)) <= Cardinality(VISITS[k])
<1>1. IsFiniteSet(Admitted) /\ VISITS[k] \subseteq Admitted
  BY AdmittedFinite DEF TypeOK
<1>2. IsFiniteSet(VISITS[k]) /\ Recent(k) \in SUBSET VISITS[k]
  BY <1>1, FS_Subset DEF Recent
<1>3. /\ IsFiniteSet(Recent(k))
      /\ Cardinality(Recent(k)) <= Cardinality(VISITS[k])
  BY <1>2, FS_Subset
<1>4. Cardinality(VISITS[k]) \in Nat
  BY <1>2, FS_CardinalityType
<1>5. Cardinality(Recent(k)) \in Nat
  BY <1>3, FS_CardinalityType
<1> QED
  BY <1>2, <1>3, <1>4, <1>5

\* A step that admits nobody leaves every window as it was.
LEMMA SameWindows ==
    ASSUME HourlyAllowance, last' = last, req' = req
    PROVE  HourlyAllowance'
  BY DEF HourlyAllowance, AdmittedIn, Admitted, KeysOf

LEMMA FiniteAfter ==
    ASSUME TypeOK'
    PROVE  IsFiniteSet(Admitted')
<1>1. last' \in Int
  BY BoundsNat DEF TypeOK
<1>2. IsFiniteSet(1..last')
  BY <1>1, FS_Interval
<1> QED
  BY <1>2 DEF Admitted

\* The allowance of an hour that contains the new run follows from the
\* stamps; any other hour has the runs it had.
LEMMA CreateAllowance ==
    ASSUME TypeOK, TypeOK', AllowanceInv,
           NEW v \in Visitors, NEW s \in Sources, CreateRun(v, s)
    PROVE  AllowanceInv'
<1> DEFINE r == last + 1
<1>1. /\ last' = r /\ last \in Nat /\ now' = now /\ now \in 0..MaxTime
      /\ Admitted' = Admitted \cup {r} /\ r \notin Admitted
      /\ \A q \in Admitted : req'[q] = req[q] /\ pc'[q] = pc[q]
      /\ req'[r] = [visitor |-> v, source |-> s, at |-> now]
      /\ AllowanceLeft(v, s)
  BY DEF CreateRun, TypeOK, Admitted
<1>2. VISITS' = [k \in Keys |-> IF k \in KeysOf(v, s)
                               THEN Recent(k) \cup {r} ELSE Recent(k)]
  BY DEF CreateRun
<1>3. AgesOK'
  BY <1>1, TimesClamped DEF AgesOK, AllowanceInv, Live, TypeOK
<1>4. StampsKept'
  <2> SUFFICES ASSUME NEW q \in Admitted',
                      NEW k \in KeysOf(req'[q].visitor, req'[q].source),
                      now' - req'[q].at < HOUR
               PROVE  q \in VISITS'[k]
    BY DEF StampsKept, KeysOf
  <2>1. k \in Keys
    BY DEF KeysOf, Keys, TypeOK
  <2>2. CASE q = r
    <3>1. k \in KeysOf(v, s)
      BY <1>1, <2>2
    <3> QED
      BY <1>2, <2>1, <2>2, <3>1
  <2>3. CASE q \in Admitted
    <3>1. q \in Recent(k)
      BY <1>1, <2>3 DEF Recent, StampsKept, AllowanceInv
    <3> QED
      BY <1>2, <2>1, <3>1
  <2> QED
    BY <1>1, <2>2, <2>3
<1>5. StampsLimited'
  <2> SUFFICES ASSUME NEW k \in Keys PROVE Cardinality(VISITS'[k]) <= Limit(k)
    BY DEF StampsLimited, Limit
  <2>1. /\ IsFiniteSet(Recent(k)) /\ Cardinality(Recent(k)) \in Nat
        /\ Cardinality(VISITS[k]) \in Nat /\ Limit(k) \in Nat
        /\ Cardinality(Recent(k)) <= Cardinality(VISITS[k])
        /\ Cardinality(VISITS[k]) <= Limit(k)
    BY VisitsFinite, LimitNat DEF AllowanceInv, StampsLimited
  <2>2. CASE k \in KeysOf(v, s)
    <3>1. Cardinality(Recent(k)) < Limit(k)
      BY <1>1, <2>2 DEF AllowanceLeft
    <3>2. Cardinality(Recent(k) \cup {r}) =
              IF r \in Recent(k) THEN Cardinality(Recent(k))
                                 ELSE Cardinality(Recent(k)) + 1
      BY <2>1, FS_AddElement
    <3>4. VISITS'[k] = Recent(k) \cup {r}
      BY <1>2, <2>2
    <3> QED
      BY <2>1, <3>1, <3>2, <3>4
  <2>3. CASE k \notin KeysOf(v, s)
    <3>1. VISITS'[k] = Recent(k)
      BY <1>2, <2>3
    <3> QED
      BY <2>1, <3>1
  <2> QED
    BY <2>2, <2>3
<1>6. HourlyAllowance'
  <2> SUFFICES ASSUME NEW k \in Keys, NEW t \in 0..MaxTime
               PROVE  Cardinality(AdmittedIn(k, t)') <= Limit(k)
    BY DEF HourlyAllowance, AdmittedIn, KeysOf, Limit
  <2>1. CASE t < now
    <3>1. AdmittedIn(k, t)' = AdmittedIn(k, t)
      BY <1>1, <2>1, BoundsNat DEF AdmittedIn, KeysOf
    <3> QED
      BY <3>1 DEF AllowanceInv, HourlyAllowance
  <2>2. CASE t >= now
    <3>1. AdmittedIn(k, t)' \subseteq VISITS'[k]
      <4> SUFFICES ASSUME NEW q \in Admitted',
                          k \in KeysOf(req'[q].visitor, req'[q].source),
                          t - HOUR < req'[q].at
                   PROVE  q \in VISITS'[k]
        BY DEF AdmittedIn, KeysOf
      <4>1. req'[q].at \in 0..MaxTime
        BY DEF TypeOK
      <4>2. now' - req'[q].at < HOUR
        BY <1>1, <2>2, <4>1, TimesClamped, BoundsNat
      <4> QED
        BY <1>4, <4>2 DEF StampsKept, KeysOf
    <3>2. IsFiniteSet(VISITS'[k])
      <4>1. IsFiniteSet(Admitted') /\ VISITS'[k] \in SUBSET Admitted'
        BY FiniteAfter DEF TypeOK
      <4> QED
        BY <4>1, FS_Subset
    <3>a. Cardinality(VISITS'[k]) \in Nat
      BY <3>2, FS_CardinalityType
    <3>b. /\ IsFiniteSet(AdmittedIn(k, t)')
          /\ Cardinality(AdmittedIn(k, t)') <= Cardinality(VISITS'[k])
      BY <3>1, <3>2, FS_Subset
    <3>3. Cardinality(AdmittedIn(k, t)') \in Nat
      BY <3>b, FS_CardinalityType
    <3>4. Cardinality(VISITS'[k]) <= Limit(k)
      BY <1>5 DEF StampsLimited, Limit
    <3> QED
      BY <3>a, <3>b, <3>3, <3>4, LimitNat
  <2> QED
    BY <1>1, <2>1, <2>2, BoundsNat
<1> QED
  BY <1>3, <1>4, <1>5, <1>6 DEF AllowanceInv

LEMMA AllowanceStep ==
    TypeOK /\ TypeOK' /\ AllowanceInv /\ [Next]_vars => AllowanceInv'
<1> SUFFICES ASSUME TypeOK, TypeOK', AllowanceInv, [Next]_vars PROVE AllowanceInv'
  OBVIOUS
<1>1. CASE \E v \in Visitors, s \in Sources : CreateRun(v, s)
  BY <1>1, CreateAllowance
<1>2. CASE \E v \in Visitors, s \in Sources : RefuseRun(v, s)
  <2>1. /\ last' = last /\ req' = req /\ now' = now /\ pc' = pc
        /\ VISITS' = [k \in Keys |-> Recent(k)]
    BY <1>2 DEF RefuseRun
  <2>2. AgesOK'
    BY <2>1 DEF AllowanceInv, AgesOK, Admitted, Live
  <2>3. StampsKept'
    BY <2>1 DEF AllowanceInv, StampsKept, Admitted, Recent, KeysOf, Keys, TypeOK
  <2>4. StampsLimited'
    <3> SUFFICES ASSUME NEW k \in Keys
                 PROVE  Cardinality(Recent(k)) <= Limit(k)
      BY <2>1 DEF StampsLimited, Limit
    <3> QED
      BY VisitsFinite, LimitNat DEF AllowanceInv, StampsLimited
  <2>5. HourlyAllowance'
    BY <2>1, SameWindows DEF AllowanceInv
  <2> QED
    BY <2>2, <2>3, <2>4, <2>5 DEF AllowanceInv
<1>3. CASE \E r \in Admitted : Task(r)
  <2>1. PICK r \in Admitted : Task(r)
    BY <1>3
  <2>2. /\ last' = last /\ req' = req /\ now' = now /\ VISITS' = VISITS
        /\ Live(r) /\ \E to \in Stages : pc' = [pc EXCEPT ![r] = to]
    BY <2>1, TaskCases
       DEF Acquire, Moves, OriginAnswers, Ends, Finish, Live, Stages, Holding
  <2>3. AgesOK'
    BY <2>2 DEF AllowanceInv, AgesOK, Admitted, Live, TypeOK
  <2>4. StampsKept' /\ StampsLimited'
    BY <2>2 DEF AllowanceInv, StampsKept, StampsLimited, Admitted, KeysOf, Limit
  <2>5. HourlyAllowance'
    BY <2>2, SameWindows DEF AllowanceInv
  <2> QED
    BY <2>3, <2>4, <2>5 DEF AllowanceInv
<1>4. CASE Tick
  <2>1. /\ last' = last /\ req' = req /\ VISITS' = VISITS /\ pc' = pc
        /\ now' = now + 1 /\ now \in Nat
        /\ \A r \in Admitted : req[r].at \in Nat
        /\ \A r \in Admitted : Live(r) => now < req[r].at + RUN_TIMEOUT_S
    BY <1>4, BoundsNat DEF Tick, TypeOK
  <2>2. AgesOK'
    BY <2>1, TimesClamped DEF AllowanceInv, AgesOK, Admitted, Live
  <2>3. StampsKept'
    <3> SUFFICES ASSUME NEW r \in Admitted,
                        NEW k \in KeysOf(req[r].visitor, req[r].source),
                        now + 1 - req[r].at < HOUR
                 PROVE  r \in VISITS[k]
      BY <2>1 DEF StampsKept, Admitted, KeysOf
    <3>1. now - req[r].at < HOUR
      BY <2>1, TimesClamped
    <3> QED
      BY <3>1 DEF AllowanceInv, StampsKept
  <2>4. StampsLimited'
    BY <2>1 DEF AllowanceInv, StampsLimited, Limit
  <2>5. HourlyAllowance'
    BY <2>1, SameWindows DEF AllowanceInv
  <2> QED
    BY <2>2, <2>3, <2>4, <2>5 DEF AllowanceInv
<1>5. CASE (\E t \in Readers : Thread(t)) \/ UNCHANGED vars
  <2>1. /\ last' = last /\ req' = req /\ VISITS' = VISITS /\ pc' = pc /\ now' = now
    BY <1>5 DEF Thread, GetRun, CheckOwner, ReadRun, vars
  <2>2. AgesOK' /\ StampsKept' /\ StampsLimited'
    BY <2>1 DEF AllowanceInv, AgesOK, StampsKept, StampsLimited, Admitted, Live,
                KeysOf, Limit
  <2>3. HourlyAllowance'
    BY <2>1, SameWindows DEF AllowanceInv
  <2> QED
    BY <2>2, <2>3 DEF AllowanceInv
<1> QED
  BY <1>1, <1>2, <1>3, <1>4, <1>5 DEF Next

LEMMA AllowanceInit == Init => AllowanceInv
<1> SUFFICES ASSUME Init PROVE AllowanceInv
  OBVIOUS
<1>1. Admitted = {}
  BY DEF Init, Admitted
<1>2. AgesOK /\ StampsKept
  BY <1>1 DEF AgesOK, StampsKept
<1>3. \A k \in Keys : VISITS[k] = {}
  BY DEF Init
<1>4. StampsLimited
  BY <1>3, FS_EmptySet, LimitNat DEF StampsLimited
<1>5. \A k \in Keys, t \in 0..MaxTime : AdmittedIn(k, t) = {}
  BY <1>1 DEF AdmittedIn
<1>6. HourlyAllowance
  BY <1>5, FS_EmptySet, LimitNat DEF HourlyAllowance
<1> QED
  BY <1>2, <1>4, <1>6 DEF AllowanceInv

LEMMA AllowanceInvariant == Spec => []AllowanceInv
<1>1. Init => AllowanceInv
  BY AllowanceInit
<1>2. TypeOK /\ TypeOK' /\ AllowanceInv /\ [Next]_vars => AllowanceInv'
  BY AllowanceStep
<1> QED
  BY <1>1, <1>2, TypeCorrect, PTL DEF Spec

\* In every hour, wherever it starts, each visitor, each source and the whole
\* service get at most their allowance of runs.
THEOREM HourlyAllowanceHolds == Spec => []HourlyAllowance
<1>1. AllowanceInv => HourlyAllowance
  BY DEF AllowanceInv
<1> QED
  BY <1>1, AllowanceInvariant, PTL

-----------------------------------------------------------------------------
(* The result store *)

\* What _trim_runs did, as facts about the store it left.
LEMMA TrimFacts ==
    ASSUME NEW D, NEW runs \in [D -> Results], NEW owners \in [D -> Visitors],
           StoreTrimmed(runs, owners)
    PROVE  /\ DOMAIN RUNS' \subseteq D
           /\ \A r \in DOMAIN RUNS' : RUNS'[r] = runs[r] /\ RUN_OWNERS'[r] = owners[r]
           /\ \A g \in D \ DOMAIN RUNS' : runs[g].status \notin Pending
           /\ \A g \in D \ DOMAIN RUNS' : \A r \in DOMAIN RUNS' :
                  r > g \/ RUNS'[r].status \in Pending
           /\ Cardinality(DOMAIN RUNS') > MAX_STORED_RUNS
                  => \A r \in DOMAIN RUNS' : RUNS'[r].status \in Pending
           /\ D \ DOMAIN RUNS' # {} => Cardinality(DOMAIN RUNS') >= MAX_STORED_RUNS
<1>1. PICK kept \in SUBSET D :
          /\ TrimmedTo(runs, kept)
          /\ RUNS' = [r \in kept |-> runs[r]]
          /\ RUN_OWNERS' = [r \in kept |-> owners[r]]
  BY DEF StoreTrimmed
<1> DEFINE done == {r \in D : runs[r].status \notin Pending}
           gone == D \ kept
<1>2. /\ gone \subseteq done
      /\ \A g \in gone, d \in done \ gone : g < d
      /\ Cardinality(kept) > MAX_STORED_RUNS => gone = done
      /\ gone # {} => Cardinality(kept) >= MAX_STORED_RUNS
  BY <1>1 DEF TrimmedTo
<1>3. DOMAIN RUNS' = kept /\ \A r \in kept : RUNS'[r] = runs[r] /\ RUN_OWNERS'[r] = owners[r]
  BY <1>1
<1>4. \A g \in gone, r \in kept : g < r \/ runs[r].status \in Pending
  BY <1>2
<1> QED
  BY <1>2, <1>3, <1>4

\* A store with more than MAX_STORED_RUNS entries holds no finished one.
FullOfPending ==
    Cardinality(DOMAIN RUNS) > MAX_STORED_RUNS
        => \A r \in DOMAIN RUNS : RUNS[r].status \in Pending

StoreInv == PendingIffLive /\ FullOfPending

LEMMA CreateStore ==
    ASSUME TypeOK, StoreInv, NEW v \in Visitors, NEW s \in Sources, CreateRun(v, s)
    PROVE  StoreInv'
<1> DEFINE r == last + 1
           D == DOMAIN RUNS \cup {r}
           runs == [q \in D |-> IF q = r THEN Running ELSE RUNS[q]]
           owners == [q \in D |-> IF q = r THEN v ELSE RUN_OWNERS[q]]
<1>1. /\ Admitted' = Admitted \cup {r} /\ r \notin Admitted
      /\ \A q \in Admitted : req'[q] = req[q] /\ pc'[q] = pc[q]
      /\ req'[r].visitor = v /\ pc'[r] = "queued"
      /\ DOMAIN RUNS \subseteq Admitted
  BY DEF CreateRun, TypeOK, Admitted
<1>2. /\ runs \in [D -> Results] /\ owners \in [D -> Visitors]
      /\ StoreTrimmed(runs, owners)
  <2>1. DOMAIN RUN_OWNERS = DOMAIN RUNS
    BY DEF TypeOK
  <2>2. StoreTrimmed(runs, owners)
    BY <2>1 DEF CreateRun
  <2> QED
    BY <2>2, ResultTypes DEF TypeOK
<1>3. /\ runs[r] = Running /\ owners[r] = v /\ r \in D
      /\ \A q \in DOMAIN RUNS : q # r => runs[q] = RUNS[q] /\ owners[q] = RUN_OWNERS[q]
  OBVIOUS
<1> HIDE DEF runs, owners
<1>4. /\ DOMAIN RUNS' \subseteq D
      /\ \A q \in DOMAIN RUNS' : RUNS'[q] = runs[q] /\ RUN_OWNERS'[q] = owners[q]
      /\ \A g \in D \ DOMAIN RUNS' : runs[g].status \notin Pending
      /\ Cardinality(DOMAIN RUNS') > MAX_STORED_RUNS
            => \A q \in DOMAIN RUNS' : RUNS'[q].status \in Pending
  BY <1>2, TrimFacts
<1>5. FullOfPending'
  BY <1>4 DEF FullOfPending
<1>6. Running.status = "running"
  BY DEF Running
<1>7. PendingIffLive'
  BY <1>1, <1>3, <1>4, <1>6 DEF PendingIffLive, StoreInv, Live, Pending
<1> QED
  BY <1>5, <1>7 DEF StoreInv

\* store_result for a live run: the guard on RUN_OWNERS never fires, and the
\* new status agrees with the stage the task moves to.
LEMMA ResultStore ==
    ASSUME TypeOK, StoreInv, NEW r \in Admitted, Live(r), NEW result \in Results,
           StoreResult(r, result),
           NEW to \in Stages, pc' = [pc EXCEPT ![r] = to],
           result.status \in Pending <=> to # "done",
           result.status = "verifying" <=> to \in {"metis", "emit"},
           last' = last, req' = req
    PROVE  /\ StoreInv'
           /\ \A g \in DOMAIN RUNS \ DOMAIN RUNS' :
                 /\ \A q \in DOMAIN RUNS' : q > g \/ RUNS'[q].status \in Pending
                 /\ Cardinality(DOMAIN RUNS') >= MAX_STORED_RUNS
<1> DEFINE D == DOMAIN RUNS
           runs == [RUNS EXCEPT ![r] = result]
<1>1. r \in D /\ DOMAIN RUN_OWNERS = D
  BY DEF StoreInv, PendingIffLive, TypeOK
<1>2. /\ runs \in [D -> Results] /\ RUN_OWNERS \in [D -> Visitors]
      /\ StoreTrimmed(runs, RUN_OWNERS)
  BY <1>1 DEF StoreResult, TypeOK
<1>3. runs[r] = result /\ \A q \in D : q # r => runs[q] = RUNS[q]
  BY <1>1, <1>2 DEF TypeOK
<1>4. Admitted' = Admitted /\ D \subseteq Admitted
  BY DEF Admitted, TypeOK
<1>5. pc'[r] = to /\ \A q \in Admitted : q # r => pc'[q] = pc[q]
  BY DEF TypeOK
<1> HIDE DEF runs
<1>6. /\ DOMAIN RUNS' \subseteq D
      /\ \A q \in DOMAIN RUNS' : RUNS'[q] = runs[q] /\ RUN_OWNERS'[q] = RUN_OWNERS[q]
      /\ \A g \in D \ DOMAIN RUNS' : runs[g].status \notin Pending
      /\ \A g \in D \ DOMAIN RUNS' : \A q \in DOMAIN RUNS' :
             q > g \/ RUNS'[q].status \in Pending
      /\ Cardinality(DOMAIN RUNS') > MAX_STORED_RUNS
            => \A q \in DOMAIN RUNS' : RUNS'[q].status \in Pending
      /\ D \ DOMAIN RUNS' # {} => Cardinality(DOMAIN RUNS') >= MAX_STORED_RUNS
  BY <1>2, TrimFacts
<1>7. FullOfPending'
  BY <1>6 DEF FullOfPending
<1>8. PendingIffLive'
  <2>1. ASSUME NEW q \in Admitted, pc'[q] # "done" PROVE q \in DOMAIN RUNS'
    BY <1>1, <1>3, <1>4, <1>5, <1>6, <2>1 DEF PendingIffLive, StoreInv, Live
  <2>2. ASSUME NEW q \in DOMAIN RUNS'
        PROVE  /\ RUNS'[q].status \in Pending <=> pc'[q] # "done"
               /\ RUNS'[q].status = "verifying" <=> pc'[q] \in {"metis", "emit"}
               /\ RUN_OWNERS'[q] = req'[q].visitor
    BY <1>1, <1>3, <1>4, <1>5, <1>6 DEF PendingIffLive, StoreInv, Live
  <2> QED
    BY <1>4, <2>1, <2>2 DEF PendingIffLive, Live
<1> QED
  BY <1>6, <1>7, <1>8 DEF StoreInv

LEMMA FinalStatus ==
    ASSUME NEW result \in FinalResults
    PROVE  result \in Results /\ result.status \in {"completed", "failed"}
<1>1. result \in Results
  BY ResultTypes
<1>2. result.status \in {"completed", "failed"}
  BY DEF FinalResults, Completed, Failed
<1> QED
  BY <1>1, <1>2

\* A task step keeps the store and the tasks in agreement, and what it
\* forgets it forgets for lack of room.
LEMMA TaskStore ==
    ASSUME TypeOK, StoreInv, NEW r \in Admitted, Task(r)
    PROVE  /\ StoreInv'
           /\ \A g \in DOMAIN RUNS \ DOMAIN RUNS' :
                 /\ \A q \in DOMAIN RUNS' : q > g \/ RUNS'[q].status \in Pending
                 /\ Cardinality(DOMAIN RUNS') >= MAX_STORED_RUNS
<1>1. CASE \/ Acquire(r) \/ Moves(r, "hub", "origin") \/ Moves(r, "metis", "emit")
  <2>1. /\ RUNS' = RUNS /\ RUN_OWNERS' = RUN_OWNERS /\ req' = req
        /\ last' = last /\ Admitted' = Admitted
        /\ \/ pc[r] = "queued" /\ pc' = [pc EXCEPT ![r] = "hub"]
           \/ pc[r] = "hub" /\ pc' = [pc EXCEPT ![r] = "origin"]
           \/ pc[r] = "metis" /\ pc' = [pc EXCEPT ![r] = "emit"]
    BY <1>1 DEF Acquire, Moves, Admitted
  <2>2. \A q \in Admitted : /\ pc'[q] = "done" <=> pc[q] = "done"
                            /\ pc'[q] \in {"metis", "emit"} <=> pc[q] \in {"metis", "emit"}
    BY <2>1 DEF TypeOK
  <2>3. StoreInv'
    BY <2>1, <2>2 DEF StoreInv, PendingIffLive, FullOfPending, Live, TypeOK
  <2> QED
    BY <2>1, <2>3
<1>2. CASE OriginAnswers(r)
  <2>1. /\ Live(r) /\ StoreResult(r, Verifying) /\ last' = last /\ req' = req
        /\ pc' = [pc EXCEPT ![r] = "metis"]
    BY <1>2 DEF OriginAnswers, Live
  <2>2. Verifying \in Results /\ Verifying.status = "verifying" /\ "metis" \in Stages
    BY ResultTypes DEF Verifying, Stages, Holding
  <2>3. /\ Verifying.status \in Pending <=> "metis" # "done"
        /\ Verifying.status = "verifying" <=> "metis" \in {"metis", "emit"}
    BY <2>2 DEF Pending
  <2> QED
    BY <2>1, <2>2, <2>3, ResultStore
<1>3. CASE Ends(r)
  <2>1. PICK result \in FinalResults : Finish(r, result)
    BY <1>3 DEF Ends
  <2>2. /\ Live(r) /\ StoreResult(r, result) /\ last' = last /\ req' = req
        /\ pc' = [pc EXCEPT ![r] = "done"]
    BY <1>3, <2>1 DEF Ends, Finish
  <2>3. result \in Results /\ "done" \in Stages
    BY FinalStatus DEF Stages
  <2>4. /\ result.status \in Pending <=> "done" # "done"
        /\ result.status = "verifying" <=> "done" \in {"metis", "emit"}
    BY FinalStatus DEF Pending
  <2> QED
    BY <2>2, <2>3, <2>4, ResultStore
<1> QED
  BY <1>1, <1>2, <1>3, TaskCases

\* Steps that touch neither the store nor the tasks.
LEMMA IdleStore ==
    ASSUME StoreInv, last' = last, req' = req, pc' = pc,
           RUNS' = RUNS, RUN_OWNERS' = RUN_OWNERS
    PROVE  StoreInv'
  BY DEF StoreInv, PendingIffLive, FullOfPending, Admitted, Live

LEMMA StoreStep == TypeOK /\ StoreInv /\ [Next]_vars => StoreInv'
<1> SUFFICES ASSUME TypeOK, StoreInv, [Next]_vars PROVE StoreInv'
  OBVIOUS
<1>1. CASE \E v \in Visitors, s \in Sources : CreateRun(v, s)
  BY <1>1, CreateStore
<1>2. CASE \E r \in Admitted : Task(r)
  BY <1>2, TaskStore
<1>3. CASE \/ \E v \in Visitors, s \in Sources : RefuseRun(v, s)
           \/ \E t \in Readers : Thread(t)
           \/ Tick \/ UNCHANGED vars
  BY <1>3, IdleStore DEF RefuseRun, Thread, GetRun, CheckOwner, ReadRun, Tick, vars
<1> QED
  BY <1>1, <1>2, <1>3 DEF Next

LEMMA StoreInvariant == Spec => []StoreInv
<1>1. Init => StoreInv
  BY FS_EmptySet, LimitsClamped
     DEF Init, StoreInv, PendingIffLive, FullOfPending, Admitted
<1>2. TypeOK /\ StoreInv /\ [Next]_vars => StoreInv'
  BY StoreStep
<1> QED
  BY <1>1, <1>2, TypeCorrect, PTL DEF Spec

\* A run is stored as pending exactly while its task is alive: eviction never
\* loses a run that is worked on, and no stored result says "wait" for ever.
THEOREM PendingIffLiveHolds == Spec => []PendingIffLive
<1>1. StoreInv => PendingIffLive
  BY DEF StoreInv
<1> QED
  BY <1>1, StoreInvariant, PTL

\* The store holds at most max(MAX_STORED_RUNS, MAX_GLOBAL_RUNS) results.  A
\* store above MAX_STORED_RUNS has live runs only; each was admitted less than
\* an hour ago, because its deadline has not passed; so each has a stamp
\* under "global", of which there are no more than the global allowance.
THEOREM StoreBoundHolds == Spec => []StoreBound
<1>1. TypeOK /\ StoreInv /\ AllowanceInv => StoreBound
  <2> SUFFICES ASSUME TypeOK, StoreInv, AllowanceInv,
                      ~(Cardinality(DOMAIN RUNS) <= MAX_STORED_RUNS)
               PROVE  Cardinality(DOMAIN RUNS) <= MAX_GLOBAL_RUNS
    BY DEF StoreBound
  <2>1. DOMAIN RUNS \in SUBSET Admitted /\ IsFiniteSet(DOMAIN RUNS)
    BY AdmittedFinite, FS_Subset DEF TypeOK
  <2>2. Cardinality(DOMAIN RUNS) \in Nat
    BY <2>1, FS_CardinalityType
  <2>3. \A r \in DOMAIN RUNS : Live(r)
    BY <2>2, LimitsClamped DEF StoreInv, FullOfPending, PendingIffLive
  <2>4. \A r \in DOMAIN RUNS : r \in VISITS[Global]
    <3> SUFFICES ASSUME NEW r \in DOMAIN RUNS PROVE r \in VISITS[Global]
      OBVIOUS
    <3>1. r \in Admitted /\ now <= req[r].at + RUN_TIMEOUT_S
      BY <2>1, <2>3 DEF AllowanceInv, AgesOK
    <3>2. req[r].at \in 0..MaxTime /\ now \in 0..MaxTime
      BY <3>1 DEF TypeOK
    <3>3. now - req[r].at < HOUR
      BY <3>1, <3>2, TimesClamped, BoundsNat
    <3> QED
      BY <3>1, <3>3 DEF AllowanceInv, StampsKept, KeysOf
  <2>5. Global \in Keys /\ Limit(Global) = MAX_GLOBAL_RUNS
    BY DEF Keys, Limit
  <2>6. /\ IsFiniteSet(VISITS[Global]) /\ Cardinality(VISITS[Global]) \in Nat
        /\ Cardinality(VISITS[Global]) <= MAX_GLOBAL_RUNS
    BY <2>5, VisitsFinite DEF AllowanceInv, StampsLimited
  <2>7. Cardinality(DOMAIN RUNS) <= Cardinality(VISITS[Global])
    BY <2>4, <2>6, FS_Subset
  <2> QED
    BY <2>2, <2>6, <2>7, LimitsClamped
<1> QED
  BY <1>1, TypeCorrect, StoreInvariant, AllowanceInvariant, PTL

\* Whatever a step forgets is finished, and the store it leaves is full with
\* runs that are newer or still pending.
THEOREM ForgettingNeedsPressure == Spec => ForgetsOnlyUnderPressure
<1> DEFINE Kept(g) == {q \in DOMAIN RUNS' : q > g \/ RUNS'[q].status \in Pending}
           Pressed == \A g \in DOMAIN RUNS \ DOMAIN RUNS' :
                          Cardinality(Kept(g)) >= MAX_STORED_RUNS
<1>1. ASSUME TypeOK, StoreInv, [Next]_vars
      PROVE  \A g \in DOMAIN RUNS \ DOMAIN RUNS' :
                 /\ \A q \in DOMAIN RUNS' : q > g \/ RUNS'[q].status \in Pending
                 /\ Cardinality(DOMAIN RUNS') >= MAX_STORED_RUNS
  <2>1. CASE \E v \in Visitors, s \in Sources : CreateRun(v, s)
    <3>1. PICK v \in Visitors, s \in Sources : CreateRun(v, s)
      BY <2>1
    <3> DEFINE r == last + 1
               D == DOMAIN RUNS \cup {r}
               runs == [q \in D |-> IF q = r THEN Running ELSE RUNS[q]]
               owners == [q \in D |-> IF q = r THEN v ELSE RUN_OWNERS[q]]
    <3>2. DOMAIN RUN_OWNERS = DOMAIN RUNS
      BY <1>1 DEF TypeOK
    <3>3. StoreTrimmed(runs, owners)
      BY <3>1, <3>2 DEF CreateRun
    <3>4. runs \in [D -> Results] /\ owners \in [D -> Visitors]
      BY <1>1, ResultTypes DEF TypeOK
    <3> HIDE DEF runs, owners
    <3>5. /\ \A g \in D \ DOMAIN RUNS' : \A q \in DOMAIN RUNS' :
                 q > g \/ RUNS'[q].status \in Pending
          /\ D \ DOMAIN RUNS' # {} => Cardinality(DOMAIN RUNS') >= MAX_STORED_RUNS
      BY <3>3, <3>4, TrimFacts
    <3> QED
      BY <3>5
  <2>2. CASE \E r \in Admitted : Task(r)
    BY <1>1, <2>2, TaskStore
  <2>3. CASE \/ \E v \in Visitors, s \in Sources : RefuseRun(v, s)
             \/ \E t \in Readers : Thread(t)
             \/ Tick \/ UNCHANGED vars
    BY <2>3 DEF RefuseRun, Thread, GetRun, CheckOwner, ReadRun, Tick, vars
  <2> QED
    BY <1>1, <2>1, <2>2, <2>3 DEF Next
<1>2. ASSUME TypeOK, StoreInv, [Next]_vars PROVE Pressed
  <2> SUFFICES ASSUME NEW g \in DOMAIN RUNS \ DOMAIN RUNS'
               PROVE  Cardinality(Kept(g)) >= MAX_STORED_RUNS
    OBVIOUS
  <2>1. Kept(g) = DOMAIN RUNS'
    BY <1>1, <1>2
  <2> QED
    BY <1>1, <1>2, <2>1
<1>3. TypeOK /\ StoreInv /\ [Next]_vars => [Pressed]_vars
  BY <1>2
<1> QED
  BY <1>3, TypeCorrect, StoreInvariant, PTL DEF Spec, ForgetsOnlyUnderPressure

-----------------------------------------------------------------------------
(* The readers *)

\* A thread past the owner check asks for its visitor's own run.
ReadersOwn ==
    \A t \in Readers : rd[t].step \in {"owned", "200", "500"} =>
        /\ rd[t].run \in Admitted
        /\ req[rd[t].run].visitor = rd[t].visitor

LEMMA ReadersStep ==
    TypeOK /\ TypeOK' /\ StoreInv /\ ReadersOwn /\ [Next]_vars => ReadersOwn'
<1> SUFFICES ASSUME TypeOK, TypeOK', StoreInv, ReadersOwn, [Next]_vars
             PROVE  ReadersOwn'
  OBVIOUS
<1>1. CASE /\ rd' = rd /\ Admitted \subseteq Admitted'
           /\ \A r \in Admitted : req'[r] = req[r]
  BY <1>1 DEF ReadersOwn
<1>2. CASE \E v \in Visitors, s \in Sources : CreateRun(v, s)
  <2>1. /\ rd' = rd /\ Admitted \subseteq Admitted'
        /\ \A r \in Admitted : req'[r] = req[r]
    BY <1>2 DEF CreateRun, Admitted, TypeOK
  <2> QED
    BY <2>1, <1>1
<1>3. CASE \E r \in Admitted : Task(r)
  <2>1. rd' = rd /\ last' = last /\ req' = req
    BY <1>3, TaskCases DEF Acquire, Moves, OriginAnswers, Ends, Finish
  <2> QED
    BY <2>1, <1>1 DEF Admitted
<1>4. CASE \E t \in Readers : Thread(t)
  <2>1. PICK t \in Readers : Thread(t)
    BY <1>4
  <2>2. Admitted' = Admitted /\ req' = req /\ \A u \in Readers : u # t => rd'[u] = rd[u]
    BY <2>1 DEF Thread, GetRun, CheckOwner, ReadRun, Admitted, TypeOK
  <2>3. rd'[t].step \in {"owned", "200", "500"} =>
            /\ rd'[t].run \in Admitted
            /\ req[rd'[t].run].visitor = rd'[t].visitor
    <3>1. CASE \E v \in Visitors \cup {NoHeader}, r \in 1..RunBound : GetRun(t, v, r)
      <4>1. rd'[t].step \in {"stored", "404"}
        BY <3>1 DEF GetRun, TypeOK
      <4> QED
        BY <4>1
    <3>2. CASE CheckOwner(t)
      <4>1. /\ rd'[t].run = rd[t].run /\ rd'[t].visitor = rd[t].visitor
            /\ rd'[t].step = "owned" =>
                   /\ rd[t].run \in DOMAIN RUNS
                   /\ RUN_OWNERS[rd[t].run] = rd[t].visitor
            /\ rd'[t].step \in {"owned", "404"}
        BY <3>2 DEF CheckOwner, TypeOK
      <4> QED
        BY <4>1 DEF StoreInv, PendingIffLive, TypeOK
    <3>3. CASE ReadRun(t)
      <4>1. /\ rd'[t].run = rd[t].run /\ rd'[t].visitor = rd[t].visitor
            /\ rd[t].step = "owned"
        BY <3>3 DEF ReadRun, TypeOK
      <4> QED
        BY <4>1 DEF ReadersOwn
    <3> QED
      BY <2>1, <3>1, <3>2, <3>3 DEF Thread
  <2> QED
    BY <2>2, <2>3 DEF ReadersOwn
<1>5. CASE \/ \E v \in Visitors, s \in Sources : RefuseRun(v, s)
           \/ Tick \/ UNCHANGED vars
  <2>1. rd' = rd /\ last' = last /\ req' = req
    BY <1>5 DEF RefuseRun, Tick, vars
  <2> QED
    BY <2>1, <1>1 DEF Admitted
<1> QED
  BY <1>2, <1>3, <1>4, <1>5 DEF Next

\* No answer of get_run, not even a server error, tells a visitor about a run
\* of another one: the three reads are not atomic, but a run's number is
\* never used again and its owner never changes.
THEOREM OnlyOwnerLearnsHolds == Spec => []OnlyOwnerLearns
<1>1. Init => ReadersOwn
  BY DEF Init, ReadersOwn, Idle
<1>2. TypeOK /\ TypeOK' /\ StoreInv /\ ReadersOwn /\ [Next]_vars => ReadersOwn'
  BY ReadersStep
<1>3. ReadersOwn => OnlyOwnerLearns
  BY DEF ReadersOwn, OnlyOwnerLearns
<1> QED
  BY <1>1, <1>2, <1>3, TypeCorrect, StoreInvariant, PTL DEF Spec

-----------------------------------------------------------------------------
(* RunService implements RunLifecycle *)

\* RunLifecycle counts with the Cardinality this module counts with.
LEMMA SameCardinality == \A S : Lifecycle!Cardinality(S) = Cardinality(S)
  BY DEF Lifecycle!Cardinality, Cardinality

\* A stored and trimmed result is an abstract step of its run.
LEMMA StoringShows ==
    ASSUME TypeOK, NEW r \in 1..RunBound,
           NEW D, D = DOMAIN RUNS \cup {r},
           NEW runs \in [D -> Results], NEW owners \in [D -> Visitors],
           \A q \in DOMAIN RUNS : q # r => runs[q] = RUNS[q],
           StoreTrimmed(runs, owners),
           Admitted' = Admitted \cup {r}, Admitted' \subseteq 1..RunBound
    PROVE  Lifecycle!Shows(r, runs[r].status)
<1> DEFINE forgotten == D \ DOMAIN RUNS'
           v == [View EXCEPT ![r] = runs[r].status]
<1>1. /\ DOMAIN RUNS' \subseteq D
      /\ \A q \in DOMAIN RUNS' : RUNS'[q] = runs[q]
      /\ \A g \in forgotten : runs[g].status \notin Pending
      /\ forgotten # {} => Cardinality(DOMAIN RUNS') >= MAX_STORED_RUNS
  BY TrimFacts
<1>2. DOMAIN RUNS \subseteq Admitted /\ D \subseteq 1..RunBound
  BY DEF TypeOK
<1>3. \A q \in D : v[q] = runs[q].status
  BY <1>2 DEF View
<1>4. \A q \in 1..RunBound : q \notin D =>
          v[q] = IF q \in Admitted THEN "gone" ELSE "none"
  BY DEF View
<1>5. \A q \in D : runs[q].status \in Pending \cup {"completed", "failed"}
  BY DEF Results
<1>6. forgotten \in SUBSET (1..RunBound) /\ \A f \in forgotten : v[f] \in Lifecycle!Final
  BY <1>1, <1>2, <1>3, <1>5 DEF Lifecycle!Final
<1>7. Lifecycle!Shown(v) \ forgotten = DOMAIN RUNS'
  <2>1. Lifecycle!Shown(v) = D
    BY <1>2, <1>3, <1>4, <1>5 DEF Lifecycle!Shown, Pending
  <2> QED
    BY <1>1, <2>1
<1>8. View' = [q \in 1..RunBound |-> IF q \in forgotten THEN "gone" ELSE v[q]]
  <2>1. \A q \in 1..RunBound :
            View'[q] = IF q \in forgotten THEN "gone" ELSE v[q]
    <3> SUFFICES ASSUME NEW q \in 1..RunBound
                 PROVE  View'[q] = IF q \in forgotten THEN "gone" ELSE v[q]
      OBVIOUS
    <3>1. CASE q \in DOMAIN RUNS'
      BY <1>1, <1>3, <3>1 DEF View
    <3>2. CASE q \in forgotten
      BY <1>2, <3>2 DEF View
    <3>3. CASE q \notin D
      BY <1>1, <1>4, <3>3 DEF View
    <3> QED
      BY <3>1, <3>2, <3>3
  <2> QED
    BY <2>1 DEF View
<1>9. forgotten # {} =>
          Lifecycle!Cardinality(Lifecycle!Shown(v) \ forgotten) >= MAX_STORED_RUNS
  BY <1>1, <1>7, SameCardinality
<1> HIDE DEF forgotten
<1> QED
  BY <1>6, <1>8, <1>9 DEF Lifecycle!Shows

\* Steps that leave the store and the admitted runs alone are invisible.
LEMMA Invisible ==
    ASSUME RUNS' = RUNS, last' = last
    PROVE  View' = View
  BY DEF View, Admitted

LEMMA CreateAdmits ==
    ASSUME TypeOK, NEW v \in Visitors, NEW s \in Sources, CreateRun(v, s)
    PROVE  Lifecycle!Next
<1> DEFINE r == last + 1
           D == DOMAIN RUNS \cup {r}
           runs == [q \in D |-> IF q = r THEN Running ELSE RUNS[q]]
           owners == [q \in D |-> IF q = r THEN v ELSE RUN_OWNERS[q]]
<1>1. /\ r \in 1..RunBound /\ Admitted' = Admitted \cup {r} /\ r \notin Admitted
      /\ Admitted' \subseteq 1..RunBound
  BY BoundsNat DEF CreateRun, TypeOK, Admitted
<1>2. /\ runs \in [D -> Results] /\ owners \in [D -> Visitors]
      /\ StoreTrimmed(runs, owners)
  <2>1. DOMAIN RUN_OWNERS = DOMAIN RUNS
    BY DEF TypeOK
  <2>2. StoreTrimmed(runs, owners)
    BY <2>1 DEF CreateRun
  <2> QED
    BY <2>2, ResultTypes DEF TypeOK
<1>3. runs[r].status = "running" /\ \A q \in DOMAIN RUNS : q # r => runs[q] = RUNS[q]
  BY DEF Running
<1>4. View[r] = "none"
  BY <1>1 DEF View, TypeOK
<1> HIDE DEF runs, owners
<1>5. Lifecycle!Shows(r, "running")
  BY <1>1, <1>2, <1>3, StoringShows
<1> QED
  BY <1>1, <1>4, <1>5 DEF Lifecycle!Next, Lifecycle!Admit

\* A live run's result replaces one that is stored.
LEMMA ResultShows ==
    ASSUME TypeOK, StoreInv, NEW r \in Admitted, Live(r), NEW result \in Results,
           StoreResult(r, result), last' = last
    PROVE  /\ Lifecycle!Shows(r, result.status)
           /\ r \in 1..RunBound /\ View[r] = RUNS[r].status
<1> DEFINE runs == [RUNS EXCEPT ![r] = result]
<1>1. /\ r \in DOMAIN RUNS /\ DOMAIN RUN_OWNERS = DOMAIN RUNS
      /\ DOMAIN RUNS \cup {r} = DOMAIN RUNS
  BY DEF StoreInv, PendingIffLive, TypeOK
<1>2. /\ r \in 1..RunBound /\ Admitted' = Admitted \cup {r}
      /\ Admitted' \subseteq 1..RunBound
  BY BoundsNat DEF TypeOK, Admitted
<1>3. /\ runs \in [DOMAIN RUNS -> Results] /\ RUN_OWNERS \in [DOMAIN RUNS -> Visitors]
      /\ StoreTrimmed(runs, RUN_OWNERS)
      /\ runs[r] = result
      /\ \A q \in DOMAIN RUNS : q # r => runs[q] = RUNS[q]
  BY <1>1 DEF StoreResult, TypeOK
<1> HIDE DEF runs
<1>4. Lifecycle!Shows(r, runs[r].status)
  BY <1>1, <1>2, <1>3, StoringShows
<1>5. View[r] = RUNS[r].status
  BY <1>1, <1>2 DEF View
<1> QED
  BY <1>2, <1>3, <1>4, <1>5

LEMMA TaskShows ==
    ASSUME TypeOK, StoreInv, NEW r \in Admitted, Task(r)
    PROVE  Lifecycle!Next \/ View' = View
<1> USE DEF Lifecycle!Next
<1>1. CASE \/ Acquire(r) \/ Moves(r, "hub", "origin") \/ Moves(r, "metis", "emit")
  BY <1>1, Invisible DEF Acquire, Moves
<1>2. CASE OriginAnswers(r)
  <2>1. /\ Live(r) /\ pc[r] = "origin" /\ StoreResult(r, Verifying) /\ last' = last
    BY <1>2 DEF OriginAnswers, Live
  <2>2. Verifying \in Results /\ Verifying.status = "verifying"
    BY ResultTypes DEF Verifying
  <2>3. /\ Lifecycle!Shows(r, "verifying")
        /\ r \in 1..RunBound /\ View[r] = RUNS[r].status
    BY <2>1, <2>2, ResultShows
  <2>4. RUNS[r].status = "running"
    BY <2>1 DEF StoreInv, PendingIffLive, Pending
  <2> QED
    BY <2>3, <2>4 DEF Lifecycle!ShowReading
<1>3. CASE Ends(r)
  <2>1. PICK result \in FinalResults :
            /\ result = Completed => pc[r] \in {"metis", "emit"}
            /\ Finish(r, result)
    BY <1>3 DEF Ends
  <2>2. /\ Live(r) /\ StoreResult(r, result) /\ last' = last
    BY <1>3, <2>1 DEF Ends, Finish
  <2>3. result \in Results
    BY FinalStatus
  <2>4. /\ Lifecycle!Shows(r, result.status)
        /\ r \in 1..RunBound /\ View[r] = RUNS[r].status
    BY <2>2, <2>3, ResultShows
  <2>5. CASE result = Completed
    <3>1. result.status = "completed"
      BY <2>5 DEF Completed
    <3>2. RUNS[r].status = "verifying"
      BY <2>1, <2>2, <2>5 DEF StoreInv, PendingIffLive
    <3> QED
      BY <2>4, <3>1, <3>2 DEF Lifecycle!Complete
  <2>6. CASE result # Completed
    <3>1. result.status = "failed"
      BY <2>1, <2>6 DEF FinalResults, Failed
    <3>2. RUNS[r].status \in {"running", "verifying"}
      BY <2>2 DEF StoreInv, PendingIffLive, Pending
    <3> QED
      BY <2>4, <3>1, <3>2 DEF Lifecycle!Fail
  <2> QED
    BY <2>5, <2>6
<1> QED
  BY <1>1, <1>2, <1>3, TaskCases

\* Every behaviour of the service is, seen through its stored statuses, one of
\* the abstract lifecycle: no result goes back, skips a stage or changes once
\* final, and only final results are forgotten, for lack of room.
THEOREM ServiceImplementsLifecycle == Spec => ImplementsLifecycle
<1>1. Init => Lifecycle!Init
  BY DEF Init, Lifecycle!Init, View, Admitted
<1>2. TypeOK /\ StoreInv /\ [Next]_vars => [Lifecycle!Next]_View
  <2> SUFFICES ASSUME TypeOK, StoreInv, [Next]_vars
               PROVE  Lifecycle!Next \/ View' = View
    OBVIOUS
  <2>1. CASE \E v \in Visitors, s \in Sources : CreateRun(v, s)
    BY <2>1, CreateAdmits
  <2>2. CASE \E r \in Admitted : Task(r)
    BY <2>2, TaskShows
  <2>3. CASE \/ \E v \in Visitors, s \in Sources : RefuseRun(v, s)
             \/ \E t \in Readers : Thread(t)
             \/ Tick \/ UNCHANGED vars
    BY <2>3, Invisible DEF RefuseRun, Thread, GetRun, CheckOwner, ReadRun, Tick, vars
  <2> QED
    BY <2>1, <2>2, <2>3 DEF Next
<1> QED
  BY <1>1, <1>2, TypeCorrect, StoreInvariant, PTL
     DEF Spec, ImplementsLifecycle, Lifecycle!Spec

=============================================================================
