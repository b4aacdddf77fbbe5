------------------------ MODULE ProviderCheckProofs ------------------------
(***************************************************************************)
(* Theorems about ProviderCheckApi for every value of its constants.       *)
(***************************************************************************)
EXTENDS ProviderCheckApi, FiniteSetTheorems, TLAPS

\* The steps of the service, sorted by what they do beside charging: most
\* requests only prune, the passing of time does nothing, and every end of
\* an execution is one case.
OnlyPrunes ==
    /\ CHALLENGES' \in {CHALLENGES, Pruned}
    /\ UNCHANGED <<born, SLOTS, task, proofs, posts>>

Uploads(q) ==
    /\ task[q].stage = "idle"
    /\ CHALLENGES' = Pruned
    /\ Cardinality(Kept) < MAX_CHALLENGES
    /\ \E v \in Visitors :
          task' = [task EXCEPT ![q] = Uploading(v)]
    /\ UNCHANGED <<now, born, SLOTS, proofs, posts>>

Starts(q) ==
    \E v \in Visitors, c \in 1..ChallengeBound :
        /\ task[q].stage = "idle"
        /\ Runnable(v, c)
        /\ AttemptsLeft(c)
        /\ SLOTS > 0
        /\ SLOTS' = SLOTS - 1
        /\ CHALLENGES' = [Pruned EXCEPT ![c] = Started(@)]
        /\ task' = [task EXCEPT ![q] =
              [stage |-> "pin", visitor |-> v, chal |-> c, ip |-> NoAddress,
               attempt |-> CHALLENGES[c].attempts + 1, deadline |-> now + CheckTime]]
        /\ UNCHANGED <<now, born, proofs, posts>>

\* An execution ends, with a report exactly when its invoke was dispatched.
Finishes(q) ==
    /\ Executing(q)
    /\ \E report \in {"none"} \cup Verdicts :
          /\ report = "none" <=> task[q].stage # "invoke"
          /\ Ends(q, report)

LEMMA StepCases ==
    ASSUME [Next]_vars
    PROVE  \/ OnlyPrunes
           \/ \E q \in Requests : \/ Uploads(q) \/ UploadFails(q)
                                  \/ CreateChallenge(q) \/ Starts(q)
                                  \/ PinTarget(q) \/ ProofMatches(q)
                                  \/ Finishes(q)
<1>1. CASE \E v \in Visitors, s \in Sources : Request(v, s)
  <2>1. PICK v \in Visitors, s \in Sources : Request(v, s)
    BY <1>1
  <2>2. CASE ChallengeRefused(v, s) \/ ChallengeFull(v, s)
    BY <2>2 DEF ChallengeRefused, ChallengeFull, OnlyPrunes
  <2>3. CASE \E q \in Requests : ChallengeAccepted(q, v, s)
    BY <2>3 DEF ChallengeAccepted, Uploads
  <2>4. CASE \E c \in 1..ChallengeBound : \/ RunAnswered(v, c)
                                          \/ RunOverAllowance(v, s, c)
                                          \/ RunNotStarted(v, s, c)
    BY <2>4 DEF RunAnswered, RunOverAllowance, RunNotStarted, OnlyPrunes
  <2>5. CASE \E c \in 1..ChallengeBound, q \in Requests : RunStarts(q, v, s, c)
    BY <2>5 DEF RunStarts, Starts
  <2> QED
    BY <2>1, <2>2, <2>3, <2>4, <2>5 DEF Request
<1>2. CASE \E q \in Requests : Handler(q)
  <2>1. PICK q \in Requests : Handler(q)
    BY <1>2
  <2>2. CASE Reported(q) \/ CheckRefused(q) \/ Interrupted(q) \/ CheckTimeout(q)
    <3>1. Executing(q) /\ \E report \in {"none"} \cup Verdicts :
             (report = "none" <=> task[q].stage # "invoke") /\ Ends(q, report)
      BY <2>2 DEF Reported, CheckRefused, Interrupted, CheckTimeout, Executing,
                  Checking, Verdicts
    <3> QED
      BY <3>1 DEF Finishes
  <2> QED
    BY <2>1, <2>2 DEF Handler
<1>3. CASE Tick \/ UNCHANGED vars
  BY <1>3 DEF Tick, vars, OnlyPrunes
<1> QED
  BY <1>1, <1>2, <1>3 DEF Next

-----------------------------------------------------------------------------
(* Type correctness *)

LEMMA CountsToN ==
    ASSUME NEW n \in Nat
    PROVE  Cardinality(1..n) = n /\ IsFiniteSet(1..n)
<1>1. 1 \in Int /\ n \in Int
  OBVIOUS
<1>2. /\ IsFiniteSet(1..n)
      /\ Cardinality(1..n) = IF 1 > n THEN 0 ELSE n - 1 + 1
  BY <1>1, FS_Interval
<1> QED
  BY <1>2

\* The positions of both histories are the numbers up to their count.
LEMMA Histories ==
    ASSUME TypeOK
    PROVE  /\ Cardinality(Charges) \in 0..ChargeBound
           /\ Charges = 1..Cardinality(Charges) /\ IsFiniteSet(Charges)
           /\ Cardinality(Issued) \in 0..ChallengeBound
           /\ Issued = 1..Cardinality(Issued) /\ IsFiniteSet(Issued)
<1>1. PICK n \in 0..ChargeBound :
          charged \in [1..n -> [visitor : Visitors, source : Sources, at : 0..MaxTime]]
  BY DEF TypeOK
<1>2. PICK m \in 0..ChallengeBound : born \in [1..m -> 0..MaxTime]
  BY DEF TypeOK
<1>3. n \in Nat /\ m \in Nat /\ Charges = 1..n /\ Issued = 1..m
  BY <1>1, <1>2, NumbersTyped DEF Charges, Issued
<1>4. /\ Cardinality(Charges) = n /\ IsFiniteSet(Charges)
      /\ Cardinality(Issued) = m /\ IsFiniteSet(Issued)
  BY <1>3, CountsToN
<1> QED
  BY <1>1, <1>2, <1>3, <1>4

\* What a step does to the clock and the allowances.
LEMMA ChargeCases ==
    ASSUME [Next]_vars
    PROVE  \/ UNCHANGED <<charged, VISITS>> /\ (now' = now \/ Tick)
           \/ \E v \in Visitors, s \in Sources : Charge(v, s) /\ now' = now
           \/ \E v \in Visitors, s \in Sources : Refuse(v, s) /\ now' = now
<1>1. CASE \E v \in Visitors, s \in Sources : Request(v, s)
  <2>1. PICK v \in Visitors, s \in Sources : Request(v, s)
    BY <1>1
  <2>2. CASE ChallengeRefused(v, s) \/ ChallengeFull(v, s)
    BY <2>2 DEF ChallengeRefused, ChallengeFull
  <2>3. CASE \E q \in Requests : ChallengeAccepted(q, v, s)
    BY <2>3 DEF ChallengeAccepted
  <2>4. CASE \E c \in 1..ChallengeBound : \/ RunAnswered(v, c)
                                          \/ RunOverAllowance(v, s, c)
                                          \/ RunNotStarted(v, s, c)
    BY <2>4 DEF RunAnswered, RunOverAllowance, RunNotStarted
  <2>5. CASE \E c \in 1..ChallengeBound, q \in Requests : RunStarts(q, v, s, c)
    BY <2>5 DEF RunStarts
  <2> QED
    BY <2>1, <2>2, <2>3, <2>4, <2>5 DEF Request
<1>2. CASE \E q \in Requests : Handler(q)
  BY <1>2 DEF Handler, UploadFails, CreateChallenge, PinTarget, ProofMatches,
              Reported, CheckRefused, Interrupted, CheckTimeout, Ends
<1>3. CASE Tick \/ UNCHANGED vars
  BY <1>3 DEF Tick, vars
<1> QED
  BY <1>1, <1>2, <1>3 DEF Next

LEMMA ChargeTypes ==
    ASSUME TypeOK, [Next]_vars
    PROVE  /\ now' \in 0..MaxTime
           /\ \E n \in 0..ChargeBound : charged' \in
                  [1..n -> [visitor : Visitors, source : Sources, at : 0..MaxTime]]
           /\ VISITS' \in [Keys -> SUBSET Charges']
<1>0. /\ now \in 0..MaxTime /\ VISITS \in [Keys -> SUBSET Charges]
      /\ \E n \in 0..ChargeBound : charged \in
             [1..n -> [visitor : Visitors, source : Sources, at : 0..MaxTime]]
      /\ \A k \in Keys : Recent(k) \subseteq Charges
  BY DEF TypeOK, Recent
<1>1. CASE UNCHANGED <<charged, VISITS>> /\ (now' = now \/ Tick)
  <2>1. now' \in 0..MaxTime
    BY <1>0, <1>1, NumbersTyped DEF Tick
  <2> QED
    BY <1>0, <1>1, <2>1 DEF Charges
<1>2. CASE \E v \in Visitors, s \in Sources : Charge(v, s) /\ now' = now
  <2>1. PICK v \in Visitors, s \in Sources : Charge(v, s) /\ now' = now
    BY <1>2
  <2> DEFINE n == Cardinality(Charges) + 1
  <2>2. /\ n \in 0..ChargeBound /\ Charges \subseteq 1..n /\ n \in 1..n
        /\ \A m \in 1..n : m # n => m \in Charges
    <3>1. Cardinality(Charges) \in Nat /\ Charges = 1..Cardinality(Charges)
      BY Histories, NumbersTyped
    <3>2. n <= ChargeBound /\ ChargeBound \in Nat
      BY <2>1, NumbersTyped DEF Charge
    <3> QED
      BY <3>1, <3>2
  <2> DEFINE new == [visitor |-> v, source |-> s, at |-> now]
  <2>3. charged' = [m \in 1..n |-> IF m = n THEN new ELSE charged[m]]
    BY <2>1 DEF Charge
  <2>4. VISITS' = [k \in Keys |-> IF k \in {v, s, Global}
                                  THEN Recent(k) \cup {n} ELSE Recent(k)]
    BY <2>1 DEF Charge
  <2>5. new \in [visitor : Visitors, source : Sources, at : 0..MaxTime]
    BY <1>0
  <2>6. \A m \in Charges : charged[m] \in
            [visitor : Visitors, source : Sources, at : 0..MaxTime]
    BY <1>0 DEF Charges
  <2> HIDE DEF n, new
  <2>7. charged' \in [1..n -> [visitor : Visitors, source : Sources, at : 0..MaxTime]]
    BY <2>2, <2>3, <2>5, <2>6
  <2>8. Charges' = 1..n
    BY <2>3 DEF Charges
  <2>9. VISITS' \in [Keys -> SUBSET (1..n)]
    BY <1>0, <2>2, <2>4
  <2> QED
    BY <1>0, <2>1, <2>2, <2>7, <2>8, <2>9
<1>3. CASE \E v \in Visitors, s \in Sources : Refuse(v, s) /\ now' = now
  BY <1>0, <1>3 DEF Refuse, Charges
<1> QED
  BY <1>1, <1>2, <1>3, ChargeCases

\* Pruning only removes, and never a challenge that is running.
LEMMA PruneFacts ==
    ASSUME TypeOK
    PROVE  /\ Kept \subseteq DOMAIN CHALLENGES
           /\ Kept \subseteq Issued
           /\ DOMAIN Pruned = Kept
           /\ \A c \in Kept : Pruned[c] = CHALLENGES[c]
           /\ Pruned \in [Kept -> Items]
           /\ \A c \in DOMAIN CHALLENGES : CHALLENGES[c].running => c \in Kept
  BY DEF Kept, Pruned, TypeOK

\* What starting a check changes in its item.
LEMMA StartedItem ==
    ASSUME NEW item \in Items, item.attempts < MaxAttempts
    PROVE  /\ Started(item) \in Items
           /\ Started(item).running /\ Started(item).report = item.report
           /\ Started(item).owner = item.owner
           /\ Started(item).expires_at = item.expires_at
           /\ Started(item).attempts = item.attempts + 1
<1>1. item.attempts + 1 \in 0..MaxAttempts
  BY NumbersTyped DEF Items
<1> QED
  BY <1>1 DEF Items, Started

LEMMA InitType == Init => TypeOK
<1> SUFFICES ASSUME Init PROVE TypeOK
  OBVIOUS
<1>1. /\ charged \in [1..0 -> [visitor : Visitors, source : Sources, at : 0..MaxTime]]
      /\ born \in [1..0 -> 0..MaxTime] /\ 0 \in 0..ChargeBound /\ 0 \in 0..ChallengeBound
  BY NumbersTyped DEF Init
<1>2. Idle \in [stage : {"idle", "upload"} \cup Checking, visitor : Visitors \cup {NoVisitor},
               chal : 0..ChallengeBound, attempt : 0..MaxAttempts,
               ip : Public \cup {NoAddress}, deadline : Nat]
  BY NumbersTyped DEF Idle
<1>3. SLOTS \in Nat /\ now \in 0..MaxTime
  BY NumbersTyped DEF Init
<1>4. \A q \in Requests : task[q].stage = "idle"
  BY DEF Init, Idle
<1> QED
  BY <1>1, <1>2, <1>3, <1>4 DEF Init, TypeOK, Executing, Checking, Charges, Issued

LEMMA NextType == TypeOK /\ [Next]_vars => TypeOK'
<1> SUFFICES ASSUME TypeOK, [Next]_vars PROVE TypeOK'
  OBVIOUS
<1> DEFINE Tasks == [stage : {"idle", "upload"} \cup Checking,
                     visitor : Visitors \cup {NoVisitor},
                     chal : 0..ChallengeBound, attempt : 0..MaxAttempts,
                     ip : Public \cup {NoAddress}, deadline : Nat]
           Rest == /\ \E n \in 0..ChallengeBound : born' \in [1..n -> 0..MaxTime]
                   /\ DOMAIN CHALLENGES' \subseteq Issued'
                   /\ CHALLENGES' \in [DOMAIN CHALLENGES' -> Items]
                   /\ SLOTS' \in Nat
                   /\ task' \in [Requests -> Tasks]
                   /\ \A p \in Requests :
                        /\ task'[p].stage = "upload" => task'[p].visitor \in Visitors
                        /\ task'[p].stage \in Checking =>
                               task'[p].chal \in Issued' /\ task'[p].attempt > 0
                        /\ task'[p].stage \in {"proof", "invoke"} => task'[p].ip \in Public
                   /\ proofs' \subseteq [chal : Issued', attempt : 1..MaxAttempts, ip : Public]
                   /\ posts' \subseteq [chal : Issued', attempt : 1..MaxAttempts,
                                        ip : Public, at : 0..MaxTime]
<1>0. /\ now \in 0..MaxTime /\ SLOTS \in Nat
      /\ \E n \in 0..ChallengeBound : born \in [1..n -> 0..MaxTime]
      /\ DOMAIN CHALLENGES \subseteq Issued
      /\ CHALLENGES \in [DOMAIN CHALLENGES -> Items]
      /\ task \in [Requests -> Tasks]
      /\ \A p \in Requests :
           /\ task[p].stage = "upload" => task[p].visitor \in Visitors
           /\ task[p].stage \in Checking => task[p].chal \in Issued /\ task[p].attempt > 0
           /\ task[p].stage \in {"proof", "invoke"} => task[p].ip \in Public
      /\ proofs \subseteq [chal : Issued, attempt : 1..MaxAttempts, ip : Public]
      /\ posts \subseteq [chal : Issued, attempt : 1..MaxAttempts, ip : Public,
                          at : 0..MaxTime]
  BY DEF TypeOK, Executing
<1>a. Idle \in Tasks /\ Idle.stage = "idle" /\ "idle" \notin Checking
  BY NumbersTyped DEF Idle, Checking
<1>b. SUFFICES Rest
  BY ChargeTypes DEF TypeOK, Executing
<1>1. CASE OnlyPrunes
  <2>1. CHALLENGES' \in [DOMAIN CHALLENGES' -> Items] /\ DOMAIN CHALLENGES' \subseteq Issued
    BY <1>0, <1>1, PruneFacts DEF OnlyPrunes
  <2> QED
    BY <1>0, <1>1, <2>1 DEF OnlyPrunes, Issued
<1>2. ASSUME NEW q \in Requests, Uploads(q)
      PROVE  Rest
  <2>1. CHALLENGES' \in [DOMAIN CHALLENGES' -> Items] /\ DOMAIN CHALLENGES' \subseteq Issued
    BY <1>2, PruneFacts DEF Uploads
  <2>2. PICK v \in Visitors : task' =
            [task EXCEPT ![q] = Uploading(v)]
    BY <1>2 DEF Uploads
  <2>3. /\ Uploading(v) \in Tasks
        /\ Uploading(v).stage = "upload" /\ Uploading(v).visitor = v
    BY NumbersTyped DEF Uploading
  <2>4. /\ task'[q].stage = "upload" /\ task'[q].visitor \in Visitors
        /\ \A p \in Requests \ {q} : task'[p] = task[p]
    BY <1>0, <2>2, <2>3
  <2>5. task' \in [Requests -> Tasks]
    BY <1>0, <2>2, <2>3
  <2> QED
    BY <1>0, <1>2, <2>1, <2>4, <2>5 DEF Uploads, Issued, Checking
<1>3. ASSUME NEW q \in Requests, UploadFails(q)
      PROVE  Rest
  <2>1. /\ task' \in [Requests -> Tasks] /\ task'[q].stage = "idle"
        /\ \A p \in Requests \ {q} : task'[p] = task[p]
    BY <1>0, <1>a, <1>3 DEF UploadFails
  <2> QED
    BY <1>0, <1>3, <2>1 DEF UploadFails, Issued, Checking
<1>4. ASSUME NEW q \in Requests, CreateChallenge(q)
      PROVE  Rest
  <2> DEFINE n == Cardinality(Issued) + 1
             D == DOMAIN CHALLENGES \cup {n}
             new == [owner |-> task[q].visitor, expires_at |-> now + TTL,
                     running |-> FALSE, report |-> "none", attempts |-> 0]
  <2>1. /\ n \in 0..ChallengeBound /\ n \in 1..n /\ Issued \subseteq 1..n
        /\ \A d \in 1..n : d # n => d \in Issued
    <3>1. Cardinality(Issued) \in Nat /\ Issued = 1..Cardinality(Issued)
      BY Histories, NumbersTyped
    <3>2. n <= ChallengeBound /\ ChallengeBound \in Nat
      BY <1>4, NumbersTyped DEF CreateChallenge
    <3> QED
      BY <3>1, <3>2
  <2>2. /\ born' = [d \in 1..n |-> IF d = n THEN now ELSE born[d]]
        /\ CHALLENGES' = [d \in D |-> IF d = n THEN new ELSE CHALLENGES[d]]
        /\ task' = [task EXCEPT ![q] = Idle]
        /\ UNCHANGED <<SLOTS, proofs, posts>>
    BY <1>4 DEF CreateChallenge
  <2>3. new \in Items
    <3>1. task[q].stage = "upload" /\ task[q].visitor \in Visitors
      BY <1>0, <1>4 DEF CreateChallenge
    <3>2. now + TTL \in Nat
      BY <1>0, NumbersTyped
    <3> QED
      BY <3>1, <3>2, NumbersTyped DEF Items
  <2>4. \A d \in Issued : born[d] \in 0..MaxTime
    BY <1>0 DEF Issued
  <2> HIDE DEF n, new
  <2>5. born' \in [1..n -> 0..MaxTime] /\ Issued' = 1..n
    BY <1>0, <2>1, <2>2, <2>4 DEF Issued
  <2>6. CHALLENGES' \in [D -> Items] /\ D \subseteq 1..n
    BY <1>0, <2>1, <2>2, <2>3
  <2>7. /\ task' \in [Requests -> Tasks] /\ task'[q].stage = "idle"
        /\ \A p \in Requests \ {q} : task'[p] = task[p]
    BY <1>0, <1>a, <2>2
  <2> HIDE DEF D
  <2> QED
    BY <1>0, <2>1, <2>2, <2>5, <2>6, <2>7 DEF Checking
<1>5. ASSUME NEW q \in Requests, Starts(q)
      PROVE  Rest
  <2>1. PICK v \in Visitors, c \in 1..ChallengeBound :
          /\ c \in Kept /\ SLOTS > 0 /\ SLOTS' = SLOTS - 1
          /\ CHALLENGES[c].attempts < MaxAttempts
          /\ CHALLENGES' = [Pruned EXCEPT ![c] = Started(@)]
          /\ task' = [task EXCEPT ![q] =
                [stage |-> "pin", visitor |-> v, chal |-> c, ip |-> NoAddress,
                 attempt |-> CHALLENGES[c].attempts + 1, deadline |-> now + CheckTime]]
    BY <1>5 DEF Starts, Runnable, AttemptsLeft
  <2>2. UNCHANGED <<born, proofs, posts>>
    BY <1>5 DEF Starts
  <2>3. /\ CHALLENGES[c] \in Items /\ c \in Issued
        /\ CHALLENGES[c].attempts \in 0..MaxAttempts
    BY <2>1, PruneFacts, <1>0 DEF Items
  <2>4. CHALLENGES[c].attempts + 1 \in 1..MaxAttempts
    BY <2>1, <2>3, NumbersTyped
  <2>5. CHALLENGES' \in [Kept -> Items]
    <3>1. Started(CHALLENGES[c]) \in Items
      BY <2>1, <2>3, StartedItem
    <3>2. CHALLENGES' = [Pruned EXCEPT ![c] = Started(CHALLENGES[c])]
      BY <2>1, PruneFacts
    <3> QED
      BY <3>1, <3>2, PruneFacts
  <2>6. now + CheckTime \in Nat /\ SLOTS - 1 \in Nat
    BY <1>0, <2>1, NumbersTyped
  <2>7. /\ task' \in [Requests -> Tasks]
        /\ task'[q].stage = "pin" /\ task'[q].chal \in Issued /\ task'[q].attempt > 0
        /\ \A p \in Requests \ {q} : task'[p] = task[p]
    <3> DEFINE new == [stage |-> "pin", visitor |-> v, chal |-> c, ip |-> NoAddress,
                       attempt |-> CHALLENGES[c].attempts + 1,
                       deadline |-> now + CheckTime]
    <3>1. new \in Tasks /\ new.stage = "pin" /\ new.chal = c /\ new.attempt > 0
      BY <2>4, <2>6, NumbersTyped DEF Checking
    <3>2. task' = [task EXCEPT ![q] = new]
      BY <2>1
    <3> HIDE DEF new, Tasks
    <3> QED
      BY <1>0, <2>3, <3>1, <3>2
  <2> QED
    BY <1>0, <2>1, <2>2, <2>5, <2>6, <2>7, PruneFacts DEF Issued
<1>6. ASSUME NEW q \in Requests, PinTarget(q)
      PROVE  Rest
  <2>1. PICK ip \in Public : task' = [task EXCEPT ![q].stage = "proof", ![q].ip = ip]
    BY <1>6 DEF PinTarget, Accepts
  <2>2. /\ task[q].stage = "pin"
        /\ UNCHANGED <<born, CHALLENGES, SLOTS, proofs, posts>>
    BY <1>6 DEF PinTarget
  <2>3. /\ task' \in [Requests -> Tasks]
        /\ task'[q].stage = "proof" /\ task'[q].ip \in Public
        /\ task'[q].chal = task[q].chal /\ task'[q].attempt = task[q].attempt
        /\ \A p \in Requests \ {q} : task'[p] = task[p]
    BY <1>0, <2>1 DEF Checking
  <2> QED
    BY <1>0, <2>2, <2>3 DEF Issued, Checking
<1>7. ASSUME NEW q \in Requests, ProofMatches(q)
      PROVE  Rest
  <2>1. /\ task[q].stage = "proof" /\ task' = [task EXCEPT ![q].stage = "invoke"]
        /\ proofs' = proofs \cup {[chal |-> task[q].chal, attempt |-> task[q].attempt,
                                   ip |-> task[q].ip]}
        /\ posts' = posts \cup {[chal |-> task[q].chal, attempt |-> task[q].attempt,
                                 ip |-> task[q].ip, at |-> now]}
        /\ UNCHANGED <<born, CHALLENGES, SLOTS>>
    BY <1>7 DEF ProofMatches
  <2>2. /\ task[q].chal \in Issued /\ task[q].attempt \in 1..MaxAttempts
        /\ task[q].ip \in Public
    BY <1>0, <2>1, NumbersTyped DEF Checking
  <2>3. /\ task' \in [Requests -> Tasks]
        /\ task'[q].stage = "invoke" /\ task'[q].ip = task[q].ip
        /\ task'[q].chal = task[q].chal /\ task'[q].attempt = task[q].attempt
        /\ \A p \in Requests \ {q} : task'[p] = task[p]
    BY <1>0, <2>1 DEF Checking
  <2> QED
    BY <1>0, <2>1, <2>2, <2>3 DEF Issued, Checking
<1>8. ASSUME NEW q \in Requests, Finishes(q)
      PROVE  Rest
  <2>1. PICK report \in {"none"} \cup Verdicts : Ends(q, report)
    BY <1>8 DEF Finishes
  <2>2. CHALLENGES' \in [DOMAIN CHALLENGES -> Items]
    BY <1>0, <2>1 DEF Ends, Items
  <2>3. /\ task' \in [Requests -> Tasks] /\ task'[q].stage = "idle"
        /\ \A p \in Requests \ {q} : task'[p] = task[p]
    BY <1>0, <1>a, <2>1 DEF Ends
  <2> QED
    BY <1>0, <2>1, <2>2, <2>3 DEF Ends, Issued, Checking
<1> QED
  BY <1>1, <1>2, <1>3, <1>4, <1>5, <1>6, <1>7, <1>8, StepCases

\* Every reachable state of the provider check is well typed, and no
\* challenge gets a fourth attempt, for every instance.
THEOREM TypeCorrect == Spec => []TypeOK
<1>1. Init => TypeOK
  BY InitType
<1>2. TypeOK /\ [Next]_vars => TypeOK'
  BY NextType
<1> QED
  BY <1>1, <1>2, PTL DEF Spec

-----------------------------------------------------------------------------
(* What the steps that matter change, as facts to cite *)

LEMMA CreateFacts ==
    ASSUME TypeOK, NEW q \in Requests, CreateChallenge(q)
    PROVE  \E c \in Nat :
              /\ c \notin Issued /\ Issued' = Issued \cup {c}
              /\ born'[c] = now /\ \A d \in Issued : born'[d] = born[d]
              /\ DOMAIN CHALLENGES' = DOMAIN CHALLENGES \cup {c}
              /\ \A d \in DOMAIN CHALLENGES : CHALLENGES'[d] = CHALLENGES[d]
              /\ CHALLENGES'[c].expires_at = now + TTL
              /\ ~CHALLENGES'[c].running /\ CHALLENGES'[c].report = "none"
              /\ task[q].stage = "upload" /\ task' = [task EXCEPT ![q] = Idle]
<1> DEFINE c == Cardinality(Issued) + 1
<1>0. DOMAIN CHALLENGES \subseteq Issued
  BY DEF TypeOK
<1>1. Cardinality(Issued) \in Nat /\ Issued = 1..Cardinality(Issued)
  BY Histories, NumbersTyped
<1>2. c \in Nat /\ c \notin Issued /\ 1..c = Issued \cup {c}
  <2>1. PICK n \in Nat : n = Cardinality(Issued) /\ Issued = 1..n
    BY <1>1
  <2>2. n + 1 \in Nat /\ n + 1 \notin 1..n /\ 1..(n + 1) = 1..n \cup {n + 1}
    OBVIOUS
  <2> QED
    BY <2>1, <2>2
<1>3. /\ born' = [d \in 1..c |-> IF d = c THEN now ELSE born[d]]
      /\ task[q].stage = "upload" /\ task' = [task EXCEPT ![q] = Idle]
  BY DEF CreateChallenge
<1>4. Issued' = 1..c
  BY <1>3 DEF Issued
<1>5. CHALLENGES' = [d \in DOMAIN CHALLENGES \cup {c} |->
          IF d = c THEN [owner |-> task[q].visitor, expires_at |-> now + TTL,
                         running |-> FALSE, report |-> "none", attempts |-> 0]
          ELSE CHALLENGES[d]]
  BY DEF CreateChallenge
<1>6. c \notin DOMAIN CHALLENGES
  BY <1>0, <1>2
<1> HIDE DEF c
<1>7. /\ born'[c] = now /\ \A d \in Issued : born'[d] = born[d]
      /\ Issued' = Issued \cup {c}
  BY <1>2, <1>3, <1>4
<1>8. /\ DOMAIN CHALLENGES' = DOMAIN CHALLENGES \cup {c}
      /\ \A d \in DOMAIN CHALLENGES : CHALLENGES'[d] = CHALLENGES[d]
      /\ CHALLENGES'[c].expires_at = now + TTL
      /\ ~CHALLENGES'[c].running /\ CHALLENGES'[c].report = "none"
  BY <1>5, <1>6
<1> QED
  BY <1>2, <1>3, <1>7, <1>8

LEMMA StartFacts ==
    ASSUME TypeOK, NEW q \in Requests, Starts(q)
    PROVE  \E c \in Kept :
              /\ ~CHALLENGES[c].running /\ CHALLENGES[c].report = "none"
              /\ DOMAIN CHALLENGES' = Kept
              /\ \A d \in Kept \ {c} : CHALLENGES'[d] = CHALLENGES[d]
              /\ CHALLENGES'[c].running /\ CHALLENGES'[c].report = "none"
              /\ CHALLENGES'[c].expires_at = CHALLENGES[c].expires_at
              /\ task[q].stage = "idle"
              /\ task'[q].stage = "pin" /\ task'[q].chal = c
              /\ \A p \in Requests \ {q} : task'[p] = task[p]
              /\ SLOTS' = SLOTS - 1 /\ UNCHANGED <<born, proofs, posts>>
<1>1. PICK v \in Visitors, c \in 1..ChallengeBound :
          /\ task[q].stage = "idle"
          /\ c \in Kept /\ ~CHALLENGES[c].running /\ CHALLENGES[c].report = "none"
          /\ CHALLENGES[c].attempts < MaxAttempts
          /\ SLOTS' = SLOTS - 1
          /\ CHALLENGES' = [Pruned EXCEPT ![c] = Started(@)]
          /\ task' = [task EXCEPT ![q] =
                [stage |-> "pin", visitor |-> v, chal |-> c, ip |-> NoAddress,
                 attempt |-> CHALLENGES[c].attempts + 1, deadline |-> now + CheckTime]]
          /\ UNCHANGED <<born, proofs, posts>>
  BY DEF Starts, Runnable, AttemptsLeft
<1>2. CHALLENGES[c] \in Items
  BY <1>1, PruneFacts
<1>3. CHALLENGES' = [Pruned EXCEPT ![c] = Started(CHALLENGES[c])]
  BY <1>1, PruneFacts
<1>4. /\ DOMAIN CHALLENGES' = Kept /\ CHALLENGES'[c] = Started(CHALLENGES[c])
      /\ \A d \in Kept \ {c} : CHALLENGES'[d] = CHALLENGES[d]
  BY <1>1, <1>3, PruneFacts
<1>5. /\ CHALLENGES'[c].running /\ CHALLENGES'[c].report = "none"
      /\ CHALLENGES'[c].expires_at = CHALLENGES[c].expires_at
  BY <1>1, <1>2, <1>4, StartedItem
<1>6. /\ task'[q].stage = "pin" /\ task'[q].chal = c
      /\ \A p \in Requests \ {q} : task'[p] = task[p]
  <2>1. DOMAIN task = Requests
    BY DEF TypeOK
  <2> QED
    BY <1>1, <2>1
<1> QED
  BY <1>1, <1>4, <1>5, <1>6

LEMMA FinishFacts ==
    ASSUME TypeOK, NEW q \in Requests, Finishes(q),
           task[q].chal \in DOMAIN CHALLENGES
    PROVE  LET c == task[q].chal
           IN  /\ Executing(q)
               /\ DOMAIN CHALLENGES' = DOMAIN CHALLENGES
               /\ \A d \in DOMAIN CHALLENGES \ {c} : CHALLENGES'[d] = CHALLENGES[d]
               /\ ~CHALLENGES'[c].running
               /\ CHALLENGES'[c].expires_at = CHALLENGES[c].expires_at
               /\ CHALLENGES'[c].report = "none" <=> task[q].stage # "invoke"
               /\ task'[q].stage = "idle"
               /\ \A p \in Requests \ {q} : task'[p] = task[p]
               /\ SLOTS' = SLOTS + 1 /\ UNCHANGED <<born, proofs, posts>>
<1> DEFINE c == task[q].chal
<1>1. PICK report \in {"none"} \cup Verdicts :
          /\ report = "none" <=> task[q].stage # "invoke"
          /\ Ends(q, report)
  BY DEF Finishes
<1>2. /\ CHALLENGES' = [CHALLENGES EXCEPT ![c].running = FALSE, ![c].report = report]
      /\ task' = [task EXCEPT ![q] = Idle] /\ SLOTS' = SLOTS + 1
      /\ UNCHANGED <<born, proofs, posts>>
  BY <1>1 DEF Ends
<1>3. CHALLENGES[c] \in Items
  BY DEF TypeOK
<1>4. /\ DOMAIN CHALLENGES' = DOMAIN CHALLENGES
      /\ \A d \in DOMAIN CHALLENGES \ {c} : CHALLENGES'[d] = CHALLENGES[d]
      /\ CHALLENGES'[c].running = FALSE
      /\ CHALLENGES'[c].expires_at = CHALLENGES[c].expires_at
      /\ CHALLENGES'[c].report = report
  BY <1>2, <1>3 DEF Items
<1>5. /\ task'[q].stage = "idle"
      /\ \A p \in Requests \ {q} : task'[p] = task[p]
  <2>1. DOMAIN task = Requests
    BY DEF TypeOK
  <2> QED
    BY <1>2, <2>1 DEF Idle
<1> QED
  BY <1>1, <1>2, <1>4, <1>5 DEF Finishes

\* A handler moves from one stage of its execution to the next.
LEMMA MoveFacts ==
    ASSUME TypeOK, NEW q \in Requests, PinTarget(q) \/ ProofMatches(q)
    PROVE  /\ task'[q].chal = task[q].chal
           /\ PinTarget(q) => task[q].stage = "pin" /\ task'[q].stage = "proof"
           /\ ProofMatches(q) => task[q].stage = "proof" /\ task'[q].stage = "invoke"
           /\ \A p \in Requests \ {q} : task'[p] = task[p]
           /\ CHALLENGES' = CHALLENGES /\ SLOTS' = SLOTS /\ born' = born
<1>1. task \in [Requests -> [stage : {"idle", "upload"} \cup Checking,
                             visitor : Visitors \cup {NoVisitor},
                             chal : 0..ChallengeBound, attempt : 0..MaxAttempts,
                             ip : Public \cup {NoAddress}, deadline : Nat]]
  BY DEF TypeOK
<1>2. CASE PinTarget(q)
  <2>1. PICK ip \in Public : task' = [task EXCEPT ![q].stage = "proof", ![q].ip = ip]
    BY <1>2 DEF PinTarget, Accepts
  <2>2. /\ task[q].stage = "pin" /\ ~ProofMatches(q)
        /\ CHALLENGES' = CHALLENGES /\ SLOTS' = SLOTS /\ born' = born
    BY <1>2 DEF PinTarget, ProofMatches
  <2>3. /\ task'[q].chal = task[q].chal /\ task'[q].stage = "proof"
        /\ \A p \in Requests \ {q} : task'[p] = task[p]
    BY <1>1, <2>1
  <2> QED
    BY <2>2, <2>3
<1>3. CASE ProofMatches(q)
  BY <1>1, <1>3 DEF PinTarget, ProofMatches
<1> QED
  BY <1>2, <1>3

\* Handlers that only take in a body.
LEMMA UploadFacts ==
    ASSUME TypeOK, NEW q \in Requests, Uploads(q) \/ UploadFails(q)
    PROVE  /\ task[q].stage \in {"idle", "upload"}
           /\ task'[q].stage \in {"idle", "upload"}
           /\ \A p \in Requests \ {q} : task'[p] = task[p]
           /\ CHALLENGES' \in {CHALLENGES, Pruned}
           /\ UNCHANGED <<born, SLOTS, proofs, posts>>
<1>1. DOMAIN task = Requests
  BY DEF TypeOK
<1> QED
  BY <1>1 DEF Uploads, UploadFails, Uploading, Idle

-----------------------------------------------------------------------------
(* One invoke per challenge *)

\* An execution has not reported yet, and an invoke of a stored challenge is
\* either reported or still in flight.  So a challenge about to be invoked,
\* which its only execution holds unreported, has no invoke yet.
Unreported ==
    \A q \in Requests : Executing(q) => CHALLENGES[task[q].chal].report = "none"

InFlight(c) == \E q \in Requests : task[q].stage = "invoke" /\ task[q].chal = c

InvokeAccounted ==
    \A p \in posts : p.chal \in DOMAIN CHALLENGES =>
        CHALLENGES[p.chal].report # "none" \/ InFlight(p.chal)

CheckInv == RunningIffExecuting /\ Unreported /\ InvokeAccounted /\ AtMostOneInvoke

LEMMA CheckPruned ==
    ASSUME TypeOK, CheckInv, CHALLENGES' \in {CHALLENGES, Pruned}, posts' = posts,
           \A q \in Requests : task'[q] = task[q] \/
               {task[q].stage, task'[q].stage} \subseteq {"idle", "upload"}
    PROVE  CheckInv'
<1>1. /\ DOMAIN CHALLENGES' \subseteq DOMAIN CHALLENGES
      /\ \A c \in DOMAIN CHALLENGES' : CHALLENGES'[c] = CHALLENGES[c]
      /\ \A c \in DOMAIN CHALLENGES : CHALLENGES[c].running => c \in DOMAIN CHALLENGES'
  BY PruneFacts
<1>2. /\ \A q \in Requests : Executing(q)' <=> Executing(q)
      /\ \A q \in Requests : Executing(q) => task'[q] = task[q]
      /\ \A q \in Requests : task[q].stage = "invoke" => task'[q] = task[q]
  BY DEF Executing, Checking
<1>3. RunningIffExecuting' /\ Unreported'
  BY <1>1, <1>2 DEF CheckInv, RunningIffExecuting, Unreported
<1>4. InvokeAccounted' /\ AtMostOneInvoke'
  BY <1>1, <1>2 DEF CheckInv, InvokeAccounted, InFlight, AtMostOneInvoke
<1> QED
  BY <1>3, <1>4 DEF CheckInv

LEMMA CheckCreates ==
    ASSUME TypeOK, CheckInv, NEW q \in Requests, CreateChallenge(q)
    PROVE  CheckInv'
<1>1. PICK c \in Nat :
         /\ c \notin Issued
         /\ DOMAIN CHALLENGES' = DOMAIN CHALLENGES \cup {c}
         /\ \A d \in DOMAIN CHALLENGES : CHALLENGES'[d] = CHALLENGES[d]
         /\ ~CHALLENGES'[c].running
         /\ task[q].stage = "upload" /\ task' = [task EXCEPT ![q] = Idle]
  BY CreateFacts
<1>2. /\ posts' = posts /\ DOMAIN CHALLENGES \subseteq Issued
      /\ \A p \in posts : p.chal \in Issued
      /\ DOMAIN task = Requests
  BY DEF CreateChallenge, TypeOK
<1>3. /\ task'[q].stage = "idle"
      /\ \A p \in Requests \ {q} : task'[p] = task[p]
  BY <1>1, <1>2 DEF Idle
<1>4. /\ \A p \in Requests : Executing(p)' <=> Executing(p)
      /\ \A p \in Requests : Executing(p) => task'[p] = task[p]
      /\ \A p \in Requests : task[p].stage = "invoke" => task'[p] = task[p]
  BY <1>1, <1>3 DEF Executing, Checking
<1>5. RunningIffExecuting' /\ Unreported'
  BY <1>1, <1>2, <1>4 DEF CheckInv, RunningIffExecuting, Unreported
<1>6. InvokeAccounted' /\ AtMostOneInvoke'
  BY <1>1, <1>2, <1>4 DEF CheckInv, InvokeAccounted, InFlight, AtMostOneInvoke
<1> QED
  BY <1>5, <1>6 DEF CheckInv

LEMMA CheckStarts ==
    ASSUME TypeOK, CheckInv, NEW q \in Requests, Starts(q)
    PROVE  CheckInv'
<1>1. PICK c \in Kept :
         /\ ~CHALLENGES[c].running /\ CHALLENGES[c].report = "none"
         /\ DOMAIN CHALLENGES' = Kept
         /\ \A d \in Kept \ {c} : CHALLENGES'[d] = CHALLENGES[d]
         /\ CHALLENGES'[c].running /\ CHALLENGES'[c].report = "none"
         /\ task[q].stage = "idle"
         /\ task'[q].stage = "pin" /\ task'[q].chal = c
         /\ \A p \in Requests \ {q} : task'[p] = task[p]
         /\ posts' = posts
  BY StartFacts
<1>2. /\ \A p \in Requests \ {q} : Executing(p)' <=> Executing(p)
      /\ ~Executing(q) /\ Executing(q)'
      /\ \A p \in Requests \ {q} : Executing(p) => task[p].chal # c
  BY <1>1 DEF Executing, Checking, CheckInv, RunningIffExecuting
<1>3. /\ Kept \subseteq DOMAIN CHALLENGES
      /\ \A d \in DOMAIN CHALLENGES : CHALLENGES[d].running => d \in Kept
  BY PruneFacts
<1>4. RunningIffExecuting'
  BY <1>1, <1>2, <1>3 DEF CheckInv, RunningIffExecuting
<1>5. Unreported'
  BY <1>1, <1>2, <1>3 DEF CheckInv, RunningIffExecuting, Unreported
<1>6. \A d : InFlight(d) => InFlight(d)'
  BY <1>1 DEF InFlight
<1>7. InvokeAccounted' /\ AtMostOneInvoke'
  BY <1>1, <1>3, <1>6 DEF CheckInv, InvokeAccounted, AtMostOneInvoke
<1> QED
  BY <1>4, <1>5, <1>7 DEF CheckInv

LEMMA CheckMoves ==
    ASSUME TypeOK, CheckInv, NEW q \in Requests, PinTarget(q) \/ ProofMatches(q)
    PROVE  CheckInv'
<1>1. /\ task'[q].chal = task[q].chal
      /\ \A p \in Requests \ {q} : task'[p] = task[p]
      /\ CHALLENGES' = CHALLENGES
      /\ task[q].stage \in {"pin", "proof"} /\ task'[q].stage \in {"proof", "invoke"}
  BY MoveFacts
<1>2. /\ \A p \in Requests : Executing(p)' <=> Executing(p)
      /\ \A p \in Requests : task'[p].chal = task[p].chal
      /\ Executing(q)
  BY <1>1 DEF Executing, Checking
<1>3. RunningIffExecuting' /\ Unreported'
  BY <1>1, <1>2 DEF CheckInv, RunningIffExecuting, Unreported
<1>4. \A d : InFlight(d) => InFlight(d)'
  BY <1>1 DEF InFlight
<1>5. CASE PinTarget(q)
  <2>1. posts' = posts
    BY <1>5 DEF PinTarget
  <2> QED
    BY <1>1, <1>3, <1>4, <2>1 DEF CheckInv, InvokeAccounted, AtMostOneInvoke
<1>6. CASE ProofMatches(q)
  <2> DEFINE new == [chal |-> task[q].chal, attempt |-> task[q].attempt,
                     ip |-> task[q].ip, at |-> now]
  <2>1. posts' = posts \cup {new} /\ new.chal = task[q].chal
    BY <1>6 DEF ProofMatches
  <2> HIDE DEF new
  <2>2. task'[q].stage = "invoke" /\ task[q].stage = "proof"
    BY <1>6, MoveFacts
  <2>3. ~InFlight(task[q].chal)
    BY <1>2, <2>2 DEF CheckInv, RunningIffExecuting, InFlight, Executing, Checking
  <2>4. \A p \in posts : p.chal # task[q].chal
    BY <1>2, <2>3 DEF CheckInv, RunningIffExecuting, Unreported, InvokeAccounted
  <2>5. AtMostOneInvoke'
    BY <2>1, <2>4 DEF CheckInv, AtMostOneInvoke
  <2>6. InFlight(task[q].chal)'
    BY <1>1, <2>2 DEF InFlight
  <2>7. InvokeAccounted'
    BY <1>1, <1>4, <2>1, <2>6 DEF CheckInv, InvokeAccounted
  <2> QED
    BY <1>3, <2>5, <2>7 DEF CheckInv
<1> QED
  BY <1>5, <1>6

LEMMA CheckFinishes ==
    ASSUME TypeOK, CheckInv, NEW q \in Requests, Finishes(q)
    PROVE  CheckInv'
<1> DEFINE c == task[q].chal
<1>1. Executing(q) /\ c \in DOMAIN CHALLENGES
  BY DEF Finishes, CheckInv, RunningIffExecuting
<1>2. /\ DOMAIN CHALLENGES' = DOMAIN CHALLENGES
      /\ \A d \in DOMAIN CHALLENGES \ {c} : CHALLENGES'[d] = CHALLENGES[d]
      /\ ~CHALLENGES'[c].running
      /\ CHALLENGES'[c].report = "none" <=> task[q].stage # "invoke"
      /\ task'[q].stage = "idle"
      /\ \A p \in Requests \ {q} : task'[p] = task[p]
      /\ posts' = posts
  BY <1>1, FinishFacts
<1> HIDE DEF c
<1>3. /\ \A p \in Requests \ {q} : Executing(p)' <=> Executing(p)
      /\ ~Executing(q)'
      /\ \A p \in Requests \ {q} : Executing(p) => task[p].chal # c
  BY <1>1, <1>2 DEF Executing, Checking, CheckInv, RunningIffExecuting, c
<1>4. RunningIffExecuting'
  BY <1>1, <1>2, <1>3 DEF CheckInv, RunningIffExecuting, c
<1>5. Unreported'
  BY <1>1, <1>2, <1>3 DEF CheckInv, RunningIffExecuting, Unreported
<1>6. InvokeAccounted'
  <2> SUFFICES ASSUME NEW p \in posts, p.chal \in DOMAIN CHALLENGES,
                      CHALLENGES'[p.chal].report = "none"
               PROVE  InFlight(p.chal)'
    BY <1>2 DEF InvokeAccounted
  <2>1. CASE p.chal = c
    <3>1. task[q].stage # "invoke" /\ CHALLENGES[c].report = "none"
      BY <1>1, <1>2, <2>1 DEF CheckInv, Unreported, c
    <3>2. PICK r \in Requests : task[r].stage = "invoke" /\ task[r].chal = c
      BY <2>1, <3>1 DEF CheckInv, InvokeAccounted, InFlight
    <3> QED
      BY <1>1, <3>1, <3>2 DEF CheckInv, RunningIffExecuting, Executing, Checking, c
  <2>2. CASE p.chal # c
    <3>1. PICK r \in Requests : task[r].stage = "invoke" /\ task[r].chal = p.chal
      BY <1>2, <2>2 DEF CheckInv, InvokeAccounted, InFlight
    <3> QED
      BY <1>2, <2>2, <3>1 DEF InFlight, c
  <2> QED
    BY <2>1, <2>2
<1>7. AtMostOneInvoke'
  BY <1>2 DEF CheckInv, AtMostOneInvoke
<1> QED
  BY <1>4, <1>5, <1>6, <1>7 DEF CheckInv

LEMMA CheckInvStep == TypeOK /\ CheckInv /\ [Next]_vars => CheckInv'
<1> SUFFICES ASSUME TypeOK, CheckInv, [Next]_vars PROVE CheckInv'
  OBVIOUS
<1>1. CASE OnlyPrunes
  BY <1>1, CheckPruned DEF OnlyPrunes
<1>2. CASE \E q \in Requests : Uploads(q) \/ UploadFails(q)
  <2>1. PICK q \in Requests : Uploads(q) \/ UploadFails(q)
    BY <1>2
  <2> QED
    BY <2>1, UploadFacts, CheckPruned
<1> QED
  BY <1>1, <1>2, StepCases, CheckCreates, CheckStarts, CheckMoves, CheckFinishes

LEMMA CheckInvInit == Init => CheckInv
<1> SUFFICES ASSUME Init PROVE CheckInv
  OBVIOUS
<1>1. posts = {} /\ DOMAIN CHALLENGES = {} /\ \A q \in Requests : ~Executing(q)
  BY DEF Init, Executing, Checking, Idle
<1> QED
  BY <1>1 DEF CheckInv, RunningIffExecuting, Unreported, InvokeAccounted, AtMostOneInvoke

LEMMA CheckInvHolds == Spec => []CheckInv
<1>1. Init => CheckInv
  BY CheckInvInit
<1>2. TypeOK /\ CheckInv /\ [Next]_vars => CheckInv'
  BY CheckInvStep
<1> QED
  BY <1>1, <1>2, TypeCorrect, PTL DEF Spec

\* No challenge ever causes a second invoke of the provider, whatever the
\* attempts, timeouts and cancellations of any number of handlers.
THEOREM InvokedAtMostOnce == Spec => []AtMostOneInvoke
<1>1. CheckInv => AtMostOneInvoke
  BY DEF CheckInv
<1> QED
  BY <1>1, CheckInvHolds, PTL

\* The mark of a running check is exact: one handler works on it, and it is
\* not pruned meanwhile.
THEOREM RunningIsExact == Spec => []RunningIffExecuting
<1>1. CheckInv => RunningIffExecuting
  BY DEF CheckInv
<1> QED
  BY <1>1, CheckInvHolds, PTL

-----------------------------------------------------------------------------
(* The invoke goes where the proof came from, and before the expiry *)

\* What run_check compares is the challenge's own lifetime.
ExpiryOK == \A c \in DOMAIN CHALLENGES : CHALLENGES[c].expires_at = born[c] + TTL

ProvenInv == ExpiryOK /\ InvokeProven

LEMMA ProvenInvStep ==
    TypeOK /\ TypeOK' /\ CheckInv /\ ProvenInv /\ [Next]_vars => ProvenInv'
<1> SUFFICES ASSUME TypeOK, TypeOK', CheckInv, ProvenInv, [Next]_vars PROVE ProvenInv'
  OBVIOUS
<1>0. /\ DOMAIN CHALLENGES \subseteq Issued
      /\ \A p \in posts : p.chal \in Issued
      /\ \A q \in Requests : Executing(q) => task[q].chal \in DOMAIN CHALLENGES
  BY DEF TypeOK, CheckInv, RunningIffExecuting
<1>1. ASSUME CHALLENGES' \in {CHALLENGES, Pruned}, UNCHANGED <<born, proofs, posts>>
      PROVE  ProvenInv'
  <2>1. ExpiryOK'
    BY <1>1, PruneFacts DEF ProvenInv, ExpiryOK
  <2>2. InvokeProven'
    BY <1>1 DEF ProvenInv, InvokeProven
  <2> QED
    BY <2>1, <2>2 DEF ProvenInv
<1>2. ASSUME NEW q \in Requests, CreateChallenge(q)
      PROVE  ProvenInv'
  <2>1. PICK c \in Nat :
          /\ c \notin Issued
          /\ born'[c] = now /\ \A d \in Issued : born'[d] = born[d]
          /\ DOMAIN CHALLENGES' = DOMAIN CHALLENGES \cup {c}
          /\ \A d \in DOMAIN CHALLENGES : CHALLENGES'[d] = CHALLENGES[d]
          /\ CHALLENGES'[c].expires_at = now + TTL
    BY <1>2, CreateFacts
  <2>2. proofs' = proofs /\ posts' = posts
    BY <1>2 DEF CreateChallenge
  <2>3. ExpiryOK'
    BY <1>0, <2>1 DEF ProvenInv, ExpiryOK
  <2>4. InvokeProven'
    BY <1>0, <2>1, <2>2 DEF ProvenInv, InvokeProven
  <2> QED
    BY <2>3, <2>4 DEF ProvenInv
<1>3. ASSUME NEW q \in Requests, Starts(q)
      PROVE  ProvenInv'
  <2>1. PICK c \in Kept :
          /\ DOMAIN CHALLENGES' = Kept
          /\ \A d \in Kept \ {c} : CHALLENGES'[d] = CHALLENGES[d]
          /\ CHALLENGES'[c].expires_at = CHALLENGES[c].expires_at
          /\ UNCHANGED <<born, proofs, posts>>
    BY <1>3, StartFacts
  <2>2. ExpiryOK'
    BY <2>1, PruneFacts DEF ProvenInv, ExpiryOK
  <2>3. InvokeProven'
    BY <2>1 DEF ProvenInv, InvokeProven
  <2> QED
    BY <2>2, <2>3 DEF ProvenInv
<1>4. ASSUME NEW q \in Requests, ProofMatches(q)
      PROVE  ProvenInv'
  <2> DEFINE c == task[q].chal
             seen == [chal |-> c, attempt |-> task[q].attempt, ip |-> task[q].ip]
             new == [chal |-> c, attempt |-> task[q].attempt, ip |-> task[q].ip,
                     at |-> now]
  <2>1. /\ task[q].stage = "proof" /\ CHALLENGES[c].expires_at >= now
        /\ proofs' = proofs \cup {seen} /\ posts' = posts \cup {new}
        /\ CHALLENGES' = CHALLENGES /\ born' = born
    BY <1>4 DEF ProofMatches
  <2>2. ExpiryOK'
    BY <2>1 DEF ProvenInv, ExpiryOK
  <2>3. born[c] + TTL >= now /\ now \in Nat /\ task[q].ip \in Public
    <3>1. c \in DOMAIN CHALLENGES
      BY <1>0, <2>1 DEF Executing, Checking
    <3>2. now \in Nat /\ task[q].ip \in Public
      BY <2>1, NumbersTyped DEF TypeOK
    <3> QED
      BY <2>1, <3>1, <3>2 DEF ProvenInv, ExpiryOK
  <2>4. born[c] \in Nat
    <3>1. c \in Issued
      BY <2>1 DEF TypeOK, Executing, Checking
    <3>2. PICK n \in 0..ChallengeBound : born \in [1..n -> 0..MaxTime]
      BY DEF TypeOK
    <3>3. born[c] \in 0..MaxTime
      BY <3>1, <3>2 DEF Issued
    <3> QED
      BY <3>3, NumbersTyped
  <2>5. /\ [chal |-> new.chal, attempt |-> new.attempt, ip |-> new.ip] \in proofs'
        /\ new.ip \in Public /\ new.at <= born'[new.chal] + TTL
    BY <2>1, <2>3, <2>4, NumbersTyped
  <2> HIDE DEF new, seen, c
  <2>6. InvokeProven'
    BY <2>1, <2>5 DEF ProvenInv, InvokeProven
  <2> QED
    BY <2>2, <2>6 DEF ProvenInv
<1>5. ASSUME NEW q \in Requests, Finishes(q)
      PROVE  ProvenInv'
  <2>1. /\ DOMAIN CHALLENGES' = DOMAIN CHALLENGES
        /\ \A d \in DOMAIN CHALLENGES : CHALLENGES'[d].expires_at = CHALLENGES[d].expires_at
        /\ UNCHANGED <<born, proofs, posts>>
    BY <1>0, <1>5, FinishFacts DEF Finishes
  <2> QED
    BY <2>1 DEF ProvenInv, ExpiryOK, InvokeProven
<1>6. ASSUME NEW q \in Requests, Uploads(q) \/ UploadFails(q) \/ PinTarget(q)
      PROVE  ProvenInv'
  <2>1. CHALLENGES' \in {CHALLENGES, Pruned} /\ UNCHANGED <<born, proofs, posts>>
    BY <1>6 DEF Uploads, UploadFails, PinTarget
  <2> QED
    BY <1>1, <2>1
<1>7. CASE OnlyPrunes
  BY <1>1, <1>7 DEF OnlyPrunes
<1> QED
  BY <1>2, <1>3, <1>4, <1>5, <1>6, <1>7, StepCases

\* Every invoke goes to the public address that served the token in the same
\* attempt, within the challenge's lifetime, for every DNS and every delay.
THEOREM InvokesAreProven == Spec => []InvokeProven
<1>1. Init => ProvenInv
  <2> SUFFICES ASSUME Init PROVE ProvenInv
    OBVIOUS
  <2>1. posts = {} /\ DOMAIN CHALLENGES = {}
    BY DEF Init
  <2> QED
    BY <2>1 DEF ProvenInv, ExpiryOK, InvokeProven
<1>2. TypeOK /\ TypeOK' /\ CheckInv /\ ProvenInv /\ [Next]_vars => ProvenInv'
  BY ProvenInvStep
<1>3. ProvenInv => InvokeProven
  BY DEF ProvenInv
<1> QED
  BY <1>1, <1>2, <1>3, TypeCorrect, CheckInvHolds, PTL DEF Spec

-----------------------------------------------------------------------------
(* Slots *)

Executions == {q \in Requests : Executing(q)}

LEMMA ExecutionsFinite == IsFiniteSet(Executions) /\ Cardinality(Executions) \in Nat
<1>1. Executions \in SUBSET Requests
  BY DEF Executions
<1>2. IsFiniteSet(Executions)
  BY <1>1, FS_Subset, RequestsFinite
<1> QED
  BY <1>2, FS_CardinalityType

LEMMA SlotsStep == TypeOK /\ CheckInv /\ SlotsAccounted /\ [Next]_vars => SlotsAccounted'
<1> SUFFICES ASSUME TypeOK, CheckInv, SlotsAccounted, [Next]_vars PROVE SlotsAccounted'
  OBVIOUS
<1>0. SLOTS + Cardinality(Executions) = MaxChecks /\ SLOTS \in Nat
  BY DEF SlotsAccounted, Executions, TypeOK
<1> SUFFICES SLOTS' + Cardinality(Executions') = MaxChecks
  BY DEF SlotsAccounted, Executions
<1>1. ASSUME SLOTS' = SLOTS, \A q \in Requests : Executing(q)' <=> Executing(q)
      PROVE  SLOTS' + Cardinality(Executions') = MaxChecks
  <2>1. Executions' = Executions
    BY <1>1 DEF Executions
  <2> QED
    BY <1>0, <1>1, <2>1
<1>2. ASSUME NEW q \in Requests, Starts(q)
      PROVE  SLOTS' + Cardinality(Executions') = MaxChecks
  <2>1. /\ task[q].stage = "idle" /\ task'[q].stage = "pin" /\ SLOTS' = SLOTS - 1
        /\ \A p \in Requests \ {q} : task'[p] = task[p]
    BY <1>2, StartFacts
  <2>2. q \notin Executions /\ Executions' = Executions \cup {q}
    BY <2>1 DEF Executions, Executing, Checking
  <2>3. Cardinality(Executions \cup {q}) = Cardinality(Executions) + 1
    BY <2>2, ExecutionsFinite, FS_AddElement
  <2> QED
    BY <1>0, <2>1, <2>2, <2>3, ExecutionsFinite
<1>3. ASSUME NEW q \in Requests, Finishes(q)
      PROVE  SLOTS' + Cardinality(Executions') = MaxChecks
  <2>1. Executing(q) /\ task[q].chal \in DOMAIN CHALLENGES
    BY <1>3 DEF Finishes, CheckInv, RunningIffExecuting
  <2>2. /\ task'[q].stage = "idle" /\ SLOTS' = SLOTS + 1
        /\ \A p \in Requests \ {q} : task'[p] = task[p]
    BY <1>3, <2>1, FinishFacts
  <2>3. q \in Executions /\ Executions' = Executions \ {q}
    BY <2>1, <2>2 DEF Executions, Executing, Checking
  <2>4. Cardinality(Executions \ {q}) = Cardinality(Executions) - 1
    BY <2>3, ExecutionsFinite, FS_RemoveElement
  <2> QED
    BY <1>0, <2>2, <2>3, <2>4, ExecutionsFinite
<1>4. ASSUME NEW q \in Requests, PinTarget(q) \/ ProofMatches(q)
      PROVE  SLOTS' + Cardinality(Executions') = MaxChecks
  <2>1. /\ SLOTS' = SLOTS /\ \A p \in Requests \ {q} : task'[p] = task[p]
        /\ {task[q].stage, task'[q].stage} \subseteq Checking
    BY <1>4, MoveFacts DEF Checking
  <2> QED
    BY <1>1, <2>1 DEF Executing
<1>5. ASSUME NEW q \in Requests, Uploads(q) \/ UploadFails(q)
      PROVE  SLOTS' + Cardinality(Executions') = MaxChecks
  <2>1. /\ SLOTS' = SLOTS /\ \A p \in Requests \ {q} : task'[p] = task[p]
        /\ {task[q].stage, task'[q].stage} \subseteq {"idle", "upload"}
    BY <1>5, UploadFacts
  <2> QED
    BY <1>1, <2>1 DEF Executing, Checking
<1>6. ASSUME NEW q \in Requests, CreateChallenge(q)
      PROVE  SLOTS' + Cardinality(Executions') = MaxChecks
  <2>1. /\ SLOTS' = SLOTS /\ task[q].stage = "upload"
        /\ task' = [task EXCEPT ![q] = Idle] /\ DOMAIN task = Requests
    BY <1>6 DEF CreateChallenge, TypeOK
  <2> QED
    BY <1>1, <2>1 DEF Executing, Checking, Idle
<1>7. CASE OnlyPrunes
  BY <1>1, <1>7 DEF OnlyPrunes, Executing
<1> QED
  BY <1>2, <1>3, <1>4, <1>5, <1>6, <1>7, StepCases

\* No end of an execution loses or invents a slot, for every MaxChecks and
\* any number of handlers.
THEOREM SlotsAreAccounted == Spec => []SlotsAccounted
<1>1. Init => SlotsAccounted
  <2> SUFFICES ASSUME Init PROVE SlotsAccounted
    OBVIOUS
  <2>1. {q \in Requests : Executing(q)} = {}
    BY DEF Init, Executing, Checking, Idle
  <2>2. Cardinality({}) = 0 /\ SLOTS = MaxChecks /\ MaxChecks \in Nat
    BY FS_EmptySet, NumbersTyped DEF Init
  <2>3. SLOTS + Cardinality({}) = MaxChecks
    BY <2>2
  <2> QED
    BY <2>1, <2>3 DEF SlotsAccounted
<1>2. TypeOK /\ CheckInv /\ SlotsAccounted /\ [Next]_vars => SlotsAccounted'
  BY SlotsStep
<1> QED
  BY <1>1, <1>2, TypeCorrect, CheckInvHolds, PTL DEF Spec

-----------------------------------------------------------------------------
(* Reports are final *)

LEMMA ReportKept ==
    ASSUME TypeOK, CheckInv, [Next]_vars,
           NEW c \in DOMAIN CHALLENGES, c \in DOMAIN CHALLENGES',
           CHALLENGES[c].report # "none"
    PROVE  CHALLENGES'[c].report = CHALLENGES[c].report
<1>0. DOMAIN CHALLENGES \subseteq Issued
  BY DEF TypeOK
<1>1. CASE CHALLENGES' \in {CHALLENGES, Pruned}
  BY <1>1, PruneFacts
<1>2. ASSUME NEW q \in Requests, CreateChallenge(q)
      PROVE  CHALLENGES'[c].report = CHALLENGES[c].report
  BY <1>2, CreateFacts
<1>3. ASSUME NEW q \in Requests, Starts(q)
      PROVE  CHALLENGES'[c].report = CHALLENGES[c].report
  BY <1>3, StartFacts
<1>4. ASSUME NEW q \in Requests, Finishes(q)
      PROVE  CHALLENGES'[c].report = CHALLENGES[c].report
  <2>1. Executing(q) /\ task[q].chal \in DOMAIN CHALLENGES /\ task[q].chal # c
    BY <1>4 DEF Finishes, CheckInv, RunningIffExecuting, Unreported
  <2> QED
    BY <1>4, <2>1, FinishFacts
<1>5. ASSUME NEW q \in Requests,
             Uploads(q) \/ UploadFails(q) \/ PinTarget(q) \/ ProofMatches(q)
      PROVE  CHALLENGES'[c].report = CHALLENGES[c].report
  BY <1>1, <1>5 DEF Uploads, UploadFails, PinTarget, ProofMatches
<1> QED
  BY <1>1, <1>2, <1>3, <1>4, <1>5, StepCases DEF OnlyPrunes

\* A repeated run request is answered with the first report, for as long as
\* its challenge is kept.
THEOREM ReportsAreStable == Spec => ReportStable
<1>1. TypeOK /\ CheckInv /\ [Next]_vars =>
          [\A c \in DOMAIN CHALLENGES \cap DOMAIN CHALLENGES' :
              CHALLENGES[c].report # "none" =>
                  CHALLENGES'[c].report = CHALLENGES[c].report]_vars
  BY ReportKept
<1> QED
  BY <1>1, TypeCorrect, CheckInvHolds, PTL DEF Spec, ReportStable

-----------------------------------------------------------------------------
(* How far the store can exceed its capacity *)

Uploaders == {q \in Requests : task[q].stage = "upload"}

\* A handler awaiting its body has a place promised that no item shows yet.
PlacesPromised ==
    Cardinality(DOMAIN CHALLENGES) + Cardinality(Uploaders)
        <= MAX_CHALLENGES - 1 + Cardinality(Requests)

LEMMA CapacityTypes ==
    ASSUME TypeOK
    PROVE  /\ IsFiniteSet(DOMAIN CHALLENGES) /\ Cardinality(DOMAIN CHALLENGES) \in Nat
           /\ IsFiniteSet(Uploaders) /\ Cardinality(Uploaders) \in Nat
           /\ Cardinality(Requests) \in Nat
           /\ Cardinality(Uploaders) <= Cardinality(Requests)
           /\ Cardinality(Kept) \in Nat
           /\ Cardinality(Kept) <= Cardinality(DOMAIN CHALLENGES)
<1>1. DOMAIN CHALLENGES \in SUBSET Issued /\ IsFiniteSet(Issued)
  BY Histories DEF TypeOK
<1>2. IsFiniteSet(DOMAIN CHALLENGES)
  BY <1>1, FS_Subset
<1>3. Uploaders \in SUBSET Requests
  BY DEF Uploaders
<1>4. IsFiniteSet(Uploaders) /\ Cardinality(Uploaders) <= Cardinality(Requests)
  BY <1>3, FS_Subset, RequestsFinite
<1>5. Kept \in SUBSET DOMAIN CHALLENGES
  BY PruneFacts
<1>6. IsFiniteSet(Kept) /\ Cardinality(Kept) <= Cardinality(DOMAIN CHALLENGES)
  BY <1>2, <1>5, FS_Subset
<1> QED
  BY <1>2, <1>4, <1>6, FS_CardinalityType, RequestsFinite

LEMMA PlacesStep ==
    TypeOK /\ TypeOK' /\ CheckInv /\ PlacesPromised /\ [Next]_vars => PlacesPromised'
<1> SUFFICES ASSUME TypeOK, TypeOK', CheckInv, PlacesPromised, [Next]_vars
             PROVE  PlacesPromised'
  OBVIOUS
<1>0. /\ Cardinality(DOMAIN CHALLENGES) + Cardinality(Uploaders)
             <= MAX_CHALLENGES - 1 + Cardinality(Requests)
      /\ MAX_CHALLENGES \in Nat
  BY NumbersTyped DEF PlacesPromised
<1> SUFFICES Cardinality(DOMAIN CHALLENGES') + Cardinality(Uploaders')
                 <= MAX_CHALLENGES - 1 + Cardinality(Requests)
  BY DEF PlacesPromised
<1> DEFINE Goal == Cardinality(DOMAIN CHALLENGES') + Cardinality(Uploaders')
                       <= MAX_CHALLENGES - 1 + Cardinality(Requests)
<1>1. ASSUME DOMAIN CHALLENGES' \in {DOMAIN CHALLENGES, Kept},
             Uploaders' \subseteq Uploaders
      PROVE  Goal
  <2>1. Cardinality(DOMAIN CHALLENGES') <= Cardinality(DOMAIN CHALLENGES)
    BY <1>1, CapacityTypes
  <2>2. IsFiniteSet(Uploaders') /\ Cardinality(Uploaders') <= Cardinality(Uploaders)
    <3>1. Uploaders' \in SUBSET Uploaders
      BY <1>1
    <3> QED
      BY <3>1, CapacityTypes, FS_Subset
  <2>3. Cardinality(Uploaders') \in Nat /\ Cardinality(DOMAIN CHALLENGES') \in Nat
    <3>1. Cardinality(Uploaders') \in Nat
      BY <2>2, FS_CardinalityType
    <3> QED
      BY <1>1, <3>1, CapacityTypes
  <2> QED
    BY <1>0, <2>1, <2>2, <2>3, CapacityTypes
<1>2. ASSUME NEW q \in Requests, Uploads(q)
      PROVE  Goal
  <2>1. DOMAIN CHALLENGES' = Kept /\ Cardinality(Kept) < MAX_CHALLENGES
    BY <1>2, PruneFacts DEF Uploads
  <2>2. IsFiniteSet(Uploaders') /\ Cardinality(Uploaders') <= Cardinality(Requests)
    <3>1. Uploaders' \in SUBSET Requests
      BY DEF Uploaders
    <3> QED
      BY <3>1, FS_Subset, RequestsFinite
  <2>3. Cardinality(Uploaders') \in Nat
    BY <2>2, FS_CardinalityType
  <2> QED
    BY <1>0, <2>1, <2>2, <2>3, CapacityTypes
<1>3. ASSUME NEW q \in Requests, CreateChallenge(q)
      PROVE  Goal
  <2>1. PICK c \in Nat : /\ c \notin Issued
                         /\ DOMAIN CHALLENGES' = DOMAIN CHALLENGES \cup {c}
                         /\ task[q].stage = "upload"
                         /\ task' = [task EXCEPT ![q] = Idle]
    BY <1>3, CreateFacts
  <2>2. DOMAIN task = Requests /\ c \notin DOMAIN CHALLENGES
    BY <2>1 DEF TypeOK
  <2>3. q \in Uploaders /\ Uploaders' = Uploaders \ {q}
    BY <2>1, <2>2 DEF Uploaders, Idle
  <2>4. Cardinality(Uploaders') = Cardinality(Uploaders) - 1
    BY <2>3, CapacityTypes, FS_RemoveElement
  <2>5. Cardinality(DOMAIN CHALLENGES') = Cardinality(DOMAIN CHALLENGES) + 1
    BY <2>1, <2>2, CapacityTypes, FS_AddElement
  <2> QED
    BY <1>0, <2>4, <2>5, CapacityTypes
<1>4. ASSUME NEW q \in Requests, Starts(q)
      PROVE  Goal
  <2>1. DOMAIN CHALLENGES' = Kept /\ task'[q].stage = "pin"
        /\ \A p \in Requests \ {q} : task'[p] = task[p]
    BY <1>4, StartFacts
  <2> QED
    BY <1>1, <2>1 DEF Uploaders
<1>5. ASSUME NEW q \in Requests, PinTarget(q) \/ ProofMatches(q)
      PROVE  Goal
  <2>1. /\ DOMAIN CHALLENGES' = DOMAIN CHALLENGES
        /\ task'[q].stage \in {"proof", "invoke"}
        /\ \A p \in Requests \ {q} : task'[p] = task[p]
    BY <1>5, MoveFacts
  <2> QED
    BY <1>1, <2>1 DEF Uploaders
<1>6. ASSUME NEW q \in Requests, Finishes(q)
      PROVE  Goal
  <2>1. task[q].chal \in DOMAIN CHALLENGES
    BY <1>6 DEF Finishes, CheckInv, RunningIffExecuting
  <2>2. /\ DOMAIN CHALLENGES' = DOMAIN CHALLENGES /\ task'[q].stage = "idle"
        /\ \A p \in Requests \ {q} : task'[p] = task[p]
    BY <1>6, <2>1, FinishFacts
  <2> QED
    BY <1>1, <2>2 DEF Uploaders
<1>7. ASSUME NEW q \in Requests, UploadFails(q)
      PROVE  Goal
  <2>1. /\ CHALLENGES' = CHALLENGES /\ DOMAIN task = Requests
        /\ task' = [task EXCEPT ![q] = Idle]
    BY <1>7 DEF UploadFails, TypeOK
  <2> QED
    BY <1>1, <2>1 DEF Uploaders, Idle
<1>8. CASE OnlyPrunes
  BY <1>1, <1>8, PruneFacts DEF OnlyPrunes, Uploaders
<1> QED
  BY <1>2, <1>3, <1>4, <1>5, <1>6, <1>7, <1>8, StepCases

\* The store exceeds its capacity by less than the handlers that can wait
\* for a body at one time.
THEOREM OvershootIsBounded == Spec => []OvershootBounded
<1>1. Init => PlacesPromised
  <2> SUFFICES ASSUME Init PROVE PlacesPromised
    OBVIOUS
  <2>1. DOMAIN CHALLENGES = {} /\ Uploaders = {}
    BY DEF Init, Uploaders, Idle
  <2>2. Cardinality({}) = 0 /\ Cardinality(Requests) \in Nat
    BY FS_EmptySet, FS_CardinalityType, RequestsFinite
  <2> QED
    BY <2>1, <2>2, NumbersTyped DEF PlacesPromised
<1>2. TypeOK /\ TypeOK' /\ CheckInv /\ PlacesPromised /\ [Next]_vars => PlacesPromised'
  BY PlacesStep
<1>3. TypeOK /\ PlacesPromised => OvershootBounded
  BY CapacityTypes, NumbersTyped DEF PlacesPromised, OvershootBounded
<1> QED
  BY <1>1, <1>2, <1>3, TypeCorrect, CheckInvHolds, PTL DEF Spec

-----------------------------------------------------------------------------
(* The provider check implements OneInvoke *)

\* The course of one challenge, apart from the others.
Course(c) ==
    IF c \notin Issued THEN "none"
    ELSE IF c \notin DOMAIN CHALLENGES THEN "gone"
    ELSE IF CHALLENGES[c].report # "none" THEN "reported"
    ELSE IF InFlight(c) THEN "invoking" ELSE "open"

LEMMA ViewIsCourse == View = [c \in 1..ChallengeBound |-> Course(c)]
  BY DEF View, Course, InFlight

LEMMA ViewIsCourseAfter == View' = [c \in 1..ChallengeBound |-> Course(c)']
  BY DEF View, Course, InFlight

\* A step that moves one challenge.
LEMMA OneMoves ==
    ASSUME NEW c \in 1..ChallengeBound, NEW from, NEW to,
           Course(c) = from, Course(c)' = to,
           \A d \in 1..ChallengeBound : d # c => Course(d)' = Course(d)
    PROVE  Promise!Moves(c, from, to)
<1>1. View[c] = from
  BY ViewIsCourse
<1>2. View' = [View EXCEPT ![c] = to]
  BY ViewIsCourse, ViewIsCourseAfter
<1> QED
  BY <1>1, <1>2 DEF Promise!Moves

LEMMA NoneMoves ==
    ASSUME \A d \in 1..ChallengeBound : Course(d)' = Course(d)
    PROVE  View' = View
  BY ViewIsCourse, ViewIsCourseAfter

\* A step that at most prunes, and whose handlers keep their invokes.
LEMMA PrunedForgets ==
    ASSUME TypeOK, CheckInv, Issued' = Issued,
           DOMAIN CHALLENGES' \in {DOMAIN CHALLENGES, Kept},
           \A c \in DOMAIN CHALLENGES' : CHALLENGES'[c].report = CHALLENGES[c].report,
           \A c : InFlight(c)' <=> InFlight(c)
    PROVE  Promise!Next
<1> DEFINE gone == DOMAIN CHALLENGES \ DOMAIN CHALLENGES'
<1>1. /\ DOMAIN CHALLENGES' \subseteq DOMAIN CHALLENGES
      /\ DOMAIN CHALLENGES \subseteq Issued /\ Issued \subseteq 1..ChallengeBound
  <2>1. Cardinality(Issued) \in 0..ChallengeBound /\ Issued = 1..Cardinality(Issued)
    BY Histories
  <2>2. Issued \subseteq 1..ChallengeBound
    BY <2>1, NumbersTyped
  <2> QED
    BY <2>2, PruneFacts DEF TypeOK
<1>2. \A c \in gone : ~CHALLENGES[c].running /\ ~InFlight(c)
  <2> SUFFICES ASSUME NEW c \in gone PROVE ~CHALLENGES[c].running /\ ~InFlight(c)
    OBVIOUS
  <2>1. ~CHALLENGES[c].running
    BY PruneFacts
  <2>2. ~InFlight(c)
    BY <2>1 DEF InFlight, CheckInv, RunningIffExecuting, Executing, Checking
  <2> QED
    BY <2>1, <2>2
<1>3. \A c \in gone : View[c] \in {"open", "reported"}
  BY <1>1, <1>2, ViewIsCourse DEF Course
<1>4. View' = [c \in 1..ChallengeBound |-> IF c \in gone THEN "gone" ELSE View[c]]
  <2>1. \A c \in 1..ChallengeBound :
            Course(c)' = IF c \in gone THEN "gone" ELSE Course(c)
    BY <1>1 DEF Course
  <2>2. \A c \in 1..ChallengeBound : View[c] = Course(c)
    BY ViewIsCourse
  <2> QED
    BY <2>1, <2>2, ViewIsCourseAfter
<1>5. gone \in SUBSET (1..ChallengeBound)
  BY <1>1
<1> HIDE DEF gone
<1>6. Promise!Forget(gone)
  BY <1>3, <1>4 DEF Promise!Forget
<1> QED
  BY <1>5, <1>6 DEF Promise!Next

LEMMA CreateIssues ==
    ASSUME TypeOK, TypeOK', CheckInv, NEW q \in Requests, CreateChallenge(q)
    PROVE  Promise!Next
<1>1. PICK c \in Nat :
         /\ c \notin Issued /\ Issued' = Issued \cup {c}
         /\ DOMAIN CHALLENGES' = DOMAIN CHALLENGES \cup {c}
         /\ \A d \in DOMAIN CHALLENGES : CHALLENGES'[d] = CHALLENGES[d]
         /\ CHALLENGES'[c].report = "none"
         /\ task[q].stage = "upload" /\ task' = [task EXCEPT ![q] = Idle]
  BY CreateFacts
<1>2. DOMAIN task = Requests /\ DOMAIN CHALLENGES \subseteq Issued
  BY DEF TypeOK
<1>3. \A d : InFlight(d)' <=> InFlight(d)
  BY <1>1, <1>2 DEF InFlight, Idle
<1>4. ~InFlight(c)
  BY <1>1, <1>2 DEF InFlight, CheckInv, RunningIffExecuting, Executing, Checking
<1>5. c \in 1..ChallengeBound
  <2>1. Cardinality(Issued') \in 0..ChallengeBound /\ Issued' = 1..Cardinality(Issued')
    <3>1. PICK m \in 0..ChallengeBound : born' \in [1..m -> 0..MaxTime]
      BY DEF TypeOK
    <3>2. m \in Nat /\ Issued' = 1..m
      BY <3>1, NumbersTyped DEF Issued
    <3> QED
      BY <3>1, <3>2, CountsToN
  <2>2. c \in Issued'
    BY <1>1
  <2>3. Cardinality(Issued') \in Nat
    BY <2>1, NumbersTyped
  <2>4. c \in 1..Cardinality(Issued')
    BY <2>1, <2>2
  <2> QED
    BY <2>1, <2>3, <2>4, NumbersTyped
<1>6. Course(c) = "none" /\ Course(c)' = "open"
  BY <1>1, <1>3, <1>4 DEF Course
<1>7. \A d \in 1..ChallengeBound : d # c => Course(d)' = Course(d)
  BY <1>1, <1>3 DEF Course
<1>8. Promise!Issue(c)
  BY <1>5, <1>6, <1>7, OneMoves DEF Promise!Issue
<1> QED
  BY <1>5, <1>8 DEF Promise!Next

LEMMA MatchInvokes ==
    ASSUME TypeOK, CheckInv, NEW q \in Requests, ProofMatches(q)
    PROVE  Promise!Next
<1>0. PICK c : c = task[q].chal
  OBVIOUS
<1>1. /\ task'[q].chal = c /\ task[q].stage = "proof" /\ task'[q].stage = "invoke"
      /\ \A p \in Requests \ {q} : task'[p] = task[p]
      /\ CHALLENGES' = CHALLENGES /\ Issued' = Issued
  BY <1>0, MoveFacts DEF Issued
<1>2. Executing(q)
  BY <1>1 DEF Executing, Checking
<1>3. /\ c \in DOMAIN CHALLENGES /\ c \in Issued /\ c \in 1..ChallengeBound
      /\ CHALLENGES[c].report = "none"
  <2>1. c \in DOMAIN CHALLENGES /\ CHALLENGES[c].report = "none"
    BY <1>0, <1>2 DEF CheckInv, RunningIffExecuting, Unreported
  <2>2. c \in Issued
    BY <2>1 DEF TypeOK
  <2>3. Cardinality(Issued) \in 0..ChallengeBound /\ Issued = 1..Cardinality(Issued)
    BY Histories
  <2>4. Issued \subseteq 1..ChallengeBound
    BY <2>3, NumbersTyped
  <2> QED
    BY <2>1, <2>2, <2>4
<1>4. ~InFlight(c) /\ InFlight(c)'
  BY <1>0, <1>1, <1>2 DEF InFlight, CheckInv, RunningIffExecuting, Executing, Checking
<1>5. \A d : d # c => (InFlight(d)' <=> InFlight(d))
  BY <1>0, <1>1 DEF InFlight
<1>6. Course(c) = "open" /\ Course(c)' = "invoking"
  BY <1>1, <1>3, <1>4 DEF Course
<1>7. \A d \in 1..ChallengeBound : d # c => Course(d)' = Course(d)
  BY <1>1, <1>5 DEF Course
<1>8. Promise!Invoke(c)
  BY <1>3, <1>6, <1>7, OneMoves DEF Promise!Invoke
<1> QED
  BY <1>3, <1>8 DEF Promise!Next

LEMMA FinishReports ==
    ASSUME TypeOK, CheckInv, NEW q \in Requests, Finishes(q)
    PROVE  Promise!Next \/ View' = View
<1>0. PICK c : c = task[q].chal
  OBVIOUS
<1>1. /\ Executing(q) /\ c \in DOMAIN CHALLENGES /\ CHALLENGES[c].report = "none"
  BY <1>0 DEF Finishes, CheckInv, RunningIffExecuting, Unreported
<1>2. /\ DOMAIN CHALLENGES' = DOMAIN CHALLENGES /\ Issued' = Issued
      /\ \A d \in DOMAIN CHALLENGES \ {c} : CHALLENGES'[d] = CHALLENGES[d]
      /\ CHALLENGES'[c].report = "none" <=> task[q].stage # "invoke"
      /\ task'[q].stage = "idle"
      /\ \A p \in Requests \ {q} : task'[p] = task[p]
  BY <1>0, <1>1, FinishFacts DEF Issued
<1>3. \A d : d # c => (InFlight(d)' <=> InFlight(d))
  BY <1>0, <1>2 DEF InFlight
<1>4. /\ InFlight(c) <=> task[q].stage = "invoke"
      /\ ~InFlight(c)'
  BY <1>0, <1>1, <1>2 DEF InFlight, CheckInv, RunningIffExecuting, Executing, Checking
<1>5. c \in Issued /\ c \in 1..ChallengeBound
  <2>1. c \in Issued
    BY <1>1 DEF TypeOK
  <2>2. Cardinality(Issued) \in 0..ChallengeBound /\ Issued = 1..Cardinality(Issued)
    BY Histories
  <2>3. Issued \subseteq 1..ChallengeBound
    BY <2>2, NumbersTyped
  <2> QED
    BY <2>1, <2>3
<1>6. \A d \in 1..ChallengeBound : d # c => Course(d)' = Course(d)
  BY <1>2, <1>3 DEF Course
<1>7. CASE task[q].stage = "invoke"
  <2>1. Course(c) = "invoking" /\ Course(c)' = "reported"
    BY <1>1, <1>2, <1>4, <1>5, <1>7 DEF Course
  <2>2. Promise!Report(c)
    BY <1>5, <1>6, <2>1, OneMoves DEF Promise!Report
  <2> QED
    BY <1>5, <2>2 DEF Promise!Next
<1>8. CASE task[q].stage # "invoke"
  <2>1. Course(c) = "open" /\ Course(c)' = "open"
    BY <1>1, <1>2, <1>4, <1>5, <1>8 DEF Course
  <2> QED
    BY <1>6, <2>1, NoneMoves
<1> QED
  BY <1>7, <1>8

LEMMA StepKeepsPromise ==
    TypeOK /\ TypeOK' /\ CheckInv /\ [Next]_vars => Promise!Next \/ View' = View
<1> SUFFICES ASSUME TypeOK, TypeOK', CheckInv, [Next]_vars
             PROVE  Promise!Next \/ View' = View
  OBVIOUS
<1>1. CASE OnlyPrunes
  <2>1. \A c : InFlight(c)' <=> InFlight(c)
    BY <1>1 DEF OnlyPrunes, InFlight
  <2> QED
    BY <1>1, <2>1, PruneFacts, PrunedForgets DEF OnlyPrunes, Issued
<1>2. ASSUME NEW q \in Requests, Uploads(q) \/ UploadFails(q)
      PROVE  Promise!Next
  <2>1. /\ {task[q].stage, task'[q].stage} \subseteq {"idle", "upload"}
        /\ \A p \in Requests \ {q} : task'[p] = task[p]
        /\ CHALLENGES' \in {CHALLENGES, Pruned} /\ born' = born
    BY <1>2, UploadFacts
  <2>2. \A c : InFlight(c)' <=> InFlight(c)
    BY <2>1 DEF InFlight
  <2> QED
    BY <2>1, <2>2, PruneFacts, PrunedForgets DEF Issued
<1>3. ASSUME NEW q \in Requests, Starts(q)
      PROVE  Promise!Next
  <2>1. PICK c \in Kept :
          /\ CHALLENGES[c].report = "none"
          /\ DOMAIN CHALLENGES' = Kept
          /\ \A d \in Kept \ {c} : CHALLENGES'[d] = CHALLENGES[d]
          /\ CHALLENGES'[c].report = "none"
          /\ task[q].stage = "idle" /\ task'[q].stage = "pin"
          /\ \A p \in Requests \ {q} : task'[p] = task[p]
          /\ born' = born
    BY <1>3, StartFacts
  <2>2. \A d : InFlight(d)' <=> InFlight(d)
    BY <2>1 DEF InFlight
  <2> QED
    BY <2>1, <2>2, PrunedForgets DEF Issued
<1>4. ASSUME NEW q \in Requests, PinTarget(q)
      PROVE  View' = View
  <2>1. /\ task[q].stage = "pin" /\ task'[q].stage = "proof"
        /\ \A p \in Requests \ {q} : task'[p] = task[p]
        /\ CHALLENGES' = CHALLENGES /\ born' = born
    BY <1>4, MoveFacts
  <2>2. \A c : InFlight(c)' <=> InFlight(c)
    BY <2>1 DEF InFlight
  <2> QED
    BY <2>1, <2>2, NoneMoves DEF Course, Issued
<1> QED
  BY <1>1, <1>2, <1>3, <1>4, StepCases, CreateIssues, MatchInvokes, FinishReports

\* As the provider and the visitor see it, each challenge takes the abstract
\* course: one invoke at most, reported before it is forgotten.
THEOREM CheckImplementsOneInvoke == Spec => ImplementsOneInvoke
<1>1. Init => Promise!Init
  <2> SUFFICES ASSUME Init PROVE View = [c \in 1..ChallengeBound |-> "none"]
    BY DEF Promise!Init
  <2>1. Issued = {}
    BY DEF Init, Issued
  <2> QED
    BY <2>1, ViewIsCourse DEF Course
<1>2. TypeOK /\ TypeOK' /\ CheckInv /\ [Next]_vars => [Promise!Next]_View
  BY StepKeepsPromise
<1> QED
  BY <1>1, <1>2, TypeCorrect, CheckInvHolds, PTL
     DEF Spec, ImplementsOneInvoke, Promise!Spec

-----------------------------------------------------------------------------
(* The hourly allowances *)

KeysOf(charge) == {charge.visitor, charge.source, Global}

\* Charges are of the past, and no stamp of the last hour is missing from a
\* key it counts against, or over that key's limit.
ChargesPast == \A n \in Charges : charged[n].at <= now

StampsKept ==
    \A n \in Charges : \A k \in KeysOf(charged[n]) :
        now - charged[n].at < HOUR => n \in VISITS[k]

StampsLimited == \A k \in Keys : Cardinality(VISITS[k]) <= Limit(k)

AllowanceInv == ChargesPast /\ StampsKept /\ StampsLimited /\ HourlyAllowance

LEMMA LimitNat == \A k \in Keys : Limit(k) \in Nat
  BY NumbersTyped DEF Limit

LEMMA ChargeRecords ==
    ASSUME TypeOK, NEW n \in Charges
    PROVE  /\ charged[n].visitor \in Visitors /\ charged[n].source \in Sources
           /\ charged[n].at \in 0..MaxTime /\ charged[n].at \in Int
           /\ KeysOf(charged[n]) \subseteq Keys
<1>1. PICK m \in 0..ChargeBound :
          charged \in [1..m -> [visitor : Visitors, source : Sources, at : 0..MaxTime]]
  BY DEF TypeOK
<1>2. charged[n] \in [visitor : Visitors, source : Sources, at : 0..MaxTime]
  BY <1>1 DEF Charges
<1> QED
  BY <1>2, NumbersTyped DEF KeysOf, Keys

LEMMA VisitsFinite ==
    ASSUME TypeOK, NEW k \in Keys
    PROVE  /\ IsFiniteSet(VISITS[k]) /\ Cardinality(VISITS[k]) \in Nat
           /\ IsFiniteSet(Recent(k)) /\ Cardinality(Recent(k)) \in Nat
           /\ Cardinality(Recent(k)) <= Cardinality(VISITS[k])
           /\ Recent(k) \subseteq Charges
<1>1. VISITS[k] \in SUBSET Charges
  BY DEF TypeOK
<1>2. IsFiniteSet(Charges)
  BY Histories
<1>3. IsFiniteSet(VISITS[k]) /\ Recent(k) \in SUBSET VISITS[k]
  BY <1>1, <1>2, FS_Subset DEF Recent
<1>4. /\ IsFiniteSet(Recent(k))
      /\ Cardinality(Recent(k)) <= Cardinality(VISITS[k])
  BY <1>3, FS_Subset
<1>5. Cardinality(VISITS[k]) \in Nat
  BY <1>3, FS_CardinalityType
<1>6. Cardinality(Recent(k)) \in Nat
  BY <1>4, FS_CardinalityType
<1> QED
  BY <1>1, <1>3, <1>4, <1>5, <1>6

\* What a charge records and stamps.
LEMMA ChargeFacts ==
    ASSUME TypeOK, NEW v \in Visitors, NEW s \in Sources, Charge(v, s)
    PROVE  \E n \in Nat :
              /\ n \notin Charges /\ Charges' = Charges \cup {n}
              /\ charged'[n].visitor = v /\ charged'[n].source = s
              /\ charged'[n].at = now
              /\ \A m \in Charges : charged'[m] = charged[m]
              /\ VISITS' = [k \in Keys |-> IF k \in {v, s, Global}
                                THEN Recent(k) \cup {n} ELSE Recent(k)]
<1> DEFINE n == Cardinality(Charges) + 1
<1>1. Cardinality(Charges) \in Nat /\ Charges = 1..Cardinality(Charges)
  BY Histories, NumbersTyped
<1>2. n \in Nat /\ n \notin Charges /\ 1..n = Charges \cup {n}
  <2>1. PICK m \in Nat : m = Cardinality(Charges) /\ Charges = 1..m
    BY <1>1
  <2>2. m + 1 \in Nat /\ m + 1 \notin 1..m /\ 1..(m + 1) = 1..m \cup {m + 1}
    OBVIOUS
  <2> QED
    BY <2>1, <2>2
<1>3. charged' = [m \in 1..n |-> IF m = n
          THEN [visitor |-> v, source |-> s, at |-> now] ELSE charged[m]]
  BY DEF Charge
<1>4. VISITS' = [k \in Keys |-> IF k \in {v, s, Global}
          THEN Recent(k) \cup {n} ELSE Recent(k)]
  BY DEF Charge
<1> HIDE DEF n
<1>5. /\ Charges' = Charges \cup {n}
      /\ charged'[n] = [visitor |-> v, source |-> s, at |-> now]
      /\ \A m \in Charges : charged'[m] = charged[m]
  BY <1>2, <1>3 DEF Charges
<1> QED
  BY <1>2, <1>4, <1>5

\* Windows that end before a charge have the charges they had; those that
\* contain it are contained in the list that has just been checked.
LEMMA ChargeAllowed ==
    ASSUME TypeOK, TypeOK', AllowanceInv, now' = now,
           NEW v \in Visitors, NEW s \in Sources, Charge(v, s)
    PROVE  AllowanceInv'
<1>1. PICK n \in Nat :
         /\ n \notin Charges /\ Charges' = Charges \cup {n}
         /\ charged'[n].visitor = v /\ charged'[n].source = s
         /\ charged'[n].at = now
         /\ \A m \in Charges : charged'[m] = charged[m]
         /\ VISITS' = [k \in Keys |-> IF k \in {v, s, Global}
                           THEN Recent(k) \cup {n} ELSE Recent(k)]
  BY ChargeFacts
<1>2. now \in Nat /\ HOUR \in Nat \ {0} /\ MaxTime \in Nat
  BY NumbersTyped DEF TypeOK
<1>3. ChargesPast'
  BY <1>1, <1>2 DEF ChargesPast, AllowanceInv
<1>4. StampsKept'
  <2> SUFFICES ASSUME NEW m \in Charges', NEW k \in KeysOf(charged'[m]),
                      now' - charged'[m].at < HOUR
               PROVE  m \in VISITS'[k]
    BY DEF StampsKept, KeysOf
  <2>1. CASE m = n
    <3>1. k \in {v, s, Global} /\ k \in Keys
      BY <1>1, <2>1 DEF KeysOf, Keys
    <3> QED
      BY <1>1, <2>1, <3>1
  <2>2. CASE m \in Charges
    <3>1. k \in KeysOf(charged[m]) /\ k \in Keys
      BY <1>1, <2>2, ChargeRecords
    <3>2. m \in Recent(k)
      BY <1>1, <2>2, <3>1 DEF Recent, StampsKept, AllowanceInv
    <3> QED
      BY <1>1, <3>1, <3>2
  <2> QED
    BY <1>1, <2>1, <2>2
<1>5. StampsLimited'
  <2> SUFFICES ASSUME NEW k \in Keys PROVE Cardinality(VISITS'[k]) <= Limit(k)
    BY DEF StampsLimited, Limit
  <2>1. /\ IsFiniteSet(Recent(k)) /\ Cardinality(Recent(k)) \in Nat
        /\ Cardinality(VISITS[k]) \in Nat /\ Limit(k) \in Nat
        /\ Cardinality(Recent(k)) <= Cardinality(VISITS[k])
        /\ Cardinality(VISITS[k]) <= Limit(k)
    BY VisitsFinite, LimitNat DEF AllowanceInv, StampsLimited
  <2>2. CASE k \in {v, s, Global}
    <3>1. Cardinality(Recent(k)) < Limit(k)
      BY <2>2 DEF Charge, Allowed
    <3>2. Cardinality(Recent(k) \cup {n}) =
              IF n \in Recent(k) THEN Cardinality(Recent(k))
                                 ELSE Cardinality(Recent(k)) + 1
      BY <2>1, FS_AddElement
    <3>3. VISITS'[k] = Recent(k) \cup {n}
      BY <1>1, <2>2
    <3> QED
      BY <2>1, <3>1, <3>2, <3>3
  <2>3. CASE k \notin {v, s, Global}
    <3>1. VISITS'[k] = Recent(k)
      BY <1>1, <2>3
    <3> QED
      BY <2>1, <3>1
  <2> QED
    BY <2>2, <2>3
<1>6. HourlyAllowance'
  <2> SUFFICES ASSUME NEW k \in Keys, NEW t \in 0..MaxTime
               PROVE  Cardinality(ChargedIn(k, t)') <= Limit(k)
    BY DEF HourlyAllowance, ChargedIn, Limit
  <2>1. CASE t < now
    <3>1. ChargedIn(k, t)' = ChargedIn(k, t)
      BY <1>1, <1>2, <2>1 DEF ChargedIn
    <3> QED
      BY <3>1 DEF AllowanceInv, HourlyAllowance
  <2>2. CASE t >= now
    <3>1. ChargedIn(k, t)' \in SUBSET VISITS'[k]
      <4> SUFFICES ASSUME NEW m \in Charges', k \in KeysOf(charged'[m]),
                          t - HOUR < charged'[m].at
                   PROVE  m \in VISITS'[k]
        BY DEF ChargedIn, KeysOf
      <4>1. charged'[m].at \in Int
        BY <1>1, <1>2, ChargeRecords
      <4>2. now' - charged'[m].at < HOUR
        BY <1>2, <2>2, <4>1
      <4> QED
        BY <1>4, <4>2 DEF StampsKept, KeysOf
    <3>2. IsFiniteSet(VISITS'[k])
      <4>1. VISITS'[k] = Recent(k) \cup {n} \/ VISITS'[k] = Recent(k)
        BY <1>1
      <4>2. IsFiniteSet(Recent(k))
        BY VisitsFinite
      <4>3. IsFiniteSet(Recent(k) \cup {n})
        BY <4>2, FS_AddElement
      <4> QED
        BY <4>1, <4>2, <4>3
    <3>3. Cardinality(VISITS'[k]) \in Nat
      BY <3>2, FS_CardinalityType
    <3>4. /\ IsFiniteSet(ChargedIn(k, t)')
          /\ Cardinality(ChargedIn(k, t)') <= Cardinality(VISITS'[k])
      BY <3>1, <3>2, FS_Subset
    <3>5. Cardinality(ChargedIn(k, t)') \in Nat
      BY <3>4, FS_CardinalityType
    <3>6. Cardinality(VISITS'[k]) <= Limit(k)
      BY <1>5 DEF StampsLimited, Limit
    <3> QED
      BY <3>3, <3>4, <3>5, <3>6, LimitNat
  <2> QED
    BY <1>2, <2>1, <2>2
<1> QED
  BY <1>3, <1>4, <1>5, <1>6 DEF AllowanceInv

LEMMA AllowanceStep ==
    TypeOK /\ TypeOK' /\ AllowanceInv /\ [Next]_vars => AllowanceInv'
<1> SUFFICES ASSUME TypeOK, TypeOK', AllowanceInv, [Next]_vars PROVE AllowanceInv'
  OBVIOUS
<1>1. CASE \E v \in Visitors, s \in Sources : Charge(v, s) /\ now' = now
  BY <1>1, ChargeAllowed
<1>2. CASE \E v \in Visitors, s \in Sources : Refuse(v, s) /\ now' = now
  <2>1. /\ charged' = charged /\ now' = now
        /\ VISITS' = [k \in Keys |-> Recent(k)]
    BY <1>2 DEF Refuse
  <2>2. ChargesPast' /\ HourlyAllowance'
    BY <2>1 DEF AllowanceInv, ChargesPast, HourlyAllowance, ChargedIn, Charges, Limit
  <2>3. StampsKept'
    <3> SUFFICES ASSUME NEW m \in Charges, NEW k \in KeysOf(charged[m]),
                        now - charged[m].at < HOUR
                 PROVE  m \in VISITS'[k]
      BY <2>1 DEF StampsKept, KeysOf, Charges
    <3>1. k \in Keys
      BY ChargeRecords
    <3> QED
      BY <2>1, <3>1 DEF AllowanceInv, StampsKept, Recent
  <2>4. StampsLimited'
    <3> SUFFICES ASSUME NEW k \in Keys
                 PROVE  Cardinality(Recent(k)) <= Limit(k)
      BY <2>1 DEF StampsLimited, Limit
    <3> QED
      BY VisitsFinite, LimitNat DEF AllowanceInv, StampsLimited
  <2> QED
    BY <2>2, <2>3, <2>4 DEF AllowanceInv
<1>3. CASE UNCHANGED <<charged, VISITS>> /\ (now' = now \/ Tick)
  <2>1. /\ charged' = charged /\ VISITS' = VISITS
        /\ now \in Nat /\ now' \in {now, now + 1}
    BY <1>3, NumbersTyped DEF Tick, TypeOK
  <2>2. \A n \in Charges : charged[n].at \in Int
    BY ChargeRecords
  <2>3. ChargesPast'
    BY <2>1, <2>2 DEF AllowanceInv, ChargesPast, Charges
  <2>4. StampsKept'
    <3> SUFFICES ASSUME NEW m \in Charges, NEW k \in KeysOf(charged[m]),
                        now' - charged[m].at < HOUR
                 PROVE  m \in VISITS[k]
      BY <2>1 DEF StampsKept, KeysOf, Charges
    <3>1. now - charged[m].at < HOUR
      BY <2>1, <2>2, NumbersTyped
    <3> QED
      BY <3>1 DEF AllowanceInv, StampsKept
  <2>5. StampsLimited' /\ HourlyAllowance'
    BY <2>1 DEF AllowanceInv, StampsLimited, HourlyAllowance, ChargedIn, Charges, Limit
  <2> QED
    BY <2>3, <2>4, <2>5 DEF AllowanceInv
<1> QED
  BY <1>1, <1>2, <1>3, ChargeCases

\* No hour of the clock has more charges of a visitor, a source or everyone
\* than its limit, for every limit and every mix of requests.
THEOREM HourlyAllowanceHolds == Spec => []HourlyAllowance
<1>1. Init => AllowanceInv
  <2> SUFFICES ASSUME Init PROVE AllowanceInv
    OBVIOUS
  <2>1. Charges = {} /\ \A k \in Keys : VISITS[k] = {}
    BY DEF Init, Charges
  <2>2. \A k, t : ChargedIn(k, t) = {}
    BY <2>1 DEF ChargedIn
  <2>3. Cardinality({}) = 0
    BY FS_EmptySet
  <2>4. \A k \in Keys : 0 <= Limit(k)
    BY LimitNat
  <2>5. StampsLimited
    BY <2>1, <2>3, <2>4 DEF StampsLimited
  <2>6. HourlyAllowance
    BY <2>2, <2>3, <2>4 DEF HourlyAllowance
  <2>7. ChargesPast /\ StampsKept
    BY <2>1 DEF ChargesPast, StampsKept
  <2> QED
    BY <2>5, <2>6, <2>7 DEF AllowanceInv
<1>2. TypeOK /\ TypeOK' /\ AllowanceInv /\ [Next]_vars => AllowanceInv'
  BY AllowanceStep
<1>3. AllowanceInv => HourlyAllowance
  BY DEF AllowanceInv
<1> QED
  BY <1>1, <1>2, <1>3, TypeCorrect, PTL DEF Spec

=============================================================================
