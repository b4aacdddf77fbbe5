--------------------------- MODULE RunTrustProofs ---------------------------
(***************************************************************************)
(* Theorems about MetisVerdict and RunTrust, for answers of any length,    *)
(* any limit, any receipts and keys: the search finds the last verdict of  *)
(* what it considers, green is deserved by that, each cause is shown, a    *)
(* receipt that passes deserves it or was read as of the other version,    *)
(* and which answers can make a run fail.                                  *)
(***************************************************************************)
EXTENDS RunTrust, FiniteSetTheorems, SequenceTheorems, TLAPS

-----------------------------------------------------------------------------
(* Facts about texts *)

\* What the loop knows of the braces it has left behind, and counts of them.
Passed(text, s) == \A j \in 1..s - 1 : j + text[j].span < s
Before(text, s) == {j \in Outermost(text) : j < s}
After(text, s)  == s + text[s].span + 1

LEMMA EmptyText == <<>> \in Texts
<1>1. <<>> \in Seq(Braces) /\ Len(<<>>) = 0
  BY EmptySeq
<1>2. <<>> \in [1..0 -> Braces] /\ DOMAIN <<>> = 1..0
  BY <1>1, LenProperties
<1>3. WellNested(<<>>)
  BY <1>2 DEF WellNested
<1>4. 0 \in 0..MaxBraces
  BY BoundsNatural
<1> QED BY <1>2, <1>3, <1>4 DEF Texts

\* A text is a sequence of braces whose objects end within it, and nest.
LEMMA TextFacts ==
    ASSUME NEW text \in Texts
    PROVE  /\ Len(text) \in Nat /\ Len(text) <= MaxBraces
           /\ DOMAIN text = 1..Len(text)
           /\ \A i \in 1..Len(text) :
                 /\ text[i] \in Braces /\ text[i].span \in Nat
                 /\ i + text[i].span <= Len(text)
                 /\ Opaque(text[i]) => text[i].span = 0
                 /\ \A j \in i..i + text[i].span : j + text[j].span <= i + text[i].span
<1>1. PICK n \in 0..MaxBraces : text \in [1..n -> Braces]
  BY DEF Texts
<1>2. n \in Nat /\ n <= MaxBraces
  BY <1>1, BoundsNatural
<1>3. text \in Seq(Braces) /\ DOMAIN text = 1..n
  BY <1>1, <1>2, SeqDef
<1>4. Len(text) \in Nat /\ DOMAIN text = 1..Len(text)
  BY <1>3, LenProperties
<1>5. Len(text) = n
  BY <1>2, <1>3, <1>4
<1>6. WellNested(text)
  BY DEF Texts
<1>7. \A i \in 1..Len(text) : text[i] \in Braces /\ text[i].span \in Nat
  BY <1>1, <1>5, BoundsNatural DEF Braces
<1>8. \A i \in DOMAIN text :
          /\ i + text[i].span <= Len(text)
          /\ Opaque(text[i]) => text[i].span = 0
          /\ \A j \in i..i + text[i].span : j + text[j].span <= i + text[i].span
  BY <1>6 DEF WellNested
<1>9. Len(text) <= MaxBraces
  BY <1>2, <1>5
<1> QED BY <1>4, <1>7, <1>8, <1>9

\* An outermost brace is one every earlier brace ends before.
LEMMA OutermostFacts ==
    ASSUME NEW text \in Texts
    PROVE  Outermost(text) =
               {i \in 1..Len(text) : \A j \in 1..i - 1 : j + text[j].span < i}
<1>1. \A i \in 1..Len(text) : \A j \in 1..i - 1 :
          Opaque(text[j]) => j + text[j].span < i
  <2> SUFFICES ASSUME NEW i \in 1..Len(text), NEW j \in 1..i - 1, Opaque(text[j])
               PROVE  j + text[j].span < i
    OBVIOUS
  <2>1. j \in 1..Len(text) /\ j < i
    BY TextFacts
  <2>2. text[j].span = 0
    BY <2>1, TextFacts
  <2> QED BY <2>1, <2>2
<1> QED BY <1>1, TextFacts DEF Outermost

LEMMA BeforeFinite ==
    ASSUME NEW text \in Texts, NEW s
    PROVE  IsFiniteSet(Before(text, s)) /\ Cardinality(Before(text, s)) \in Nat
<1>1. Len(text) \in Nat /\ Before(text, s) \subseteq 1..Len(text)
  BY TextFacts, OutermostFacts DEF Before
<1>2. IsFiniteSet(1..Len(text))
  BY <1>1, FS_Interval
<1> QED BY <1>1, <1>2, FS_Subset, FS_CardinalityType

LEMMA BeforeFirst ==
    ASSUME NEW text \in Texts
    PROVE  Before(text, 1) = {} /\ Cardinality(Before(text, 1)) = 0
<1>1. Before(text, 1) = {}
  BY TextFacts, OutermostFacts DEF Before
<1> QED BY <1>1, FS_EmptySet

\* The brace the loop is at is outermost, the braces inside it are not.
LEMMA StepFacts ==
    ASSUME NEW text \in Texts, NEW s \in 1..Len(text), Passed(text, s)
    PROVE  /\ After(text, s) \in 1..Len(text) + 1 /\ s < After(text, s)
           /\ Passed(text, After(text, s))
           /\ s \in Outermost(text)
           /\ Before(text, After(text, s)) = Before(text, s) \cup {s}
           /\ Before(text, s + 1) = Before(text, s) \cup {s}
           /\ Cardinality(Before(text, s) \cup {s}) = Cardinality(Before(text, s)) + 1
<1>0. PICK n : n = After(text, s)
  OBVIOUS
<1>1. /\ s \in Nat /\ Len(text) \in Nat /\ n = s + text[s].span + 1 /\ text[s].span \in Nat /\ n \in Nat
      /\ s + text[s].span <= Len(text)
  BY <1>0, TextFacts DEF After
<1>2. n \in 1..Len(text) + 1 /\ s < n
  BY <1>1
<1>3. Passed(text, n)
  <2> SUFFICES ASSUME NEW j \in 1..n - 1 PROVE j + text[j].span < n
    BY DEF Passed
  <2>1. CASE j < s
    <3>1. j + text[j].span < s /\ text[j].span \in Nat
      BY <2>1, <1>1, TextFacts DEF Passed
    <3> QED BY <3>1, <2>1, <1>1
  <2>2. CASE j >= s
    <3>1. j \in s..s + text[s].span /\ j \in 1..Len(text)
      BY <2>2, <1>1
    <3>2. j + text[j].span <= s + text[s].span /\ text[j].span \in Nat
      BY <3>1, TextFacts
    <3> QED BY <3>1, <3>2, <1>1
  <2> QED BY <1>1, <2>1, <2>2
<1>4. s \in Outermost(text)
  BY OutermostFacts DEF Passed
<1>5. \A i \in Outermost(text) : s < i => n <= i
  <2> SUFFICES ASSUME NEW i \in Outermost(text), s < i PROVE n <= i
    OBVIOUS
  <2>1. i \in 1..Len(text) /\ s \in 1..i - 1
    BY <1>1, OutermostFacts
  <2>2. s + text[s].span < i
    BY <2>1, OutermostFacts
  <2> QED BY <2>1, <2>2, <1>1
<1>6. Outermost(text) \subseteq Nat
  BY <1>1, OutermostFacts
<1>7. Before(text, n) = Before(text, s) \cup {s}
  BY <1>1, <1>2, <1>4, <1>5, <1>6 DEF Before
<1>8. Before(text, s + 1) = Before(text, s) \cup {s}
  BY <1>1, <1>4, <1>6 DEF Before
<1>9. s \notin Before(text, s)
  BY <1>1 DEF Before
<1>10. Cardinality(Before(text, s) \cup {s}) = Cardinality(Before(text, s)) + 1
  BY <1>9, BeforeFinite, FS_AddElement
<1> QED BY <1>0, <1>2, <1>3, <1>4, <1>7, <1>8, <1>10

\* The count of _verdict_object, without the loop.
LEMMA ConsideredFacts ==
    ASSUME NEW text \in Texts
    PROVE  Considered(text) =
               {i \in Outermost(text) : Cardinality(Before(text, i + 1)) <= MaxCandidates}
<1>1. Outermost(text) \subseteq Nat
  BY TextFacts, OutermostFacts
<1>2. \A i \in Outermost(text) : {j \in Outermost(text) : j <= i} = Before(text, i + 1)
  BY <1>1 DEF Before
<1> QED BY <1>2 DEF Considered

\* Once the limit is reached, nothing further on is considered.
LEMMA LimitReached ==
    ASSUME NEW text \in Texts, NEW s \in Nat,
           Cardinality(Before(text, s)) >= MaxCandidates,
           NEW i \in Considered(text)
    PROVE  i < s
<1> SUFFICES ASSUME ~(i < s) PROVE FALSE
  OBVIOUS
<1>1. i \in Outermost(text) /\ Cardinality(Before(text, i + 1)) <= MaxCandidates
  BY ConsideredFacts
<1>2. i \in Nat /\ i >= s /\ i \notin Before(text, s)
  BY <1>1, TextFacts, OutermostFacts DEF Before
<1>3. Before(text, s) \cup {i} \subseteq Before(text, i + 1)
  BY <1>1, <1>2, TextFacts, OutermostFacts DEF Before
<1>4. Cardinality(Before(text, s) \cup {i}) = Cardinality(Before(text, s)) + 1
  BY <1>2, BeforeFinite, FS_AddElement
<1>5. Cardinality(Before(text, s) \cup {i}) <= Cardinality(Before(text, i + 1))
  BY <1>3, BeforeFinite, FS_Subset
<1>6. Cardinality(Before(text, s)) \in Nat /\ Cardinality(Before(text, i + 1)) \in Nat
  BY BeforeFinite
<1> QED BY <1>1, <1>4, <1>5, <1>6, BoundsNatural

-----------------------------------------------------------------------------
(* The inductive invariant of MetisVerdict *)

\* The count is of the outermost braces passed, and the verdict of the last.
SearchInv ==
    /\ reply.text \in Texts
    /\ start \in 1..Len(reply.text) + 1
    /\ Passed(reply.text, start)
    /\ seen = Cardinality(Before(reply.text, start))
    /\ FoundIsLast

\* An answer _verify goes on to read.
Readable(b) ==
    /\ b.cause = "answer" /\ b.status # "error"
    /\ b.status = "success" => Performed(b)

\* What _verify returns, by what it was answered.
Returned ==
    \/ reply = Failure("timeout") /\ verdict = Outcome("timeout", "playground")
    \/ reply = Failure("unavailable") /\ verdict = Outcome("unavailable", "none")
    \/ /\ reply.cause = "answer" /\ reply.status = "error"
       /\ verdict = IF reply.timedOut THEN Outcome("timeout", "metis")
                    ELSE Outcome("error", "none")
    \/ /\ reply.cause = "answer" /\ reply.status = "success" /\ ~Performed(reply)
       /\ verdict = Outcome("not_performed", "none")
    \/ /\ Readable(reply) /\ ~Searching
       /\ verdict = [status |-> reply.status, source |-> "none",
                     verified |-> reply.verified /\ Assessment = "plausible",
                     assessment |-> Assessment, assessed |-> reply.verified,
                     split |-> reply.split]

StageInv ==
    /\ pc = "asked" => start = 1 /\ seen = 0 /\ found = "none" /\ reply = Failure("none")
    /\ pc = "scan" => Readable(reply)
    /\ pc = "done" => Returned
    /\ pc # "done" => verdict = NoVerdict

VerdictInv == TypeOK /\ SearchInv /\ StageInv

\* Before the loop, whatever the text: nothing passed, nothing found.
LEMMA NothingFound ==
    ASSUME NEW text \in Texts
    PROVE  /\ 1 \in 1..Len(text) + 1 /\ Passed(text, 1)
           /\ 0 = Cardinality(Before(text, 1))
           /\ {i \in VerdictsIn(text) : i < 1} = {}
<1>1. Len(text) \in Nat /\ VerdictsIn(text) \subseteq 1..Len(text)
  BY TextFacts, OutermostFacts DEF VerdictsIn, Considered
<1>2. {i \in VerdictsIn(text) : i < 1} = {}
  BY <1>1
<1>3. 1 \in 1..Len(text) + 1 /\ Passed(text, 1)
  BY <1>1 DEF Passed
<1> QED BY <1>2, <1>3, BeforeFirst

Outcomes ==
    [status : {"none"} \cup Statuses,
     source : {"none", "playground", "metis"}, verified : BOOLEAN,
     assessment : {"none", "plausible", "implausible", "unknown"},
     assessed : BOOLEAN, split : BOOLEAN]

LEMMA OutcomeFacts ==
    ASSUME NEW status \in {"none", "timeout", "unavailable", "not_performed", "error"},
           NEW source \in {"none", "playground", "metis"}
    PROVE  /\ Outcome(status, source) \in Outcomes
           /\ Outcome(status, source).verified = FALSE
           /\ Outcome(status, source).status = status
           /\ Outcome(status, source).source = source
           /\ Outcome(status, source).assessment = "none"
           /\ Outcome(status, source).split = FALSE
BY DEF Outcome, Outcomes, Statuses, OwnStatuses

LEMMA InitInv == Init => VerdictInv
<1> SUFFICES ASSUME Init PROVE VerdictInv
  OBVIOUS
<1>1. reply.text = <<>> /\ reply.text \in Texts
  BY EmptyText DEF Init, Failure
<1>2. SearchInv
  BY <1>1, NothingFound DEF Init, SearchInv, FoundIsLast
<1>3. TypeOK
  BY BoundsNatural DEF Init, TypeOK, NoVerdict, Outcome
<1> QED BY <1>2, <1>3 DEF VerdictInv, StageInv, Init

LEMMA PostFailsInv == VerdictInv /\ PostFails => VerdictInv'
<1> SUFFICES ASSUME VerdictInv, PostFails PROVE VerdictInv'
  OBVIOUS
<1> USE DEF VerdictInv, PostFails, Returns
<1>1. reply'.text \in Texts
  BY EmptyText DEF Failure
<1>2. SearchInv'
  BY <1>1, NothingFound DEF StageInv, SearchInv, FoundIsLast
<1>3. TypeOK'
  <2>1. reply' \in {Failure(c) : c \in {"none", "timeout", "unavailable"}}
    OBVIOUS
  <2>2. verdict' \in Outcomes
    BY OutcomeFacts
  <2> QED BY <2>1, <2>2 DEF TypeOK, Outcomes
<1>4. StageInv'
  BY DEF StageInv, Returned
<1> QED BY <1>2, <1>3, <1>4

LEMMA PostRaisesInv == VerdictInv /\ PostRaises => VerdictInv'
<1> SUFFICES ASSUME VerdictInv, PostRaises PROVE VerdictInv'
  OBVIOUS
<1> USE DEF VerdictInv, PostRaises
<1>1. reply'.text \in Texts
  BY EmptyText DEF Failure
<1>2. SearchInv'
  BY <1>1, NothingFound DEF StageInv, SearchInv, FoundIsLast
<1>3. TypeOK'
  BY DEF TypeOK
<1>4. StageInv'
  BY DEF StageInv
<1> QED BY <1>2, <1>3, <1>4

LEMMA AnsweredInv == VerdictInv /\ Answered => VerdictInv'
<1> SUFFICES ASSUME VerdictInv, NEW b \in Answers, pc = "asked", reply' = b,
                    ErrorEnvelope(b) \/ NotPerformed(b) \/ ReadsAnswer(b)
             PROVE  VerdictInv'
  BY DEF Answered
<1> USE DEF VerdictInv, ErrorEnvelope, NotPerformed, ReadsAnswer, Returns
<1>1. b.text \in Texts /\ b.cause = "answer"
  BY DEF Answers
<1>2. SearchInv'
  BY <1>1, NothingFound DEF StageInv, SearchInv, FoundIsLast
<1>3. TypeOK'
  <2>1. verdict' \in Outcomes
    BY OutcomeFacts DEF TypeOK, Outcomes
  <2>2. pc' \in {"asked", "scan", "done", "raised"} /\ UNCHANGED <<start, seen, found>>
    OBVIOUS
  <2> QED BY <2>1, <2>2 DEF TypeOK, Outcomes
<1>4. StageInv'
  BY <1>1 DEF StageInv, Returned, Readable
<1> QED BY <1>2, <1>3, <1>4

\* The verdicts among the braces passed, after one more.
LEMMA NextVerdicts ==
    ASSUME NEW text \in Texts, NEW s \in 1..Len(text), Passed(text, s),
           Cardinality(Before(text, s)) < MaxCandidates
    PROVE  {i \in VerdictsIn(text) : i < After(text, s)} =
               {i \in VerdictsIn(text) : i < s} \cup
                   (IF text[s].kind \in Verdicts THEN {s} ELSE {})
<1>1. Cardinality(Before(text, s + 1)) <= MaxCandidates
  <2>1. Cardinality(Before(text, s + 1)) = Cardinality(Before(text, s)) + 1
    BY StepFacts
  <2>2. Cardinality(Before(text, s)) \in Nat
    BY BeforeFinite
  <2> QED BY <2>1, <2>2, BoundsNatural
<1>2. s \in Considered(text)
  BY <1>1, StepFacts, ConsideredFacts
<1>3. s \in VerdictsIn(text) <=> text[s].kind \in Verdicts
  BY <1>2 DEF VerdictsIn
<1>4. VerdictsIn(text) \subseteq Outermost(text)
  BY DEF VerdictsIn, Considered
<1>5. \A i \in Outermost(text) : i < After(text, s) <=> i < s \/ i = s
  <2>1. Before(text, After(text, s)) = Before(text, s) \cup {s} /\ s \in Outermost(text)
    BY StepFacts
  <2> QED BY <2>1 DEF Before
<1> QED BY <1>3, <1>4, <1>5

LEMMA CandidateInv == VerdictInv /\ Candidate => VerdictInv'
<1> SUFFICES ASSUME VerdictInv, Candidate PROVE VerdictInv'
  OBVIOUS
<1> USE DEF VerdictInv
<1>1. PICK text : text = reply.text
  OBVIOUS
<1>2. PICK s : s = start
  OBVIOUS
<1>3. PICK n : n = After(text, s)
  OBVIOUS
<1>4. /\ text \in Texts /\ text = reply'.text /\ pc = "scan"
      /\ s \in 1..Len(text) /\ Passed(text, s)
      /\ Cardinality(Before(text, s)) < MaxCandidates
  <2>1. s <= Len(text) /\ seen < MaxCandidates /\ s \in 1..Len(text) + 1 /\ text \in Texts
    BY <1>1, <1>2 DEF Candidate, Searching, SearchInv
  <2>2. s \in 1..Len(text)
    BY <2>1, TextFacts
  <2> QED BY <1>1, <1>2, <2>1, <2>2 DEF Candidate, SearchInv
<1>5. text[s] \in Braces /\ text[s].kind \in Values
  BY <1>4, TextFacts DEF Braces
<1>6. CASE text[s].kind \in Unnamed
  <2>1. pc' = "raised" /\ UNCHANGED <<start, seen, found, reply, verdict>>
    BY <1>1, <1>2, <1>6 DEF Candidate
  <2>2. TypeOK' /\ SearchInv'
    BY <2>1 DEF TypeOK, SearchInv, FoundIsLast
  <2>3. StageInv'
    BY <2>1, <1>4 DEF StageInv
  <2> QED BY <2>2, <2>3
<1>7. CASE text[s].kind \notin Unnamed
  <2>1. /\ seen' = seen + 1 /\ start' = n /\ found' = Take(text[s])
        /\ UNCHANGED <<pc, reply, verdict>>
    BY <1>1, <1>2, <1>3, <1>7 DEF Candidate, NextStart, After
  <2>2. /\ n \in 1..Len(text) + 1 /\ Passed(text, n)
        /\ Cardinality(Before(text, n)) = Cardinality(Before(text, s)) + 1
    BY <1>3, <1>4, StepFacts
  <2>3. Len(text) \in Nat /\ Len(text) <= MaxBraces /\ Cardinality(Before(text, s)) \in Nat
    BY <1>4, TextFacts, BeforeFinite
  <2>4. seen = Cardinality(Before(text, s))
    BY <1>1, <1>2 DEF SearchInv
  <2>5. seen' \in 0..MaxCandidates /\ start' \in 1..MaxBraces + 1
    BY <1>4, <2>1, <2>2, <2>3, <2>4, BoundsNatural
  <2>6. found' \in {"none"} \cup Verdicts
    BY <2>1 DEF Take, TypeOK
  <2>7. TypeOK'
    BY <2>1, <2>5, <2>6 DEF TypeOK
  <2>8. FoundIsLast'
    <3>1. PICK sofar : sofar = {i \in VerdictsIn(text) : i < s}
      OBVIOUS
    <3>2. {i \in VerdictsIn(text) : i < n} =
              sofar \cup (IF text[s].kind \in Verdicts THEN {s} ELSE {})
      BY <1>3, <1>4, <3>1, NextVerdicts
    <3>3. /\ found = "none" <=> sofar = {}
          /\ found # "none" =>
                \E i \in sofar : found = text[i].kind /\ \A j \in sofar : j <= i
      BY <1>1, <1>2, <3>1 DEF SearchInv, FoundIsLast
    <3>4. \A j \in sofar : j <= s
      <4>1. VerdictsIn(text) \subseteq 1..Len(text) /\ s \in Nat
        BY <1>4, <2>3, OutermostFacts DEF VerdictsIn, Considered
      <4> QED BY <3>1, <4>1, <2>3
    <3>5. CASE text[s].kind \in Verdicts
      <4>1. found' = text[s].kind /\ found' # "none"
        BY <2>1, <3>5 DEF Take, Verdicts
      <4>2. {i \in VerdictsIn(text) : i < n} = sofar \cup {s} /\ s <= s
        BY <3>2, <3>5, <1>4, <2>3
      <4> QED BY <1>4, <2>1, <3>4, <4>1, <4>2 DEF FoundIsLast
    <3>6. CASE text[s].kind \notin Verdicts
      <4>1. found' = found /\ {i \in VerdictsIn(text) : i < n} = sofar
        BY <2>1, <3>2, <3>6 DEF Take
      <4> QED BY <1>4, <2>1, <3>3, <4>1 DEF FoundIsLast
    <3> QED BY <3>5, <3>6
  <2>9. SearchInv'
    BY <1>4, <2>1, <2>2, <2>4, <2>8 DEF SearchInv
  <2>10. StageInv'
    BY <1>4, <2>1 DEF StageInv
  <2> QED BY <2>7, <2>9, <2>10
<1> QED BY <1>6, <1>7

LEMMA DecideInv == VerdictInv /\ Decide => VerdictInv'
<1> SUFFICES ASSUME VerdictInv, Decide PROVE VerdictInv'
  OBVIOUS
<1> USE DEF VerdictInv, Decide
<1>1. Readable(reply) /\ reply \in Answers
  BY DEF StageInv, TypeOK, Failure, Readable
<1>2. /\ reply.status \in Statuses
      /\ reply.verified \in BOOLEAN /\ reply.split \in BOOLEAN
      /\ reply.line \in {"none", "plausible", "implausible"}
  BY <1>1 DEF Answers, Readable
<1>3. Assessment \in {"plausible", "implausible", "unknown"}
  BY <1>2 DEF Assessment
<1>4. TypeOK'
  BY <1>2, <1>3 DEF TypeOK
<1>5. SearchInv'
  BY DEF SearchInv, FoundIsLast
<1>6. Returned'
  BY <1>1 DEF Returned, Readable, Searching, Assessment
<1> QED BY <1>4, <1>5, <1>6 DEF StageInv

LEMMA Invariance == Spec => []VerdictInv
<1>1. VerdictInv /\ [Next]_vars => VerdictInv'
  <2> SUFFICES ASSUME VerdictInv, [Next]_vars PROVE VerdictInv'
    OBVIOUS
  <2>1. CASE Next
    BY <2>1, PostFailsInv, PostRaisesInv, AnsweredInv, CandidateInv, DecideInv DEF Next
  <2>2. CASE UNCHANGED vars
    BY <2>2 DEF vars, VerdictInv, TypeOK, SearchInv, StageInv, FoundIsLast, Returned,
       Searching, Assessment
  <2> QED BY <2>1, <2>2
<1> QED BY <1>1, InitInv, PTL DEF Spec

-----------------------------------------------------------------------------
(* The theorems about MetisVerdict *)

\* Every variable keeps its type, for answers of any length.
THEOREM TypeCorrect == Spec => []TypeOK
<1>1. VerdictInv => TypeOK
  BY DEF VerdictInv
<1> QED BY <1>1, Invariance, PTL

\* The loop of _verdict_object always has the verdict of the last object that
\* echoes the id, among the outermost ones passed and within the limit.
THEOREM SearchFindsLast == Spec => []FoundIsLast
<1>1. VerdictInv => FoundIsLast
  BY DEF VerdictInv, SearchInv
<1> QED BY <1>1, Invariance, PTL

\* When the loop ends, the verdicts it has passed are all there are.
LEMMA AllPassed ==
    ASSUME VerdictInv, ~Searching
    PROVE  {i \in VerdictsIn(reply.text) : i < start} = VerdictsIn(reply.text)
<1>1. PICK text : text = reply.text
  OBVIOUS
<1>2. /\ text \in Texts /\ start \in 1..Len(text) + 1 /\ Len(text) \in Nat
      /\ seen = Cardinality(Before(text, start)) /\ seen \in 0..MaxCandidates
  BY <1>1, TextFacts DEF VerdictInv, SearchInv, TypeOK
<1>3. VerdictsIn(text) \subseteq Considered(text) /\ VerdictsIn(text) \subseteq 1..Len(text)
  BY <1>2, OutermostFacts DEF VerdictsIn, Considered
<1>4. CASE start > Len(text)
  BY <1>1, <1>2, <1>3, <1>4
<1>5. CASE seen >= MaxCandidates
  <2>1. \A i \in Considered(text) : i < start
    BY <1>2, <1>5, LimitReached
  <2> QED BY <1>1, <1>3, <2>1
<1>6. start > Len(text) \/ seen >= MaxCandidates
  BY <1>1, <1>2, BoundsNatural DEF Searching
<1> QED BY <1>4, <1>5, <1>6

\* A reading turns green only if Metis' critic passed it and the last verdict
\* object among the first MaxCandidates outermost braces, or without one there
\* the first VERDICT line, is plausible.  What is behind these braces is not read.
THEOREM GreenIsAlwaysDeserved == Spec => []GreenIsDeserved
<1>1. VerdictInv => GreenIsDeserved
  <2> SUFFICES ASSUME VerdictInv, Shown = "plausible and verified"
               PROVE  /\ reply.cause = "answer" /\ reply.verified
                      /\ LET ours == VerdictsIn(reply.text)
                         IN  \/ ours = {} /\ reply.line = "plausible"
                             \/ \E i \in ours : /\ reply.text[i].kind = "yes"
                                             /\ \A j \in ours : j <= i
    BY DEF GreenIsDeserved
  <2>1. verdict.verified
    BY DEF Shown, ShownStatus, VerdictInv, TypeOK
  <2>2. /\ pc = "done" /\ Readable(reply) /\ ~Searching
        /\ reply.verified /\ Assessment = "plausible"
    <3>1. pc = "done"
      BY <2>1, OutcomeFacts DEF VerdictInv, StageInv, NoVerdict
    <3>2. Returned
      BY <3>1 DEF VerdictInv, StageInv
    <3>3. \A status, source : Outcome(status, source).verified = FALSE
      BY DEF Outcome
    <3>4. /\ Readable(reply) /\ ~Searching
          /\ verdict = [status |-> reply.status, source |-> "none",
                        verified |-> reply.verified /\ Assessment = "plausible",
                        assessment |-> Assessment, assessed |-> reply.verified,
                        split |-> reply.split]
      BY <2>1, <3>2, <3>3 DEF Returned
    <3>5. reply.verified /\ Assessment = "plausible"
      BY <2>1, <3>4
    <3> QED BY <3>1, <3>4, <3>5
  <2>3. {i \in VerdictsIn(reply.text) : i < start} = VerdictsIn(reply.text)
    BY <2>2, AllPassed
  <2>4. CASE found = "none"
    BY <2>2, <2>3, <2>4 DEF VerdictInv, SearchInv, FoundIsLast, Assessment, Readable
  <2>5. CASE found # "none"
    <3>1. found = "yes"
      BY <2>2, <2>5 DEF Assessment, VerdictInv, TypeOK, Verdicts
    <3> QED BY <2>2, <2>3, <2>5, <3>1 DEF VerdictInv, SearchInv, FoundIsLast, Readable
  <2> QED BY <2>4, <2>5
<1> QED BY <1>1, Invariance, PTL

\* Each way not to get a verdict is displayed as what it is; what is displayed
\* so is that way, or a status Metis calls by the playground's word for it.
THEOREM CausesAreAlwaysShown == Spec => []CausesAreShown
<1>1. VerdictInv => CausesAreShown
  <2> SUFFICES ASSUME VerdictInv, pc = "done" PROVE CausesAreShown
    BY DEF CausesAreShown
  <2>1. Returned /\ TypeOK
    BY DEF VerdictInv, StageInv
  <2> USE DEF CausesAreShown, Shown, ShownStatus, Says, Unchecked
  <2>2. CASE reply = Failure("timeout") /\ verdict = Outcome("timeout", "playground")
    BY <2>2 DEF Failure, Outcome
  <2>3. CASE reply = Failure("unavailable") /\ verdict = Outcome("unavailable", "none")
    BY <2>3 DEF Failure, Outcome
  <2>4. CASE /\ reply.cause = "answer" /\ reply.status = "error"
             /\ verdict = IF reply.timedOut THEN Outcome("timeout", "metis")
                          ELSE Outcome("error", "none")
    BY <2>4 DEF Outcome
  <2>5. CASE /\ reply.cause = "answer" /\ reply.status = "success" /\ ~Performed(reply)
             /\ verdict = Outcome("not_performed", "none")
    BY <2>5 DEF Outcome, Performed
  <2>6. CASE /\ Readable(reply) /\ verdict.status = reply.status /\ verdict.source = "none"
             /\ verdict \in Outcomes
    <3>1. reply.status \in Statuses \ {"error"}
      BY <2>1, <2>6 DEF TypeOK, Failure, Answers, Readable
    <3>2. /\ Shown \notin {"timeout by metis", "error"}
          /\ Shown = "timeout by playground" => reply.status = "timeout"
          /\ Shown = "unavailable" => reply.status = "unavailable"
          /\ Shown = "not_performed" => reply.status = "not_performed"
      BY <2>6, <3>1
    <3>3. ~Unchecked
      BY <2>6 DEF Readable, Performed
    <3> HIDE DEF Shown, ShownStatus, Unchecked
    <3> QED BY <2>6, <3>1, <3>2, <3>3 DEF Readable
  <2> HIDE DEF CausesAreShown
  <2>7. CASE /\ Readable(reply) /\ ~Searching
             /\ verdict = [status |-> reply.status, source |-> "none",
                           verified |-> reply.verified /\ Assessment = "plausible",
                           assessment |-> Assessment, assessed |-> reply.verified,
                           split |-> reply.split]
    <3>1. verdict.status = reply.status /\ verdict.source = "none"
      BY <2>7
    <3>2. verdict \in Outcomes
      BY <2>1 DEF TypeOK, Outcomes
    <3> QED BY <2>6, <2>7, <3>1, <3>2
  <2> QED BY <2>1, <2>2, <2>3, <2>4, <2>5, <2>7 DEF Returned
<1> QED BY <1>1, Invariance, PTL

-----------------------------------------------------------------------------
(* Receipts *)

LEMMA TailFacts ==
    ASSUME NEW t \in Tails, NEW u \in Tails, NEW e \in Extras, NEW f \in Extras
    PROVE  /\ t \o <<>> = t
           /\ t \o <<e>> = u \o <<f>> <=> t = u /\ e = f
           /\ t \o <<e>> # t
<1>1. /\ t = <<>> \/ \E x \in Extras : t = <<x>>
      /\ u = <<>> \/ \E x \in Extras : u = <<x>>
  BY DEF Tails
<1>2. /\ t \in Seq(Extras) /\ u \in Seq(Extras)
      /\ <<e>> \in Seq(Extras) /\ <<f>> \in Seq(Extras)
  <2>1. /\ <<>> \in Seq(Extras)
        /\ \A x \in Extras : <<x>> \in Seq(Extras)
    OBVIOUS
  <2>2. t \in Seq(Extras)
    BY <1>1, <2>1
  <2>3. u \in Seq(Extras)
    BY <1>1, <2>1
  <2> QED BY <2>1, <2>2, <2>3
<1>3. /\ Len(t) \in {0, 1} /\ Len(u) \in {0, 1}
      /\ Len(t) = 0 => t = <<>>
      /\ Len(u) = 0 => u = <<>>
  BY <1>1
<1>4. /\ Len(t \o <<e>>) = Len(t) + 1 /\ (t \o <<e>>)[Len(t) + 1] = e
      /\ Len(u \o <<f>>) = Len(u) + 1 /\ (u \o <<f>>)[Len(u) + 1] = f
  BY <1>2
<1>5. Len(t) = 1 => t = <<t[1]>> /\ (t \o <<e>>)[1] = t[1]
  BY <1>1, <1>2
<1>6. Len(u) = 1 => u = <<u[1]>> /\ (u \o <<f>>)[1] = u[1]
  BY <1>1, <1>2
<1>7. t \o <<>> = t
  BY <1>2
<1>8. t \o <<e>> # t
  BY <1>3, <1>4
<1>9. ASSUME t \o <<e>> = u \o <<f>> PROVE t = u /\ e = f
  <2>1. Len(t) = Len(u) /\ e = f
    BY <1>3, <1>4, <1>9
  <2>2. CASE Len(t) = 0
    BY <1>3, <2>1, <2>2
  <2>3. CASE Len(t) = 1
    BY <1>5, <1>6, <1>9, <2>1, <2>3
  <2> QED BY <1>3, <2>1, <2>2, <2>3
<1> QED BY <1>7, <1>8, <1>9

\* Read as of one version, two texts are equal only if all the version signs is;
\* read as of two, only if latency_ms ends differently.
LEMMA TextsEqual ==
    ASSUME NEW a \in Bodies, NEW b \in RelayedBodies, b.details # Deep,
           NEW v \in {1, 2}, NEW w \in {1, 2}
    PROVE  /\ v = w => (Canonical(a, v) = Canonical(b, w) <=>
                 /\ a.details = b.details /\ a.product = b.product
                 /\ a.capability = b.capability
                 /\ Truthy(a.success) = Truthy(b.success)
                 /\ a.tail = b.tail
                 /\ v = 2 => a.extra = b.extra)
           /\ v # w /\ Canonical(a, v) = Canonical(b, w) => a.tail # b.tail
<1>1. /\ a.tail \in Tails /\ b.tail \in Tails /\ a.extra \in Extras /\ b.extra \in Extras
  BY DEF Bodies, RelayedBodies
<1>2. Canonical(a, v) = Canonical(b, w) <=>
          /\ a.details = b.details /\ a.product = b.product
          /\ a.capability = b.capability
          /\ Truthy(a.success) = Truthy(b.success)
          /\ a.tail \o (IF v = 1 THEN <<>> ELSE <<a.extra>>)
                 = b.tail \o (IF w = 1 THEN <<>> ELSE <<b.extra>>)
  BY DEF Canonical
<1>3. /\ a.tail \o <<>> = a.tail /\ b.tail \o <<>> = b.tail
      /\ a.tail \o <<a.extra>> = b.tail \o <<b.extra>> <=> a.tail = b.tail /\ a.extra = b.extra
      /\ a.tail \o <<a.extra>> # a.tail /\ b.tail \o <<b.extra>> # b.tail
  <2>2. a.tail \o <<>> = a.tail /\ a.tail \o <<a.extra>> # a.tail
    BY <1>1, TailFacts
  <2>3. b.tail \o <<>> = b.tail /\ b.tail \o <<b.extra>> # b.tail
    BY <1>1, TailFacts
  <2>4. PICK t, u, e, f : t = a.tail /\ u = b.tail /\ e = a.extra /\ f = b.extra
    OBVIOUS
  <2>5. t \in Tails /\ u \in Tails /\ e \in Extras /\ f \in Extras
    BY <1>1, <2>4
  <2>6. t \o <<e>> = u \o <<f>> <=> t = u /\ e = f
    BY <2>5, TailFacts
  <2>7. a.tail \o <<a.extra>> = b.tail \o <<b.extra>> <=> a.tail = b.tail /\ a.extra = b.extra
    BY <2>4, <2>6
  <2> QED BY <2>2, <2>3, <2>7
<1>4. CASE v = w
  <2>1. CASE v = 1
    BY <1>2, <1>3, <1>4, <2>1
  <2>2. CASE v = 2
    <3>1. w = 2 /\ v # 1 /\ w # 1
      BY <1>4, <2>2
    <3>2. Canonical(a, v) = Canonical(b, w) <=>
              /\ a.details = b.details /\ a.product = b.product
              /\ a.capability = b.capability
              /\ Truthy(a.success) = Truthy(b.success)
              /\ a.tail \o <<a.extra>> = b.tail \o <<b.extra>>
      BY <1>2, <3>1
    <3> QED BY <1>3, <1>4, <2>2, <3>2
  <2> QED BY <1>4, <2>1, <2>2
<1>5. CASE v # w
  <2>1. ASSUME Canonical(a, v) = Canonical(b, w), a.tail = b.tail PROVE FALSE
    <3>1. CASE v = 1
      <4>1. w = 2
        BY <1>5, <3>1
      <4> QED BY <1>2, <1>3, <2>1, <3>1, <4>1
    <3>2. CASE v = 2
      <4>1. w = 1
        BY <1>5, <3>2
      <4> QED BY <1>2, <1>3, <2>1, <3>2, <4>1
    <3> QED BY <3>1, <3>2
  <2> QED BY <1>5, <2>1
<1> QED BY <1>4, <1>5

\* A receipt as it is judged.
Receipt(body, algorithm, version, value, o) ==
    [body |-> body,
     signature |-> [algorithm |-> algorithm, version |-> version,
                    value |-> value, key |-> o.key, text |-> SignedText(o)]]

\* verify_receipt passes the receipts that deserve it, and no other one but
\* those read as of the other version.
LEMMA PassedIffDeserves ==
    ASSUME NEW o \in Originals, NEW body \in RelayedBodies, NEW algorithm \in Algorithms,
           NEW version \in Versions, NEW value \in Encodings,
           NEW published \in Keys \cup {Malformed, Weak},
           NEW r, r = Receipt(body, algorithm, version, value, o)
    PROVE  /\ Deserves(r, o, published) => Reason(r, published) = "ok"
           /\ Reason(r, published) = "ok" => Deserves(r, o, published) \/ Misread(r, o)
<1>1. /\ r.body = body /\ r.signature.algorithm = algorithm
      /\ r.signature.version = version /\ r.signature.value = value
      /\ r.signature.key = o.key /\ r.signature.text = SignedText(o)
  BY DEF Receipt
<1>2. /\ o.body \in Bodies /\ o.version \in {1, 2} /\ o.key \in Keys
      /\ o.key # Malformed /\ o.key # Weak /\ o.body.details # Deep
  BY KeysDistinct, DeepDistinct DEF Originals, Bodies
<1>3. PICK v : v = SignedVersion(r.signature)
  OBVIOUS
<1>4. /\ v \in {0, 1, 2}
      /\ v = 1 <=> value # "empty" /\ version \in {"absent", "1"}
      /\ v = 2 <=> value # "empty" /\ version = "2"
  BY <1>1, <1>3 DEF SignedVersion
<1>5. Reason(r, published) = "ok" <=>
          /\ algorithm # "other" /\ v # 0
          /\ value = "made" /\ published \notin {Malformed, Weak}
          /\ body.details # Deep
          /\ o.key = published /\ SignedText(o) = Canonical(body, v)
          /\ body.product = Product /\ body.capability = Capability
          /\ body.success = "true"
  <2>1. version = "infinite" /\ value # "empty" => v = 0
    BY <1>4
  <2> QED BY <1>1, <1>3, <2>1 DEF Reason, Material, Verifies, IsSuccess
<1>6. ASSUME v \in {1, 2}, body.details # Deep
      PROVE  /\ v = o.version => (SignedText(o) = Canonical(body, v) <=> Unaltered(r, o))
             /\ v # o.version /\ SignedText(o) = Canonical(body, v) => body.tail # o.body.tail
  <2>1. /\ o.version = v => (SignedText(o) = Canonical(body, v) <=>
              /\ o.body.details = body.details /\ o.body.product = body.product
              /\ o.body.capability = body.capability
              /\ Truthy(o.body.success) = Truthy(body.success)
              /\ o.body.tail = body.tail
              /\ o.version = 2 => o.body.extra = body.extra)
        /\ o.version # v /\ SignedText(o) = Canonical(body, v) => o.body.tail # body.tail
    BY <1>2, <1>6, TextsEqual DEF SignedText
  <2> QED BY <1>1, <2>1 DEF Unaltered
<1>7. WellFormed(r, o.version) <=>
          /\ value = "made" /\ algorithm # "other"
          /\ v = o.version /\ body.success = "true"
  <2>1. value = "made" => (v = o.version <=>
            version \in IF o.version = 1 THEN {"absent", "1"} ELSE {"2"})
    BY <1>2, <1>4
  <2> QED BY <1>1, <2>1 DEF WellFormed
<1>8. Unaltered(r, o) /\ body.success = "true" =>
          (Attests(o, published) <=> o.key = published /\ body.product = Product
                                     /\ body.capability = Capability)
  BY <1>1 DEF Unaltered, Attests, Truthy
<1>9. ASSUME Reason(r, published) = "ok" PROVE Deserves(r, o, published) \/ Misread(r, o)
  <2>1. v \in {1, 2} /\ body.details # Deep /\ SignedText(o) = Canonical(body, v)
    BY <1>4, <1>5, <1>9
  <2>2. CASE v = o.version
    BY <1>5, <1>6, <1>7, <1>8, <1>9, <2>1, <2>2 DEF Deserves
  <2>3. CASE v # o.version
    BY <1>1, <1>3, <1>6, <2>1, <2>3 DEF Misread
  <2> QED BY <2>2, <2>3
<1>10. ASSUME Deserves(r, o, published) PROVE Reason(r, published) = "ok"
  <2>1. /\ v = o.version /\ v \in {1, 2} /\ Unaltered(r, o) /\ body.details # Deep
    BY <1>1, <1>2, <1>7, <1>10 DEF Deserves, Unaltered
  <2>2. SignedText(o) = Canonical(body, v)
    BY <1>6, <2>1
  <2>3. o.key = published /\ body.product = Product /\ body.capability = Capability
    BY <1>7, <1>8, <1>10 DEF Deserves
  <2> QED BY <1>2, <1>5, <1>7, <1>10, <2>1, <2>2, <2>3 DEF Deserves
<1> QED BY <1>9, <1>10

-----------------------------------------------------------------------------
(* The inductive invariant of RunTrust *)

\* Nothing has been judged yet, or as it should be.
ReceiptInv ==
    /\ receipt \in {"unchecked", "verified", "refused", "raised"}
    /\ deserved \in BOOLEAN /\ misread \in BOOLEAN
    /\ receipt = "unchecked" => ~deserved
    /\ VerifiedIffDeserved

\* The search has passed nothing that raises, and stands at it if it raised.
UnnamedInv ==
    /\ \A i \in Considered(reply.text) : i < start => reply.text[i].kind \notin Unnamed
    /\ pc = "raised" =>
          \/ reply.cause \in {"unsent", "unreadable"}
          \/ start \in Considered(reply.text) /\ reply.text[start].kind \in Unnamed

TrustInv == VerdictInv /\ ReceiptInv /\ UnnamedInv

LEMMA ConsideredBraces ==
    ASSUME NEW text \in Texts
    PROVE  Considered(text) \subseteq 1..Len(text) /\ Len(text) \in Nat
BY TextFacts, OutermostFacts DEF Considered

LEMMA TrustInitInv == TrustInit => TrustInv
<1> SUFFICES ASSUME TrustInit PROVE TrustInv
  OBVIOUS
<1>1. VerdictInv
  BY InitInv DEF TrustInit
<1>2. ReceiptInv
  BY DEF TrustInit, ReceiptInv, VerifiedIffDeserved
<1>3. UnnamedInv
  <2>1. reply.text \in Texts /\ start = 1 /\ pc = "asked"
    BY <1>1 DEF TrustInit, Init, VerdictInv, SearchInv
  <2> QED BY <2>1, ConsideredBraces DEF UnnamedInv
<1> QED BY <1>1, <1>2, <1>3 DEF TrustInv

\* The receipt is judged before Metis is asked, which is left alone.
LEMMA JudgeInv ==
    ASSUME TrustInv, receipt = "unchecked", ReceiptAbsent \/ OriginUnavailable \/ OriginAnswers
    PROVE  TrustInv'
<1>1. UNCHANGED vars
  BY DEF ReceiptAbsent, OriginUnavailable, OriginAnswers
<1>2. VerdictInv' /\ UnnamedInv'
  BY <1>1 DEF TrustInv, UnnamedInv, vars, VerdictInv, TypeOK, SearchInv, StageInv, FoundIsLast,
     Returned, Searching, Assessment
<1>3. CASE ReceiptAbsent \/ OriginUnavailable
  <2>1. /\ receipt' \in {"refused", "raised"} /\ UNCHANGED <<deserved, misread>> /\ ~deserved
    BY <1>3 DEF TrustInv, ReceiptInv, ReceiptAbsent, OriginUnavailable
  <2> QED BY <1>2, <2>1 DEF TrustInv, ReceiptInv, VerifiedIffDeserved
<1>4. CASE OriginAnswers
  <2>1. PICK o \in Originals, body \in RelayedBodies, algorithm \in Algorithms,
             version \in Versions, value \in Encodings, published \in Keys \cup {Malformed, Weak} :
                LET r == Receipt(body, algorithm, version, value, o)
                    reason == Reason(r, published)
                IN  /\ deserved' = Deserves(r, o, published)
                    /\ misread' = Misread(r, o)
                    /\ receipt' = IF reason = "raises" THEN "raised"
                                  ELSE IF reason = "ok" THEN "verified" ELSE "refused"
    BY <1>4 DEF OriginAnswers, Receipt
  <2>2. PICK r, reason : r = Receipt(body, algorithm, version, value, o)
                         /\ reason = Reason(r, published)
    OBVIOUS
  <2>3. /\ deserved' = Deserves(r, o, published) /\ misread' = Misread(r, o)
        /\ receipt' \in {"verified", "refused", "raised"}
        /\ receipt' = "verified" <=> reason = "ok"
    BY <2>1, <2>2
  <2>4. /\ Deserves(r, o, published) => reason = "ok"
        /\ reason = "ok" => Deserves(r, o, published) \/ Misread(r, o)
    BY <2>2, PassedIffDeserves
  <2>5. deserved' \in BOOLEAN /\ misread' \in BOOLEAN
    BY <2>3 DEF Deserves, WellFormed, Unaltered, Attests, Misread
  <2> QED BY <1>2, <2>3, <2>4, <2>5 DEF TrustInv, ReceiptInv, VerifiedIffDeserved
<1> QED BY <1>3, <1>4

\* The loop looks at outermost braces within the limit, and at none it has
\* passed.
LEMMA CandidateUnnamed == VerdictInv /\ UnnamedInv /\ Candidate => UnnamedInv'
<1> SUFFICES ASSUME VerdictInv, UnnamedInv, Candidate PROVE UnnamedInv'
  OBVIOUS
<1>1. PICK text, s, n : text = reply.text /\ s = start /\ n = After(text, s)
  OBVIOUS
<1>2. /\ text \in Texts /\ reply'.text = text /\ pc = "scan"
      /\ s \in 1..Len(text) /\ Passed(text, s)
      /\ Cardinality(Before(text, s)) < MaxCandidates
  <2>1. s <= Len(text) /\ seen < MaxCandidates /\ s \in 1..Len(text) + 1 /\ text \in Texts
    BY <1>1 DEF Candidate, Searching, VerdictInv, SearchInv
  <2>2. s \in 1..Len(text)
    BY <2>1, TextFacts
  <2> QED BY <1>1, <2>1, <2>2 DEF Candidate, VerdictInv, SearchInv
<1>3. s \in Considered(text)
  <2>1. Cardinality(Before(text, s + 1)) = Cardinality(Before(text, s)) + 1
    BY <1>2, StepFacts
  <2>2. Cardinality(Before(text, s + 1)) <= MaxCandidates
    BY <1>2, <2>1, BeforeFinite, BoundsNatural
  <2> QED BY <1>2, <2>2, StepFacts, ConsideredFacts
<1>4. \A i \in Considered(text) : i < s => text[i].kind \notin Unnamed
  BY <1>1 DEF UnnamedInv
<1>5. CASE text[s].kind \in Unnamed
  <2>1. pc' = "raised" /\ start' = s
    BY <1>1, <1>5 DEF Candidate
  <2> QED BY <1>2, <1>3, <1>4, <1>5, <2>1 DEF UnnamedInv
<1>6. CASE text[s].kind \notin Unnamed
  <2>1. pc' = "scan" /\ start' = n
    BY <1>1, <1>2, <1>6 DEF Candidate, NextStart, After
  <2>2. \A i \in Considered(text) : i < n => i < s \/ i = s
    <3>1. Before(text, n) = Before(text, s) \cup {s}
      BY <1>1, <1>2, StepFacts
    <3> QED BY <3>1 DEF Before, Considered
  <2> QED BY <1>2, <1>4, <1>6, <2>1, <2>2 DEF UnnamedInv
<1> QED BY <1>5, <1>6

LEMMA AsksMetisInv == TrustInv /\ AsksMetis => TrustInv'
<1> SUFFICES ASSUME TrustInv, AsksMetis PROVE TrustInv'
  OBVIOUS
<1>1. Next /\ UNCHANGED <<receipt, deserved, misread>>
  BY DEF AsksMetis, trust
<1>2. VerdictInv'
  BY <1>1, PostFailsInv, PostRaisesInv, AnsweredInv, CandidateInv, DecideInv DEF Next, TrustInv
<1>3. ReceiptInv'
  BY <1>1 DEF TrustInv, ReceiptInv, VerifiedIffDeserved
<1>4. UnnamedInv'
  <2>1. CASE PostFails \/ PostRaises \/ Answered
    <3>1. /\ reply'.text \in Texts /\ start' = start /\ start = 1
          /\ pc' = "raised" => reply'.cause \in {"unsent", "unreadable"}
      BY <2>1, <1>2 DEF PostFails, PostRaises, Failure, Answered, Returns, ErrorEnvelope,
         NotPerformed, ReadsAnswer, TrustInv, VerdictInv, StageInv, SearchInv
    <3> QED BY <3>1, ConsideredBraces DEF UnnamedInv
  <2>2. CASE Candidate
    BY <2>2, CandidateUnnamed DEF TrustInv
  <2>3. CASE Decide
    BY <2>3 DEF TrustInv, UnnamedInv, Decide
  <2> QED BY <1>1, <2>1, <2>2, <2>3 DEF Next
<1> QED BY <1>2, <1>3, <1>4 DEF TrustInv

LEMMA TrustInvariance == TrustSpec => []TrustInv
<1>1. TrustInv /\ [TrustNext]_<<vars, trust>> => TrustInv'
  <2> SUFFICES ASSUME TrustInv, [TrustNext]_<<vars, trust>> PROVE TrustInv'
    OBVIOUS
  <2>1. CASE ReceiptAbsent \/ OriginUnavailable \/ OriginAnswers
    <3>1. receipt = "unchecked"
      BY <2>1 DEF ReceiptAbsent, OriginUnavailable, OriginAnswers
    <3> QED BY <2>1, <3>1, JudgeInv
  <2>2. CASE AsksMetis
    BY <2>2, AsksMetisInv
  <2>3. CASE UNCHANGED <<vars, trust>>
    BY <2>3 DEF vars, trust, TrustInv, UnnamedInv, ReceiptInv, VerifiedIffDeserved, VerdictInv,
       TypeOK, SearchInv, StageInv, FoundIsLast, Returned, Searching, Assessment
  <2> QED BY <2>1, <2>2, <2>3 DEF TrustNext
<1> QED BY <1>1, TrustInitInv, PTL DEF TrustSpec

\* When the loop ends, it has passed all that is considered.
LEMMA PassedConsidered ==
    ASSUME VerdictInv, ~Searching
    PROVE  \A i \in Considered(reply.text) : i < start
<1>1. PICK text : text = reply.text
  OBVIOUS
<1>2. /\ text \in Texts /\ start \in 1..Len(text) + 1 /\ Len(text) \in Nat
      /\ seen = Cardinality(Before(text, start)) /\ seen \in 0..MaxCandidates
      /\ Considered(text) \subseteq 1..Len(text)
  BY <1>1, TextFacts, ConsideredBraces DEF VerdictInv, SearchInv, TypeOK
<1>3. CASE start > Len(text)
  BY <1>1, <1>2, <1>3
<1>4. CASE seen >= MaxCandidates
  BY <1>1, <1>2, <1>4, LimitReached
<1>5. start > Len(text) \/ seen >= MaxCandidates
  BY <1>1, <1>2, BoundsNatural DEF Searching
<1> QED BY <1>3, <1>4, <1>5

-----------------------------------------------------------------------------
(* The theorems about RunTrust *)

\* Every step of a run from the receipt on is one of MetisVerdict's or leaves it
\* alone.
LEMMA RunVerifies == TrustSpec => Spec
<1>1. TrustInit => Init
  BY DEF TrustInit
<1>2. [TrustNext]_<<vars, trust>> => [Next]_vars
  BY DEF TrustNext, ReceiptAbsent, OriginUnavailable, OriginAnswers, AsksMetis, vars
<1> QED BY <1>1, <1>2, PTL DEF TrustSpec, Spec

\* So in a run too the verdict is the last one considered, green is deserved by
\* it, and each cause of none is displayed: what one verification ensures.
THEOREM RunKeepsVerdict == TrustSpec => [](FoundIsLast /\ GreenIsDeserved /\ CausesAreShown)
BY RunVerifies, SearchFindsLast, GreenIsAlwaysDeserved, CausesAreAlwaysShown, PTL

\* Every variable of the run keeps its type, for answers of any length.
THEOREM TrustTypeCorrect == TrustSpec => []TrustTypeOK
<1>1. TrustInv => TrustTypeOK
  BY DEF TrustInv, VerdictInv, ReceiptInv, TrustTypeOK
<1> QED BY <1>1, TrustInvariance, PTL

\* receipts.py: a receipt passes if the key the origin publishes signed what is
\* shown of it, whatever was changed besides; and only then, unless its text is
\* read as of the version it was not signed as.
THEOREM VerifiedAlwaysDeserved == TrustSpec => []VerifiedIffDeserved
<1>1. TrustInv => VerifiedIffDeserved
  BY DEF TrustInv, ReceiptInv
<1> QED BY <1>1, TrustInvariance, PTL

\* runner.py and playground.js: VERIFIED is shown only with a receipt that
\* deserves it, up to that exception, and the verdict that turns the reading
\* green.
THEOREM VerifiedAlwaysNeedsBoth == TrustSpec => []VerifiedNeedsBoth
<1>1. TrustInv => VerifiedNeedsBoth
  BY DEF TrustInv, ReceiptInv, VerifiedIffDeserved, VerifiedNeedsBoth, ShowsVerified, Shown
<1> QED BY <1>1, TrustInvariance, PTL

\* runner.py: behind its receipt a run fails only by a request that cannot be
\* sent, an answer that cannot be read, or a score or value that raises where
\* the search looks; and what raises there is never passed over.
THEOREM OnlyUnnamedAlwaysRaises == TrustSpec => []OnlyUnnamedRaises
<1>1. TrustInv => OnlyUnnamedRaises
  <2> SUFFICES ASSUME TrustInv
               PROVE  LET odd == {i \in Considered(reply.text) : reply.text[i].kind \in Unnamed}
                      IN  /\ pc = "raised" => reply.cause \in {"unsent", "unreadable"} \/ odd # {}
                          /\ pc = "done" /\ verdict.assessment # "none" => odd = {}
    BY DEF OnlyUnnamedRaises
  <2>1. pc = "raised" =>
            \/ reply.cause \in {"unsent", "unreadable"}
            \/ {i \in Considered(reply.text) : reply.text[i].kind \in Unnamed} # {}
    BY DEF TrustInv, UnnamedInv
  <2>2. ASSUME pc = "done", verdict.assessment # "none"
        PROVE  {i \in Considered(reply.text) : reply.text[i].kind \in Unnamed} = {}
    <3>1. Returned
      BY <2>2 DEF TrustInv, VerdictInv, StageInv
    <3>2. \A status, source : Outcome(status, source).assessment = "none"
      BY DEF Outcome
    <3>3. ~Searching
      BY <2>2, <3>1, <3>2 DEF Returned
    <3>4. \A i \in Considered(reply.text) : i < start
      BY <3>3, PassedConsidered DEF TrustInv
    <3> QED BY <3>4 DEF TrustInv, UnnamedInv
  <2> QED BY <2>1, <2>2
<1> QED BY <1>1, TrustInvariance, PTL

=============================================================================
