---------------------------- MODULE MetisVerdict ----------------------------
(***************************************************************************)
(* One verification by Metis: _verify of playground/runner.py, its search  *)
(* for a verdict in the answer (_verdict_object, _assessment_verdict), and *)
(* how showResult of the page reads what it returns.                       *)
(*                                                                         *)
(* An answer's text is the sequence of its opening braces.  Each either    *)
(* begins no JSON value, or one nested too deep for the decoder, or an     *)
(* object that spans some of the braces after it; an object echoes this    *)
(* run's audit_id or it does not.                                          *)
(***************************************************************************)
EXTENDS Naturals, Sequences, FiniteSets

CONSTANTS
    MaxCandidates,   \* _MAX_VERDICT_CANDIDATES
    MaxBraces        \* bound of the model: opening braces of an answer

ASSUME BoundsNatural == MaxCandidates \in Nat /\ MaxBraces \in Nat

VARIABLES
    pc,              \* asked, scan, done; or raised, an exception of _verify
    reply,           \* what the POST to Metis came to
    start, seen,     \* the loop of _verdict_object: the next brace, the count
    found,           \* and the verdict it has
    verdict          \* what _verify returns, where the page reads it

vars == <<pc, reply, start, seen, found, verdict>>

-----------------------------------------------------------------------------
(* What Metis may answer *)

\* Without the id; with it but of the wrong shape; with a score float()
\* cannot convert; or a verdict.
Objects  == {"foreign", "malformed", "huge", "yes", "no"}
Verdicts == {"yes", "no"}
Values   == {"broken", "deep"} \cup Objects
Braces   == [kind : Values, span : 0..MaxBraces]

\* Objects nest.  (A brace quoted in a string of one object could begin an
\* object that ends behind it; the search reads neither, and it is left out.)
Opaque(b) == b.kind \in {"broken", "deep"}
WellNested(text) ==
    \A i \in DOMAIN text :
        LET last == i + text[i].span
        IN  /\ last <= Len(text)
            /\ Opaque(text[i]) => text[i].span = 0
            /\ \A j \in i..last : j + text[j].span <= last

Texts == {text \in UNION {[1..n -> Braces] : n \in 0..MaxBraces} : WellNested(text)}

\* The body as the code reads it: `verified' and `performed' say `is True',
\* `line' is the word of the first line VERDICT: ..., `split' a jury's outcome.
\* Any other body, and one that is not JSON, reads as status error.  The status
\* is any text, one of those the playground itself returns among them.
OwnStatuses == {"timeout", "unavailable", "not_performed"}
Statuses == {"error", "success", "needs_clarification", "other"} \cup OwnStatuses
Answers ==
    [cause : {"answer"}, status : Statuses,
     timedOut : BOOLEAN, verified : BOOLEAN, performed : BOOLEAN,
     text : Texts, line : {"none", "plausible", "implausible"}, split : BOOLEAN]

Failure(cause) ==
    [cause |-> cause, status |-> "error", timedOut |-> FALSE, verified |-> FALSE,
     performed |-> FALSE, text |-> <<>>, line |-> "none", split |-> FALSE]

Outcome(status, source) ==
    [status |-> status, source |-> source, verified |-> FALSE,
     assessment |-> "none", assessed |-> FALSE, split |-> FALSE]
NoVerdict == Outcome("none", "none")

Init ==
    /\ pc = "asked"
    /\ reply = Failure("none")
    /\ start = 1 /\ seen = 0 /\ found = "none"
    /\ verdict = NoVerdict

-----------------------------------------------------------------------------
(* _verify *)

Returns(outcome) ==
    /\ pc' = "done"
    /\ verdict' = outcome
    /\ UNCHANGED <<start, seen, found>>

\* ReadTimeout; or another transport error, or a status of 400 and above.
PostFails ==
    /\ pc = "asked"
    /\ \/ reply' = Failure("timeout") /\ Returns(Outcome("timeout", "playground"))
       \/ reply' = Failure("unavailable") /\ Returns(Outcome("unavailable", "none"))

\* An exception no handler names: the reading cannot be encoded, or the body is
\* nested too deep for json.loads (a RecursionError is no ValueError).
PostRaises ==
    /\ pc = "asked"
    /\ \E cause \in {"unsent", "unreadable"} : reply' = Failure(cause)
    /\ pc' = "raised"
    /\ UNCHANGED <<start, seen, found, verdict>>

PerformedAlways(b) == TRUE       \* mutant: the flag is not asked for

\* An answer that is verified was checked, whatever the flag says.
Performed(b) == b.performed \/ b.verified

ErrorEnvelope(b) ==
    /\ b.status = "error"
    /\ Returns(IF b.timedOut THEN Outcome("timeout", "metis") ELSE Outcome("error", "none"))

NotPerformed(b) ==
    /\ b.status = "success"
    /\ ~Performed(b)
    /\ Returns(Outcome("not_performed", "none"))

ReadsAnswer(b) ==
    /\ b.status # "error"
    /\ b.status = "success" => Performed(b)
    /\ pc' = "scan"
    /\ UNCHANGED <<start, seen, found, verdict>>

Answered ==
    /\ pc = "asked"
    /\ \E b \in Answers :
          /\ reply' = b
          /\ ErrorEnvelope(b) \/ NotPerformed(b) \/ ReadsAnswer(b)

SearchingOn ==                   \* mutant: the count is not limited
    start <= Len(reply.text)

\* `while' of _verdict_object.
Searching == start <= Len(reply.text) /\ seen < MaxCandidates

NextBrace(b) == start + 1        \* mutant: objects inside objects are read

\* find("{", end) after an object, find("{", start + 1) otherwise.
NextStart(b) == start + b.span + 1

\* float() of a huge score, raw_decode of a deep value: neither is a ValueError.
Unnamed == {"huge", "deep"}

Take(b) == IF b.kind \in Verdicts THEN b.kind ELSE found

Candidate ==
    /\ pc = "scan"
    /\ Searching
    /\ LET b == reply.text[start]
       IN  IF b.kind \in Unnamed
           THEN pc' = "raised" /\ UNCHANGED <<start, seen, found>>
           ELSE /\ seen' = seen + 1
                /\ start' = NextStart(b)
                /\ found' = Take(b)
                /\ UNCHANGED pc
    /\ UNCHANGED <<reply, verdict>>

LineFirst ==                     \* mutant: a line is preferred to the object
    IF reply.line # "none" THEN reply.line
    ELSE IF found = "yes" THEN "plausible"
    ELSE IF found = "no" THEN "implausible" ELSE "unknown"

\* The object decides; without one, the first VERDICT line.
Assessment ==
    IF found = "yes" THEN "plausible"
    ELSE IF found = "no" THEN "implausible"
    ELSE IF reply.line # "none" THEN reply.line ELSE "unknown"

Decide ==
    /\ pc = "scan"
    /\ ~Searching
    /\ pc' = "done"
    /\ verdict' = [status |-> reply.status, source |-> "none",
                   verified |-> reply.verified /\ Assessment = "plausible",
                   assessment |-> Assessment, assessed |-> reply.verified,
                   split |-> reply.split]
    /\ UNCHANGED <<reply, start, seen, found>>

Next == PostFails \/ PostRaises \/ Answered \/ Candidate \/ Decide

Spec == Init /\ [][Next]_vars

-----------------------------------------------------------------------------
(* showResult: the detail of the Metis step, first match first *)

ShownStatus ==
    CASE verdict.status = "timeout" ->
             IF verdict.source = "metis" THEN "timeout by metis" ELSE "timeout by playground"
      [] verdict.status \in {"unavailable", "error", "not_performed", "needs_clarification"} ->
             verdict.status
      [] OTHER -> "below threshold"

Shown ==
    IF verdict.verified THEN "plausible and verified"
    ELSE IF verdict.assessment = "implausible" THEN "implausible"
    ELSE IF verdict.split THEN "split"
    ELSE IF verdict.assessment = "unknown" /\ verdict.assessed THEN "unstructured"
    ELSE ShownStatus

-----------------------------------------------------------------------------
(* Properties *)

\* Every variable stays in its type.
TypeOK ==
    /\ pc \in {"asked", "scan", "done", "raised"}
    /\ reply \in Answers \cup
          {Failure(c) : c \in {"none", "timeout", "unavailable", "unsent", "unreadable"}}
    /\ start \in 1..MaxBraces + 1
    /\ seen \in 0..MaxCandidates
    /\ found \in {"none"} \cup Verdicts
    /\ verdict \in
          [status : {"none"} \cup Statuses,
           source : {"none", "playground", "metis"}, verified : BOOLEAN,
           assessment : {"none", "plausible", "implausible", "unknown"},
           assessed : BOOLEAN, split : BOOLEAN]

\* The braces no object encloses, the first MaxCandidates of them, and the
\* verdicts among these: written without the loop.
Outermost(text) ==
    {i \in DOMAIN text : \A j \in 1..i - 1 : Opaque(text[j]) \/ j + text[j].span < i}
Considered(text) ==
    {i \in Outermost(text) : Cardinality({j \in Outermost(text) : j <= i}) <= MaxCandidates}
VerdictsIn(text) == {i \in Considered(text) : text[i].kind \in Verdicts}

\* _verdict_object: the verdict is that of the last object that echoes the id
\* among the first MaxCandidates outermost braces, broken ones counted, and at
\* every moment of the search it is that of the last one so far.
FoundIsLast ==
    LET sofar == {i \in VerdictsIn(reply.text) : i < start}
    IN  /\ found = "none" <=> sofar = {}
        /\ found # "none" =>
              \E i \in sofar : found = reply.text[i].kind /\ \A j \in sofar : j <= i

\* A reading turns green only if Metis' critic passed the assessment and the
\* part of it that is searched calls it plausible: in the last verdict object
\* among the first MaxCandidates outermost braces or, when there is none among
\* these, in the first VERDICT line.  What is behind them is not looked at: a
\* verdict there, though the last of the answer, has no effect.
GreenIsDeserved ==
    Shown = "plausible and verified" =>
        /\ reply.cause = "answer" /\ reply.verified
        /\ LET ours == VerdictsIn(reply.text)
           IN  \/ ours = {} /\ reply.line = "plausible"
               \/ \E i \in ours : reply.text[i].kind = "yes" /\ \A j \in ours : j <= i

Says(status) == reply.cause = "answer" /\ reply.status = status
Unchecked == Says("success") /\ ~reply.performed /\ ~reply.verified

\* Each way not to get a verdict is displayed as what it is, and no other
\* answer is displayed so, unless Metis calls its status by the same word
\* (runner.py:146 hands it on).
CausesAreShown ==
    pc = "done" =>
        /\ reply.cause = "timeout" => Shown = "timeout by playground"
        /\ reply.cause = "unavailable" => Shown = "unavailable"
        /\ Unchecked => Shown = "not_performed"
        /\ Says("error") <=> Shown \in {"timeout by metis", "error"}
        /\ Shown = "timeout by metis" => reply.timedOut
        /\ Shown = "timeout by playground" => reply.cause = "timeout" \/ Says("timeout")
        /\ Shown = "unavailable" => reply.cause = "unavailable" \/ Says("unavailable")
        /\ Shown = "not_performed" => Unchecked \/ Says("not_performed")

\* README.md:134-136: a response without the flag is displayed as not
\* checked, "never as a genuine zero-score verdict".
UncheckedIsNoScore ==
    pc = "done" /\ reply.cause = "answer" /\ ~reply.performed =>
        Shown # "below threshold"

=============================================================================
