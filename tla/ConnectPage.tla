---------------------------- MODULE ConnectPage ----------------------------
(***************************************************************************)
(* The page at /connect (playground/static/connect.js) in front of the     *)
(* provider check, of which it needs what OneInvoke promises.  Requests    *)
(* and answers may be lost; a request the page gave up may still be        *)
(* served; the server may restart and forget every challenge.              *)
(***************************************************************************)
EXTENDS Naturals, FiniteSets

CONSTANTS
    Manifests,         \* contents of the form the server would take
    Unreadable,        \* any content that is no JSON object, or too long
    ChallengeBound,    \* bound of the model: submissions, and challenges
    FileBound          \* bound of the model: files being read at once

ASSUME UnreadableApart == Unreadable \notin Manifests
ASSUME ConnectBounds == ChallengeBound \in Nat /\ FileBound \in Nat

Challenges == 1..ChallengeBound
Texts == Manifests \cup {Unreadable}
Reports == {"passed", "failed"}

VARIABLES
    form,          \* manifest and input
    reading,       \* files whose text() is awaited
    challenge,     \* 0 for null
    report,        \* none for null
    panel,         \* which of the three panels is not hidden
    state,         \* the status line
    error,         \* is an error shown?
    req,           \* the request api() awaits; busy is true exactly meanwhile
    submits,       \* submissions so far
    overtaken,     \* history: a file arrived while busy, in this connection
    strays,        \* requests the page gave up that may yet arrive
    phase,         \* the server's challenges, as in OneInvoke
    bound,         \* challenge -> the form it was issued for
    outcome        \* challenge -> the report stored for it

Server == INSTANCE OneInvoke

page == <<challenge, report, panel, state, error, overtaken>>
server == <<phase, bound, outcome>>
vars == <<form, reading, page, req, submits, strays, server>>

Request(kind, text, c) == [kind |-> kind, text |-> text, chal |-> c, stage |-> "sent",
                           answer |-> "none"]
At(r, stage) == [kind |-> r.kind, text |-> r.text, chal |-> r.chal, stage |-> stage,
                 answer |-> r.answer]
Answered(r, c, answer) == [kind |-> r.kind, text |-> r.text, chal |-> c,
                           stage |-> "answered", answer |-> answer]
NoRequest == Request("none", Unreadable, 0)
Busy == req # NoRequest

Init ==
    /\ form = Unreadable /\ reading = {}
    /\ challenge = 0 /\ report = "none" /\ panel = "empty" /\ state = "ready"
    /\ error = FALSE /\ overtaken = FALSE
    /\ req = NoRequest /\ submits = 0 /\ strays = {}
    /\ Server!Init
    /\ bound = [c \in Challenges |-> Unreadable]
    /\ outcome = [c \in Challenges |-> "none"]

-----------------------------------------------------------------------------
(* The visitor *)

ForgetAllButReport ==            \* mutant: the report is kept
    challenge' = 0 /\ panel' = "empty" /\ UNCHANGED report

Forget == challenge' = 0 /\ report' = "none" /\ panel' = "empty"

\* invalidate(), when it does not return at once because busy.
Invalidate == Forget /\ state' = "ready" /\ error' = FALSE /\ overtaken' = FALSE

Edit ==
    /\ ~Busy
    /\ form' \in Texts
    /\ Invalidate
    /\ UNCHANGED <<reading, req, submits, strays, server>>

ChooseFile ==
    /\ ~Busy
    /\ Cardinality(reading) < FileBound
    /\ \E text \in Texts : reading' = reading \cup {text}
    /\ UNCHANGED <<form, page, req, submits, strays, server>>

FileTooLarge ==
    /\ ~Busy
    /\ error' = TRUE
    /\ UNCHANGED <<form, reading, challenge, report, panel, state, overtaken, req, submits,
                   strays, server>>

ImportKeeps == UNCHANGED <<challenge, report, panel, state, error, overtaken>>
                                 \* mutant: a file does not invalidate

Imported ==
    IF Busy THEN overtaken' = TRUE /\ UNCHANGED <<challenge, report, panel, state, error>>
    ELSE Invalidate

\* The awaited text arrives, in any order, busy or not.
FileRead ==
    /\ \E text \in reading :
          /\ form' = text
          /\ reading' = reading \ {text}
    /\ Imported
    /\ UNCHANGED <<req, submits, strays, server>>

Submit ==
    /\ ~Busy
    /\ submits < ChallengeBound
    /\ Forget /\ overtaken' = FALSE
    /\ \/ /\ form = Unreadable
          /\ state' = "ready" /\ error' = TRUE
          /\ UNCHANGED <<req, submits>>
       \/ /\ form # Unreadable
          /\ state' = "working" /\ error' = FALSE
          /\ req' = Request("prepare", form, 0)
          /\ submits' = submits + 1
    /\ UNCHANGED <<form, reading, strays, server>>

\* The button is in the proof panel.
Run ==
    /\ challenge # 0 /\ ~Busy /\ panel = "proof"
    /\ state' = "working" /\ error' = FALSE
    /\ req' = Request("run", Unreadable, challenge)
    /\ UNCHANGED <<form, reading, challenge, report, panel, overtaken, submits, strays, server>>

\* What becomes of a request the page no longer waits for.
GiveUp == strays' = strays \/ (req.stage = "sent" /\ Busy /\ strays' = strays \cup {req})

Reload ==
    /\ Invalidate
    /\ form' \in Texts /\ reading' = {}
    /\ req' = NoRequest /\ GiveUp
    /\ UNCHANGED <<submits, server>>

-----------------------------------------------------------------------------
(* The server *)

\* r is answered: the page gets it, unless it gave r up.
Answers(r, c, answer) ==
    IF r = req
    THEN /\ req' = Answered(r, c, answer)
         /\ UNCHANGED strays
    ELSE strays' = strays \ {r} /\ UNCHANGED req

\* Consent, allowance, capacity or the manifest; or a challenge is issued.
ServePrepare(r) ==
    \/ Answers(r, 0, "refused") /\ UNCHANGED server
    \/ \E c \in Challenges :
          /\ Server!Issue(c) /\ \A b \in 1..c - 1 : phase[b] # "none"
          /\ bound' = [bound EXCEPT ![c] = r.text]
          /\ Answers(r, c, "issued")
          /\ UNCHANGED outcome

AnswersRunWaiting(r) ==          \* mutant: a check that runs is waited for
    /\ phase[r.chal] # "reported" /\ phase[r.chal] # "invoking"
    /\ Answers(r, r.chal, "refused")

\* 404, 409, 422 or 429; or the stored report.
AnswersRun(r) ==
    \/ phase[r.chal] # "reported" /\ Answers(r, r.chal, "refused")
    \/ phase[r.chal] = "reported" /\ Answers(r, r.chal, outcome[r.chal])

ServeRun(r) ==
    \/ AnswersRun(r) /\ UNCHANGED server
    \/ /\ Server!Invoke(r.chal)
       /\ IF r = req THEN req' = At(r, "waiting") /\ UNCHANGED strays
          ELSE strays' = strays \ {r} /\ UNCHANGED req
       /\ UNCHANGED <<bound, outcome>>

Serve ==
    /\ \E r \in strays \cup {req} :
          /\ r.stage = "sent"
          /\ \/ r.kind = "prepare" /\ ServePrepare(r)
             \/ r.kind = "run" /\ ServeRun(r)
    /\ UNCHANGED <<form, reading, page, submits>>

\* The invoke ends, or is interrupted: within 25 seconds.
Report ==
    /\ \E c \in Challenges, result \in Reports :
          /\ Server!Report(c)
          /\ outcome' = [outcome EXCEPT ![c] = result]
          /\ req' = IF req.stage = "waiting" /\ req.chal = c
                    THEN Answered(req, c, result)
                    ELSE req
    /\ UNCHANGED <<form, reading, page, submits, strays, bound>>

Expire ==
    /\ \E gone \in (SUBSET Challenges) \ {{}} : Server!Forget(gone)
    /\ UNCHANGED <<form, reading, page, req, submits, strays, bound, outcome>>

Restart ==
    /\ phase' = [c \in Challenges |-> IF phase[c] = "none" THEN "none" ELSE "gone"]
    /\ req' = IF req.stage = "waiting" THEN Answered(req, req.chal, "refused") ELSE req
    /\ UNCHANGED <<form, reading, page, submits, strays, bound, outcome>>

-----------------------------------------------------------------------------
(* The answer *)

FailsForgetting ==               \* mutant: an error ends the connection
    /\ state' = "failed" /\ error' = TRUE /\ challenge' = 0
    /\ UNCHANGED <<report, panel, overtaken>>

\* status("failed") and showError().
Fails ==
    /\ state' = "failed" /\ error' = TRUE
    /\ UNCHANGED <<challenge, report, panel, overtaken>>

Prepared ==
    /\ challenge' = req.chal /\ panel' = "proof" /\ state' = "proofReady"
    /\ UNCHANGED <<report, error, overtaken>>

Ran ==
    /\ report' = req.answer /\ panel' = "report" /\ state' = req.answer
    /\ UNCHANGED <<challenge, error, overtaken>>

Refused == req.answer = "refused"

Deliver ==
    /\ req.stage = "answered"
    /\ \/ Refused /\ Fails
       \/ ~Refused /\ req.kind = "prepare" /\ Prepared
       \/ ~Refused /\ req.kind = "run" /\ Ran
    /\ req' = NoRequest
    /\ UNCHANGED <<form, reading, submits, strays, server>>

\* The connection breaks, before or after the server was reached.
NetworkFails ==
    /\ Busy
    /\ Fails
    /\ req' = NoRequest /\ GiveUp
    /\ UNCHANGED <<form, reading, submits, server>>

\* Nothing arrives, and nothing says so: fetch has no timeout here.
Stall ==
    /\ Busy /\ req.stage # "stalled"
    /\ req' = At(NoRequest, "stalled") /\ GiveUp
    /\ UNCHANGED <<form, reading, page, submits, server>>

-----------------------------------------------------------------------------

Next ==
    \/ Edit \/ ChooseFile \/ FileTooLarge \/ FileRead \/ Submit \/ Run \/ Reload
    \/ Serve \/ Report \/ Expire \/ Restart
    \/ Deliver \/ NetworkFails \/ Stall

\* The server serves what arrives and ends every invoke (EveryCheckEnds of
\* ProviderCheckApi); an answer that arrives is handled.
Spec == Init /\ [][Next]_vars /\ WF_vars(Serve) /\ WF_vars(Report) /\ WF_vars(Deliver)

-----------------------------------------------------------------------------
(* Properties *)

Served == [kind : {"none", "prepare", "run"}, text : Texts, chal : 0..ChallengeBound,
           stage : {"sent", "waiting", "answered", "stalled"},
           answer : {"none", "refused", "issued"} \cup Reports]

\* Every variable stays in its type.
TypeOK ==
    /\ form \in Texts /\ reading \subseteq Texts
    /\ challenge \in 0..ChallengeBound
    /\ report \in {"none"} \cup Reports
    /\ panel \in {"empty", "proof", "report"}
    /\ state \in {"ready", "working", "proofReady"} \cup Reports
    /\ error \in BOOLEAN /\ overtaken \in BOOLEAN
    /\ req \in Served /\ strays \subseteq Served
    /\ submits \in 0..ChallengeBound
    /\ phase \in [Challenges -> Server!Phases]
    /\ bound \in [Challenges -> Texts]
    /\ outcome \in [Challenges -> {"none"} \cup Reports]

\* docs/provider-check.md:19-20: the challenge is bound to manifest and input,
\* and the page shows those it was issued for, unless a chosen file was still
\* being read when the form was submitted (connect.js:66 returns because busy).
FormIsBound == challenge # 0 /\ ~overtaken => form = bound[challenge]

\* A report is shown with the challenge it was stored for, whichever of its
\* run requests was answered, and after the server has forgotten both.
ShownIsStored == report # "none" => challenge # 0 /\ report = outcome[challenge]

\* One panel belongs to each state of the connection: as long as a challenge
\* has no report the button that asks for it again is there, whatever failed.
PanelsAgree ==
    /\ panel = "report" <=> report # "none"
    /\ panel = "proof" <=> challenge # 0 /\ report = "none"
    /\ state = "working" <=> Busy
    /\ state = "passed" => report = "passed"
    /\ state = "failed" => error \/ report = "failed"

\* Only a connection that neither answers nor breaks keeps the page waiting.
WaitsOnlyForNetwork == Busy ~> (~Busy \/ req.stage = "stalled")

=============================================================================
