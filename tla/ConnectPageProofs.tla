------------------------- MODULE ConnectPageProofs -------------------------
(***************************************************************************)
(* Theorems about ConnectPage: what the connection shows belongs together, *)
(* for any number of challenges, of files being read and of requests the   *)
(* page has given up.                                                      *)
(***************************************************************************)
EXTENDS ConnectPage, TLAPS

-----------------------------------------------------------------------------
(* The inductive invariant *)

\* A report is stored as its invoke ends, and what is stored stays.
Stored ==
    \A c \in Challenges :
        /\ outcome[c] # "none" => phase[c] \in {"reported", "gone"}
        /\ phase[c] = "reported" => outcome[c] # "none"

\* The challenge of the page, and that of a run request, have been issued.
Issued ==
    /\ challenge # 0 => phase[challenge] # "none"
    /\ \A r \in strays \cup {req} :
          /\ r.kind = "run" => r.chal \in Challenges
          /\ r.stage = "answered" <=> r.answer # "none"

\* A prepare request is for the form as it was when it was sent.
PrepareOK ==
    req.kind = "prepare" =>
        /\ challenge = 0 /\ report = "none" /\ req.stage # "waiting"
        /\ form = req.text \/ overtaken
        /\ req.answer \in {"none", "refused", "issued"}
        /\ req.answer = "issued" =>
              /\ req.chal \in Challenges
              /\ phase[req.chal] # "none" /\ bound[req.chal] = req.text

\* A run request is for the challenge of the page, which has no report.
RunOK ==
    req.kind = "run" =>
        /\ req.chal = challenge /\ report = "none"
        /\ req.answer \notin {"none", "refused"} => req.answer = outcome[challenge]

ConnectInv ==
    /\ TypeOK /\ Stored /\ Issued /\ PrepareOK /\ RunOK
    /\ FormIsBound /\ ShownIsStored /\ PanelsAgree

LEMMA RequestTypes ==
    ASSUME NEW r \in Served
    PROVE  /\ \A stage \in {"sent", "waiting", "answered", "stalled"} : At(r, stage) \in Served
           /\ \A c \in 0..ChallengeBound, answer \in {"none", "refused", "issued"} \cup Reports :
                 Answered(r, c, answer) \in Served
BY DEF Served, At, Answered

LEMMA RequestType ==
    ASSUME NEW kind \in {"none", "prepare", "run"}, NEW text \in Texts,
           NEW c \in 0..ChallengeBound
    PROVE  Request(kind, text, c) \in Served
BY DEF Request, Served

LEMMA NoRequestType ==
    /\ NoRequest \in Served
    /\ NoRequest.kind = "none" /\ NoRequest.stage = "sent" /\ NoRequest.answer = "none"
BY ConnectBounds DEF NoRequest, Request, Served, Texts

LEMMA ChallengesPositive == 0 \notin Challenges /\ Challenges \subseteq 0..ChallengeBound
BY ConnectBounds DEF Challenges

LEMMA InitInv == Init => ConnectInv
<1> SUFFICES ASSUME Init PROVE ConnectInv
  OBVIOUS
<1> USE DEF Init, Server!Init
<1>1. TypeOK
  <2>1. form \in Texts /\ reading \subseteq Texts /\ bound \in [Challenges -> Texts]
    BY DEF Texts
  <2>2. challenge \in 0..ChallengeBound /\ submits \in 0..ChallengeBound
    BY ConnectBounds
  <2>3. req \in Served /\ strays \subseteq Served
    BY NoRequestType
  <2>4. phase \in [Challenges -> Server!Phases]
    BY DEF Server!Phases
  <2> QED BY <2>1, <2>2, <2>3, <2>4 DEF TypeOK
<1>2. Stored
  BY DEF Stored
<1>3. Issued /\ PrepareOK /\ RunOK
  BY NoRequestType DEF Issued, PrepareOK, RunOK
<1>4. FormIsBound /\ ShownIsStored /\ PanelsAgree
  BY DEF FormIsBound, ShownIsStored, PanelsAgree, Busy
<1> QED BY <1>1, <1>2, <1>3, <1>4 DEF ConnectInv

-----------------------------------------------------------------------------
(* The page *)

LEMMA EditInv == ConnectInv /\ Edit => ConnectInv'
<1> SUFFICES ASSUME ConnectInv, Edit PROVE ConnectInv'
  OBVIOUS
<1> USE DEF ConnectInv, Edit, Invalidate, Forget, server
<1>1. TypeOK'
  <2>1. form' \in Texts /\ reading' \subseteq Texts
    BY DEF TypeOK, Texts
  <2>2. challenge' \in 0..ChallengeBound /\ submits' \in 0..ChallengeBound
    BY ConnectBounds DEF TypeOK
  <2>3. /\ report' \in {"none"} \cup Reports /\ panel' \in {"empty", "proof", "report"}
       /\ state' \in {"ready", "working", "proofReady"} \cup Reports
       /\ error' \in BOOLEAN /\ overtaken' \in BOOLEAN
    BY DEF TypeOK
  <2>4. req' \in Served /\ strays' \subseteq Served
    BY NoRequestType, ConnectBounds DEF TypeOK
  <2>5. /\ phase' \in [Challenges -> Server!Phases] /\ bound' \in [Challenges -> Texts]
       /\ outcome' \in [Challenges -> {"none"} \cup Reports]
    BY DEF TypeOK
  <2> QED BY <2>1, <2>2, <2>3, <2>4, <2>5 DEF TypeOK
<1>2. Stored'
  BY DEF Stored
<1>3. Issued'
  BY NoRequestType DEF Issued
<1>4. PrepareOK'
  BY NoRequestType DEF PrepareOK, Busy
<1>5. RunOK'
  BY NoRequestType DEF RunOK, Busy
<1>6. FormIsBound'
  BY DEF FormIsBound, Busy
<1>7. ShownIsStored'
  BY DEF ShownIsStored
<1>8. PanelsAgree'
  BY DEF PanelsAgree, Busy
<1> QED BY <1>1, <1>2, <1>3, <1>4, <1>5, <1>6, <1>7, <1>8 DEF ConnectInv

LEMMA ChooseFileInv == ConnectInv /\ ChooseFile => ConnectInv'
<1> SUFFICES ASSUME ConnectInv, ChooseFile PROVE ConnectInv'
  OBVIOUS
<1> USE DEF ConnectInv, ChooseFile, page, server
<1>1. TypeOK'
  <2>1. form' \in Texts /\ reading' \subseteq Texts
    BY DEF TypeOK, Texts
  <2>2. challenge' \in 0..ChallengeBound /\ submits' \in 0..ChallengeBound
    BY ConnectBounds DEF TypeOK
  <2>3. /\ report' \in {"none"} \cup Reports /\ panel' \in {"empty", "proof", "report"}
       /\ state' \in {"ready", "working", "proofReady"} \cup Reports
       /\ error' \in BOOLEAN /\ overtaken' \in BOOLEAN
    BY DEF TypeOK
  <2>4. req' \in Served /\ strays' \subseteq Served
    BY NoRequestType, ConnectBounds DEF TypeOK
  <2>5. /\ phase' \in [Challenges -> Server!Phases] /\ bound' \in [Challenges -> Texts]
       /\ outcome' \in [Challenges -> {"none"} \cup Reports]
    BY DEF TypeOK
  <2> QED BY <2>1, <2>2, <2>3, <2>4, <2>5 DEF TypeOK
<1>2. Stored'
  BY DEF Stored
<1>3. Issued'
  BY DEF Issued
<1>4. PrepareOK'
  BY DEF PrepareOK, Busy
<1>5. RunOK'
  BY DEF RunOK, Busy
<1>6. FormIsBound'
  BY DEF FormIsBound, Busy
<1>7. ShownIsStored'
  BY DEF ShownIsStored
<1>8. PanelsAgree'
  BY DEF PanelsAgree, Busy
<1> QED BY <1>1, <1>2, <1>3, <1>4, <1>5, <1>6, <1>7, <1>8 DEF ConnectInv

LEMMA FileTooLargeInv == ConnectInv /\ FileTooLarge => ConnectInv'
<1> SUFFICES ASSUME ConnectInv, FileTooLarge PROVE ConnectInv'
  OBVIOUS
<1> USE DEF ConnectInv, FileTooLarge, server
<1>1. TypeOK'
  <2>1. form' \in Texts /\ reading' \subseteq Texts
    BY DEF TypeOK, Texts
  <2>2. challenge' \in 0..ChallengeBound /\ submits' \in 0..ChallengeBound
    BY ConnectBounds DEF TypeOK
  <2>3. /\ report' \in {"none"} \cup Reports /\ panel' \in {"empty", "proof", "report"}
       /\ state' \in {"ready", "working", "proofReady"} \cup Reports
       /\ error' \in BOOLEAN /\ overtaken' \in BOOLEAN
    BY DEF TypeOK
  <2>4. req' \in Served /\ strays' \subseteq Served
    BY NoRequestType, ConnectBounds DEF TypeOK
  <2>5. /\ phase' \in [Challenges -> Server!Phases] /\ bound' \in [Challenges -> Texts]
       /\ outcome' \in [Challenges -> {"none"} \cup Reports]
    BY DEF TypeOK
  <2> QED BY <2>1, <2>2, <2>3, <2>4, <2>5 DEF TypeOK
<1>2. Stored'
  BY DEF Stored
<1>3. Issued'
  BY DEF Issued
<1>4. PrepareOK'
  BY DEF PrepareOK, Busy
<1>5. RunOK'
  BY DEF RunOK, Busy
<1>6. FormIsBound'
  BY DEF FormIsBound, Busy
<1>7. ShownIsStored'
  BY DEF ShownIsStored
<1>8. PanelsAgree'
  BY DEF PanelsAgree, Busy
<1> QED BY <1>1, <1>2, <1>3, <1>4, <1>5, <1>6, <1>7, <1>8 DEF ConnectInv

LEMMA FileReadInv == ConnectInv /\ FileRead => ConnectInv'
<1> SUFFICES ASSUME ConnectInv, FileRead PROVE ConnectInv'
  OBVIOUS
<1> USE DEF ConnectInv, FileRead, Imported, Invalidate, Forget, server
<1>1. TypeOK'
  <2>1. form' \in Texts /\ reading' \subseteq Texts
    BY DEF TypeOK, Texts
  <2>2. challenge' \in 0..ChallengeBound /\ submits' \in 0..ChallengeBound
    BY ConnectBounds DEF TypeOK
  <2>3. /\ report' \in {"none"} \cup Reports /\ panel' \in {"empty", "proof", "report"}
       /\ state' \in {"ready", "working", "proofReady"} \cup Reports
       /\ error' \in BOOLEAN /\ overtaken' \in BOOLEAN
    BY DEF TypeOK
  <2>4. req' \in Served /\ strays' \subseteq Served
    BY NoRequestType, ConnectBounds DEF TypeOK
  <2>5. /\ phase' \in [Challenges -> Server!Phases] /\ bound' \in [Challenges -> Texts]
       /\ outcome' \in [Challenges -> {"none"} \cup Reports]
    BY DEF TypeOK
  <2> QED BY <2>1, <2>2, <2>3, <2>4, <2>5 DEF TypeOK
<1>2. Stored'
  BY DEF Stored
<1>3. Issued'
  BY NoRequestType DEF Issued
<1>4. PrepareOK'
  BY NoRequestType DEF PrepareOK, Busy
<1>5. RunOK'
  BY NoRequestType DEF RunOK, Busy
<1>6. FormIsBound'
  BY DEF FormIsBound, Busy
<1>7. ShownIsStored'
  BY DEF ShownIsStored
<1>8. PanelsAgree'
  BY DEF PanelsAgree, Busy
<1> QED BY <1>1, <1>2, <1>3, <1>4, <1>5, <1>6, <1>7, <1>8 DEF ConnectInv

LEMMA SubmitInv == ConnectInv /\ Submit => ConnectInv'
<1> SUFFICES ASSUME ConnectInv, Submit PROVE ConnectInv'
  OBVIOUS
<1> USE DEF ConnectInv, Submit, Forget, server
<1>1. TypeOK'
  <2>1. form' \in Texts /\ reading' \subseteq Texts
    BY DEF TypeOK, Texts
  <2>2. challenge' \in 0..ChallengeBound /\ submits' \in 0..ChallengeBound
    BY ConnectBounds DEF TypeOK
  <2>3. /\ report' \in {"none"} \cup Reports /\ panel' \in {"empty", "proof", "report"}
       /\ state' \in {"ready", "working", "proofReady"} \cup Reports
       /\ error' \in BOOLEAN /\ overtaken' \in BOOLEAN
    BY DEF TypeOK
  <2>4. req' \in Served /\ strays' \subseteq Served
    <3>1. Request("prepare", form, 0) \in Served
      BY RequestType, ConnectBounds DEF TypeOK
    <3> QED BY <3>1 DEF TypeOK
  <2>5. /\ phase' \in [Challenges -> Server!Phases] /\ bound' \in [Challenges -> Texts]
       /\ outcome' \in [Challenges -> {"none"} \cup Reports]
    BY DEF TypeOK
  <2> QED BY <2>1, <2>2, <2>3, <2>4, <2>5 DEF TypeOK
<1>2. Stored'
  BY DEF Stored
<1>3. Issued'
  BY NoRequestType DEF Issued, Request, Served
<1>4. PrepareOK'
  BY NoRequestType DEF PrepareOK, Busy, Request, Served
<1>5. RunOK'
  BY NoRequestType DEF RunOK, Busy, Request, Served
<1>6. FormIsBound'
  BY DEF FormIsBound, Busy
<1>7. ShownIsStored'
  BY DEF ShownIsStored
<1>8. PanelsAgree'
  BY DEF PanelsAgree, Busy, NoRequest, Request
<1> QED BY <1>1, <1>2, <1>3, <1>4, <1>5, <1>6, <1>7, <1>8 DEF ConnectInv

LEMMA RunInv == ConnectInv /\ Run => ConnectInv'
<1> SUFFICES ASSUME ConnectInv, Run PROVE ConnectInv'
  OBVIOUS
<1> USE DEF ConnectInv, Run, server
<1>1. TypeOK'
  <2>1. form' \in Texts /\ reading' \subseteq Texts
    BY DEF TypeOK, Texts
  <2>2. challenge' \in 0..ChallengeBound /\ submits' \in 0..ChallengeBound
    BY ConnectBounds DEF TypeOK
  <2>3. /\ report' \in {"none"} \cup Reports /\ panel' \in {"empty", "proof", "report"}
       /\ state' \in {"ready", "working", "proofReady"} \cup Reports
       /\ error' \in BOOLEAN /\ overtaken' \in BOOLEAN
    BY DEF TypeOK
  <2>4. req' \in Served /\ strays' \subseteq Served
    <3>1. Request("run", Unreadable, challenge) \in Served
      BY RequestType DEF TypeOK, Texts
    <3> QED BY <3>1 DEF TypeOK
  <2>5. /\ phase' \in [Challenges -> Server!Phases] /\ bound' \in [Challenges -> Texts]
       /\ outcome' \in [Challenges -> {"none"} \cup Reports]
    BY DEF TypeOK
  <2> QED BY <2>1, <2>2, <2>3, <2>4, <2>5 DEF TypeOK
<1>2. Stored'
  BY DEF Stored
<1>3. Issued'
  BY NoRequestType, ConnectBounds DEF Issued, TypeOK, Challenges, Request
<1>4. PrepareOK'
  BY NoRequestType DEF PrepareOK, Busy, Request, Served
<1>5. RunOK'
  BY NoRequestType DEF RunOK, Request, PanelsAgree
<1>6. FormIsBound'
  BY DEF FormIsBound, Busy
<1>7. ShownIsStored'
  BY DEF ShownIsStored
<1>8. PanelsAgree'
  BY ConnectBounds DEF PanelsAgree, TypeOK, Busy, NoRequest, Request
<1> QED BY <1>1, <1>2, <1>3, <1>4, <1>5, <1>6, <1>7, <1>8 DEF ConnectInv

LEMMA ReloadInv == ConnectInv /\ Reload => ConnectInv'
<1> SUFFICES ASSUME ConnectInv, Reload PROVE ConnectInv'
  OBVIOUS
<1> USE DEF ConnectInv, Reload, GiveUp, Invalidate, Forget, server
<1>1. TypeOK'
  <2>1. form' \in Texts /\ reading' \subseteq Texts
    BY DEF TypeOK, Texts
  <2>2. challenge' \in 0..ChallengeBound /\ submits' \in 0..ChallengeBound
    BY ConnectBounds DEF TypeOK
  <2>3. /\ report' \in {"none"} \cup Reports /\ panel' \in {"empty", "proof", "report"}
       /\ state' \in {"ready", "working", "proofReady"} \cup Reports
       /\ error' \in BOOLEAN /\ overtaken' \in BOOLEAN
    BY DEF TypeOK
  <2>4. req' \in Served /\ strays' \subseteq Served
    BY NoRequestType, ConnectBounds DEF TypeOK
  <2>5. /\ phase' \in [Challenges -> Server!Phases] /\ bound' \in [Challenges -> Texts]
       /\ outcome' \in [Challenges -> {"none"} \cup Reports]
    BY DEF TypeOK
  <2> QED BY <2>1, <2>2, <2>3, <2>4, <2>5 DEF TypeOK
<1>2. Stored'
  BY DEF Stored
<1>3. Issued'
  BY NoRequestType DEF Issued
<1>4. PrepareOK'
  BY NoRequestType DEF PrepareOK, Busy
<1>5. RunOK'
  BY NoRequestType DEF RunOK, Busy
<1>6. FormIsBound'
  BY DEF FormIsBound, Busy
<1>7. ShownIsStored'
  BY DEF ShownIsStored
<1>8. PanelsAgree'
  BY DEF PanelsAgree, Busy
<1> QED BY <1>1, <1>2, <1>3, <1>4, <1>5, <1>6, <1>7, <1>8 DEF ConnectInv

-----------------------------------------------------------------------------
(* The server and the answer *)

\* An answer to a request that was sent reaches the page or nobody.
LEMMA AnswersFacts ==
    ASSUME ConnectInv, NEW r \in strays \cup {req}, r.stage = "sent",
           r.kind \in {"prepare", "run"},
           NEW c \in 0..ChallengeBound,
           NEW answer \in {"none", "refused", "issued"} \cup Reports, Answers(r, c, answer)
    PROVE  /\ req' \in Served /\ strays' \subseteq strays /\ strays' \subseteq Served
           /\ req' = req \/ (r = req /\ req' = Answered(req, c, answer))
           /\ Busy' <=> Busy
<1>1. \/ req' = req /\ strays' \subseteq strays
      \/ r = req /\ req' = Answered(req, c, answer) /\ strays' = strays
  BY DEF Answers
<1>2. req \in Served /\ strays \subseteq Served
  BY DEF ConnectInv, TypeOK
<1>3. Answered(req, c, answer) \in Served /\ Answered(req, c, answer).stage = "answered"
  BY <1>2, RequestTypes DEF Answered
<1>4. r = req => req # NoRequest
  BY NoRequestType
<1>5. Answered(req, c, answer) # NoRequest
  BY <1>3, NoRequestType
<1> QED BY <1>1, <1>2, <1>3, <1>4, <1>5 DEF Busy

LEMMA Fields ==
    ASSUME NEW r, NEW stage, NEW c, NEW answer
    PROVE  /\ At(r, stage).kind = r.kind /\ At(r, stage).text = r.text
           /\ At(r, stage).chal = r.chal /\ At(r, stage).stage = stage
           /\ At(r, stage).answer = r.answer
           /\ Answered(r, c, answer).kind = r.kind /\ Answered(r, c, answer).text = r.text
           /\ Answered(r, c, answer).chal = c /\ Answered(r, c, answer).stage = "answered"
           /\ Answered(r, c, answer).answer = answer
BY DEF At, Answered

\* An answer that brings nothing: a refusal of either kind.
LEMMA RefusalInv ==
    ASSUME ConnectInv, NEW r \in strays \cup {req}, r.stage = "sent",
           r.kind \in {"prepare", "run"}, NEW c \in 0..ChallengeBound,
           r.kind = "run" => c = r.chal,
           Answers(r, c, "refused"), UNCHANGED <<form, reading, page, submits, server>>
    PROVE  ConnectInv'
<1>0. /\ req' \in Served /\ strays' \subseteq strays /\ strays' \subseteq Served
      /\ req' = req \/ (r = req /\ req' = Answered(req, c, "refused"))
      /\ Busy' <=> Busy
  BY AnswersFacts
<1> USE DEF ConnectInv, page, server
<1>1. TypeOK'
  BY <1>0 DEF TypeOK
<1>2. Stored'
  BY DEF Stored
<1>3. Issued'
  BY <1>0, Fields DEF Issued
<1>4. PrepareOK' /\ RunOK'
  BY <1>0, Fields DEF PrepareOK, RunOK
<1>5. FormIsBound' /\ ShownIsStored' /\ PanelsAgree'
  BY <1>0 DEF FormIsBound, ShownIsStored, PanelsAgree
<1> QED BY <1>1, <1>2, <1>3, <1>4, <1>5

\* A challenge just issued is neither the page's nor that of an answer to it.
LEMMA IssueInv ==
    ASSUME ConnectInv, NEW r \in strays \cup {req}, r.stage = "sent", r.kind = "prepare",
           NEW c \in Challenges, Server!Issue(c), bound' = [bound EXCEPT ![c] = r.text],
           Answers(r, c, "issued"), UNCHANGED <<form, reading, page, submits, outcome>>
    PROVE  ConnectInv'
<1>0. /\ req' \in Served /\ strays' \subseteq strays /\ strays' \subseteq Served
      /\ req' = req \/ (r = req /\ req' = Answered(req, c, "issued"))
      /\ Busy' <=> Busy
  BY AnswersFacts, ChallengesPositive
<1> USE DEF ConnectInv, page
<1>1. /\ phase[c] = "none" /\ phase' = [phase EXCEPT ![c] = "open"]
      /\ phase \in [Challenges -> Server!Phases] /\ bound \in [Challenges -> Texts]
  BY DEF Server!Issue, Server!Moves, TypeOK
<1>2. r.text \in Texts
  BY DEF TypeOK, Served
<1>3. TypeOK'
  <2>1. phase' \in [Challenges -> Server!Phases]
    BY <1>1 DEF Server!Phases
  <2>2. bound' \in [Challenges -> Texts]
    BY <1>1, <1>2
  <2> QED BY <1>0, <2>1, <2>2 DEF TypeOK
<1>4. Stored'
  BY <1>1 DEF Stored
<1>5. /\ phase'[c] # "none" /\ bound'[c] = r.text
      /\ \A b \in Challenges \ {c} : phase'[b] = phase[b] /\ bound'[b] = bound[b]
      /\ \A b \in Challenges : phase[b] # "none" => b # c
  BY <1>1
<1>6. challenge # 0 => challenge \in Challenges
  BY DEF TypeOK, Challenges
<1>7. Issued'
  <2>1. challenge # 0 => phase'[challenge] # "none"
    BY <1>5, <1>6 DEF Issued
  <2>2. CASE req' = req
    BY <2>1, <2>2, <1>0 DEF Issued
  <2>3. CASE r = req /\ req' = Answered(req, c, "issued")
    BY <2>1, <2>3, <1>0, Fields DEF Issued
  <2> QED BY <2>2, <2>3, <1>0
<1>8. PrepareOK' /\ RunOK'
  <2>1. CASE req' = req
    BY <2>1, <1>5, <1>6 DEF PrepareOK, RunOK
  <2>2. CASE r = req /\ req' = Answered(req, c, "issued")
    BY <2>2, <1>5, Fields DEF PrepareOK, RunOK
  <2> QED BY <2>1, <2>2, <1>0
<1>9. FormIsBound' /\ ShownIsStored' /\ PanelsAgree'
  BY <1>0, <1>5, <1>6 DEF FormIsBound, ShownIsStored, PanelsAgree, Issued
<1> QED BY <1>3, <1>4, <1>7, <1>8, <1>9

\* The page is shown the report of its challenge as it was stored.
LEMMA StoredInv ==
    ASSUME ConnectInv, NEW r \in strays \cup {req}, r.stage = "sent", r.kind = "run",
           phase[r.chal] = "reported", Answers(r, r.chal, outcome[r.chal]),
           UNCHANGED <<form, reading, page, submits, server>>
    PROVE  ConnectInv'
<1>1. r.chal \in Challenges /\ r.chal \in 0..ChallengeBound
  BY ChallengesPositive DEF ConnectInv, Issued
<1>2. outcome[r.chal] \in {"none"} \cup Reports /\ outcome[r.chal] # "none"
  BY <1>1 DEF ConnectInv, TypeOK, Stored
<1>3. /\ req' \in Served /\ strays' \subseteq strays /\ strays' \subseteq Served
      /\ req' = req \/ (r = req /\ req' = Answered(req, r.chal, outcome[r.chal]))
      /\ Busy' <=> Busy
  BY <1>1, <1>2, AnswersFacts
<1> USE DEF ConnectInv, page, server
<1>4. TypeOK'
  BY <1>3 DEF TypeOK
<1>5. Stored'
  BY DEF Stored
<1>6. Issued'
  <2>1. CASE req' = req
    BY <2>1, <1>3 DEF Issued
  <2>2. CASE r = req /\ req' = Answered(req, r.chal, outcome[r.chal])
    <3>1. req'.chal \in Challenges /\ req'.stage = "answered" /\ req'.answer # "none"
      BY <2>2, <1>1, <1>2, Fields
    <3> QED BY <3>1, <1>3 DEF Issued
  <2> QED BY <1>3, <2>1, <2>2
<1>7. PrepareOK' /\ RunOK'
  BY <1>2, <1>3, Fields DEF PrepareOK, RunOK
<1>8. FormIsBound' /\ ShownIsStored' /\ PanelsAgree'
  BY <1>3 DEF FormIsBound, ShownIsStored, PanelsAgree
<1> QED BY <1>4, <1>5, <1>6, <1>7, <1>8

LEMMA InvokeInv ==
    ASSUME ConnectInv, NEW r \in strays \cup {req}, r.stage = "sent", r.kind = "run",
           Server!Invoke(r.chal),
           \/ r = req /\ req' = At(r, "waiting") /\ UNCHANGED strays
           \/ strays' = strays \ {r} /\ UNCHANGED req,
           UNCHANGED <<form, reading, page, submits, bound, outcome>>
    PROVE  ConnectInv'
<1> USE DEF ConnectInv, page
<1>1. r.chal \in Challenges
  BY DEF Issued
<1>2. /\ phase[r.chal] = "open" /\ phase' = [phase EXCEPT ![r.chal] = "invoking"]
      /\ phase \in [Challenges -> Server!Phases]
  BY DEF Server!Invoke, Server!Moves, TypeOK
<1>3. At(r, "waiting") \in Served /\ At(r, "waiting") # NoRequest
  BY RequestTypes, NoRequestType, Fields DEF TypeOK
<1>4. r # NoRequest
  BY NoRequestType
<1>5. TypeOK'
  <2>1. phase' \in [Challenges -> Server!Phases]
    BY <1>2 DEF Server!Phases
  <2> QED BY <1>3, <2>1 DEF TypeOK
<1>6. Stored'
  BY <1>1, <1>2 DEF Stored
<1>7. \A c \in Challenges : phase[c] # "none" => phase'[c] # "none"
  BY <1>2
<1>8. challenge # 0 => challenge \in Challenges
  BY DEF TypeOK, Challenges
<1>9. Issued'
  BY <1>1, <1>7, <1>8, Fields DEF Issued
<1>10. PrepareOK' /\ RunOK'
  BY <1>1, <1>7, <1>8, Fields DEF PrepareOK, RunOK
<1>11. FormIsBound' /\ ShownIsStored' /\ PanelsAgree'
  BY <1>3, <1>4 DEF FormIsBound, ShownIsStored, PanelsAgree, Busy
<1> QED BY <1>5, <1>6, <1>9, <1>10, <1>11

LEMMA ServeInv == ConnectInv /\ Serve => ConnectInv'
<1> SUFFICES ASSUME ConnectInv, Serve PROVE ConnectInv'
  OBVIOUS
<1>1. PICK r \in strays \cup {req} :
          /\ r.stage = "sent"
          /\ \/ r.kind = "prepare" /\ ServePrepare(r)
             \/ r.kind = "run" /\ ServeRun(r)
  BY DEF Serve
<1>2. UNCHANGED <<form, reading, page, submits>>
  BY DEF Serve
<1>3. CASE r.kind = "prepare" /\ Answers(r, 0, "refused") /\ UNCHANGED server
  BY <1>1, <1>2, <1>3, RefusalInv, ConnectBounds
<1>4. ASSUME r.kind = "prepare", NEW c \in Challenges, Server!Issue(c),
             bound' = [bound EXCEPT ![c] = r.text], Answers(r, c, "issued"),
             UNCHANGED outcome
      PROVE  ConnectInv'
  BY <1>1, <1>2, <1>4, IssueInv
<1>5. CASE r.kind = "run" /\ Answers(r, r.chal, "refused") /\ UNCHANGED server
  <2>1. r.chal \in 0..ChallengeBound
    BY <1>5, ChallengesPositive DEF ConnectInv, Issued
  <2> QED BY <1>1, <1>2, <1>5, <2>1, RefusalInv
<1>6. CASE /\ r.kind = "run" /\ phase[r.chal] = "reported"
           /\ Answers(r, r.chal, outcome[r.chal]) /\ UNCHANGED server
  BY <1>1, <1>2, <1>6, StoredInv
<1>7. CASE /\ r.kind = "run" /\ Server!Invoke(r.chal)
           /\ IF r = req THEN req' = At(r, "waiting") /\ UNCHANGED strays
              ELSE strays' = strays \ {r} /\ UNCHANGED req
           /\ UNCHANGED <<bound, outcome>>
  BY <1>1, <1>2, <1>7, InvokeInv
<1> QED BY <1>1, <1>3, <1>4, <1>5, <1>6, <1>7 DEF ServePrepare, ServeRun, AnswersRun

\* No report is stored yet for a challenge whose invoke is under way.
LEMMA ReportInv == ConnectInv /\ Report => ConnectInv'
<1> SUFFICES ASSUME ConnectInv, Report PROVE ConnectInv'
  OBVIOUS
<1> USE DEF ConnectInv, page
<1>1. PICK c \in Challenges, result \in Reports :
          /\ Server!Report(c)
          /\ outcome' = [outcome EXCEPT ![c] = result]
          /\ req' = IF req.stage = "waiting" /\ req.chal = c
                    THEN Answered(req, c, result) ELSE req
  BY DEF Report
<1>2. UNCHANGED <<form, reading, page, submits, strays, bound>>
  BY DEF Report
<1>3. /\ phase[c] = "invoking" /\ phase' = [phase EXCEPT ![c] = "reported"]
      /\ phase \in [Challenges -> Server!Phases]
      /\ outcome \in [Challenges -> {"none"} \cup Reports]
  BY <1>1 DEF Server!Report, Server!Moves, TypeOK
<1>4. /\ outcome[c] = "none" /\ outcome'[c] = result /\ result # "none"
      /\ \A b \in Challenges \ {c} : outcome'[b] = outcome[b]
  BY <1>1, <1>3 DEF Stored, Reports
<1>5. \A b \in Challenges : phase[b] # "none" => phase'[b] # "none"
  BY <1>3
<1>6. challenge # 0 => challenge \in Challenges
  BY DEF TypeOK, Challenges
<1>7. Answered(req, c, result) \in Served
  BY ChallengesPositive, RequestTypes DEF TypeOK
<1>8. Busy' <=> Busy
  <2>1. Answered(req, c, result) # NoRequest
    BY NoRequestType, Fields
  <2>2. req.stage = "waiting" => req # NoRequest
    BY NoRequestType
  <2> QED BY <1>1, <2>1, <2>2 DEF Busy
<1>9. TypeOK'
  <2>1. phase' \in [Challenges -> Server!Phases]
    BY <1>3 DEF Server!Phases
  <2>2. outcome' \in [Challenges -> {"none"} \cup Reports]
    BY <1>1, <1>3
  <2>3. req' \in Served
    BY <1>1, <1>7 DEF TypeOK
  <2> QED BY <1>2, <2>1, <2>2, <2>3 DEF TypeOK
<1>10. Stored'
  BY <1>1, <1>3, <1>4 DEF Stored
<1>11. Issued'
  <2>1. challenge # 0 => phase'[challenge] # "none"
    BY <1>5, <1>6 DEF Issued
  <2>2. CASE req' = req
    BY <2>1, <2>2, <1>2 DEF Issued
  <2>3. CASE req.chal = c /\ req' = Answered(req, c, result)
    <3>1. req'.chal \in Challenges /\ req'.stage = "answered" /\ req'.answer # "none"
      BY <2>3, <1>4, Fields
    <3> QED BY <3>1, <2>1, <1>2 DEF Issued
  <2> QED BY <1>1, <2>2, <2>3
<1>12. PrepareOK'
  <2>1. CASE req' = req
    BY <2>1, <1>2, <1>5 DEF PrepareOK
  <2>2. CASE req.stage = "waiting" /\ req' = Answered(req, c, result)
    BY <2>2, <1>2, Fields DEF PrepareOK
  <2> QED BY <1>1, <2>1, <2>2
<1>13. RunOK'
  <2>1. CASE req' = req
    BY <2>1, <1>2, <1>3, <1>4, <1>6 DEF RunOK, Issued, Stored
  <2>2. CASE req.chal = c /\ req' = Answered(req, c, result)
    BY <2>2, <1>2, <1>4, Fields DEF RunOK
  <2> QED BY <1>1, <2>1, <2>2
<1>14. FormIsBound' /\ PanelsAgree'
  BY <1>2, <1>8 DEF FormIsBound, PanelsAgree
<1>15. ShownIsStored'
  BY <1>2, <1>4, <1>6 DEF ShownIsStored
<1> QED BY <1>9, <1>10, <1>11, <1>12, <1>13, <1>14, <1>15

\* Challenges are forgotten, by expiry or by a restart: reports and bindings
\* are not touched.
LEMMA ForgetInv ==
    ASSUME ConnectInv,
           phase' \in [Challenges -> Server!Phases],
           \A c \in Challenges : phase'[c] = phase[c] \/ (phase[c] # "none" /\ phase'[c] = "gone"),
           req' = req \/ (req.stage = "waiting" /\ req' = Answered(req, req.chal, "refused")),
           UNCHANGED <<form, reading, page, submits, strays, bound, outcome>>
    PROVE  ConnectInv'
<1> USE DEF ConnectInv, page
<1>1. challenge # 0 => challenge \in Challenges
  BY DEF TypeOK, Challenges
<1>2. Answered(req, req.chal, "refused") \in Served
  BY RequestTypes DEF TypeOK, Served
<1>3. Busy' <=> Busy
  BY NoRequestType, Fields DEF Busy
<1>4. TypeOK'
  BY <1>2 DEF TypeOK
<1>5. Stored'
  BY DEF Stored
<1>6. Issued'
  BY <1>1, Fields DEF Issued
<1>7. PrepareOK' /\ RunOK'
  BY <1>1, Fields DEF PrepareOK, RunOK
<1>8. FormIsBound' /\ ShownIsStored' /\ PanelsAgree'
  BY <1>3 DEF FormIsBound, ShownIsStored, PanelsAgree
<1> QED BY <1>4, <1>5, <1>6, <1>7, <1>8

LEMMA ExpireInv == ConnectInv /\ Expire => ConnectInv'
<1> SUFFICES ASSUME ConnectInv, Expire PROVE ConnectInv'
  OBVIOUS
<1>1. PICK gone \in SUBSET Challenges : Server!Forget(gone)
  BY DEF Expire
<1>2. phase \in [Challenges -> Server!Phases]
  BY DEF ConnectInv, TypeOK
<1>3. \A c \in Challenges : phase'[c] = phase[c] \/ (phase[c] # "none" /\ phase'[c] = "gone")
  BY <1>1 DEF Server!Forget
<1>4. phase' \in [Challenges -> Server!Phases]
  BY <1>1, <1>2 DEF Server!Forget, Server!Phases
<1> QED BY <1>3, <1>4, ForgetInv DEF Expire

LEMMA RestartInv == ConnectInv /\ Restart => ConnectInv'
<1> SUFFICES ASSUME ConnectInv, Restart PROVE ConnectInv'
  OBVIOUS
<1>1. phase' = [c \in Challenges |-> IF phase[c] = "none" THEN "none" ELSE "gone"]
  BY DEF Restart
<1>2. \A c \in Challenges : phase'[c] = phase[c] \/ (phase[c] # "none" /\ phase'[c] = "gone")
  BY <1>1
<1>3. phase' \in [Challenges -> Server!Phases]
  BY <1>1 DEF Server!Phases
<1>4. req' = req \/ (req.stage = "waiting" /\ req' = Answered(req, req.chal, "refused"))
  BY DEF Restart
<1> QED BY <1>2, <1>3, <1>4, ForgetInv DEF Restart

LEMMA FailsTypes ==
    ASSUME TypeOK, Fails, req' = NoRequest, strays' \subseteq Served,
           UNCHANGED <<form, reading, submits, server>>
    PROVE  TypeOK'
<1> USE DEF TypeOK, Fails, server
<1>1. state' \in {"ready", "working", "proofReady"} \cup Reports
  BY DEF Reports
<1>2. challenge' = challenge /\ report' = report /\ panel' = panel /\ overtaken' = overtaken
  OBVIOUS
<1>3. error' \in BOOLEAN /\ req' \in Served
  BY NoRequestType
<1> QED BY <1>1, <1>2, <1>3

\* An answer that fails leaves the challenge, and the button that asks again.
LEMMA DeliverInv == ConnectInv /\ Deliver => ConnectInv'
<1> SUFFICES ASSUME ConnectInv, Deliver PROVE ConnectInv'
  OBVIOUS
<1> USE DEF ConnectInv, server
<1>1. /\ req.stage = "answered" /\ req' = NoRequest /\ req # NoRequest
      /\ UNCHANGED <<form, reading, submits, strays, server>>
  BY NoRequestType DEF Deliver
<1>2. ~Busy' /\ Busy
  BY <1>1 DEF Busy
<1>3. Stored'
  BY <1>1 DEF Stored
<1>4. CASE Fails
  <2> USE DEF Fails
  <2>1. TypeOK'
    BY <1>1, <1>4, FailsTypes DEF TypeOK
  <2>2. Issued' /\ PrepareOK' /\ RunOK'
    BY <1>1, <1>4, NoRequestType DEF Issued, PrepareOK, RunOK
  <2>3. FormIsBound' /\ ShownIsStored' /\ PanelsAgree'
    BY <1>1, <1>2, <1>4 DEF FormIsBound, ShownIsStored, PanelsAgree
  <2> QED BY <1>3, <2>1, <2>2, <2>3
<1>5. CASE req.kind = "prepare" /\ ~Refused /\ Prepared
  <2> USE DEF Prepared
  <2>1. req.answer \notin {"none", "refused"}
    BY <1>1, <1>5 DEF Issued, Refused
  <2>2. challenge' = req.chal /\ req.answer = "issued"
    BY <1>5, <2>1 DEF TypeOK, Served, PrepareOK, Reports
  <2>3. TypeOK'
    BY <1>1, <1>5, NoRequestType DEF TypeOK, Served
  <2>4. Issued' /\ PrepareOK' /\ RunOK'
    BY <1>1, <1>5, <2>2, NoRequestType DEF Issued, PrepareOK, RunOK
  <2>5. FormIsBound' /\ ShownIsStored' /\ PanelsAgree'
    BY <1>1, <1>2, <1>5, <2>2, ChallengesPositive
       DEF FormIsBound, ShownIsStored, PanelsAgree, PrepareOK, Reports
  <2> QED BY <1>3, <2>3, <2>4, <2>5
<1>6. CASE req.kind = "run" /\ ~Refused /\ Ran
  <2> USE DEF Ran
  <2>1. req.answer = outcome[challenge] /\ req.answer # "none" /\ challenge \in Challenges
    BY <1>1, <1>6 DEF Issued, Refused, RunOK
  <2>2. report' = req.answer /\ req.answer \in Reports
    BY <1>6, <2>1 DEF TypeOK
  <2>3. TypeOK'
    BY <1>1, <1>6, <2>2, NoRequestType DEF TypeOK
  <2>4. Issued' /\ PrepareOK' /\ RunOK'
    BY <1>1, <1>6, NoRequestType DEF Issued, PrepareOK, RunOK
  <2>5. FormIsBound' /\ ShownIsStored' /\ PanelsAgree'
    BY <1>1, <1>2, <1>6, <2>1, <2>2, ChallengesPositive
       DEF FormIsBound, ShownIsStored, PanelsAgree, Reports
  <2> QED BY <1>3, <2>3, <2>4, <2>5
<1> QED BY <1>4, <1>5, <1>6 DEF Deliver

LEMMA NetworkFailsInv == ConnectInv /\ NetworkFails => ConnectInv'
<1> SUFFICES ASSUME ConnectInv, NetworkFails PROVE ConnectInv'
  OBVIOUS
<1> USE DEF ConnectInv, NetworkFails, Fails, GiveUp, server
<1>1. ~Busy' /\ Busy /\ strays' \subseteq strays \cup {req}
  BY DEF Busy
<1>2. TypeOK'
  BY <1>1, FailsTypes DEF TypeOK
<1>3. Stored'
  BY DEF Stored
<1>4. Issued' /\ PrepareOK' /\ RunOK'
  BY <1>1, NoRequestType DEF Issued, PrepareOK, RunOK
<1>5. FormIsBound' /\ ShownIsStored' /\ PanelsAgree'
  BY <1>1 DEF FormIsBound, ShownIsStored, PanelsAgree
<1> QED BY <1>2, <1>3, <1>4, <1>5

LEMMA StallInv == ConnectInv /\ Stall => ConnectInv'
<1> SUFFICES ASSUME ConnectInv, Stall PROVE ConnectInv'
  OBVIOUS
<1> USE DEF ConnectInv, Stall, GiveUp, page, server
<1>0. At(NoRequest, "stalled") \in Served
  BY NoRequestType, RequestTypes
<1>1. /\ At(NoRequest, "stalled") \in Served /\ At(NoRequest, "stalled").kind = "none"
      /\ At(NoRequest, "stalled").stage = "stalled" /\ At(NoRequest, "stalled").answer = "none"
  BY <1>0, NoRequestType DEF At
<1>2. Busy' /\ Busy /\ strays' \subseteq strays \cup {req}
  BY <1>1, NoRequestType DEF Busy
<1>3. TypeOK'
  BY <1>1 DEF TypeOK
<1>4. Stored'
  BY DEF Stored
<1>5. Issued' /\ PrepareOK' /\ RunOK'
  BY <1>1, <1>2 DEF Issued, PrepareOK, RunOK
<1>6. FormIsBound' /\ ShownIsStored' /\ PanelsAgree'
  BY <1>2 DEF FormIsBound, ShownIsStored, PanelsAgree
<1> QED BY <1>3, <1>4, <1>5, <1>6

-----------------------------------------------------------------------------
(* Theorems *)

LEMMA Invariance == Spec => []ConnectInv
<1>1. ConnectInv /\ UNCHANGED vars => ConnectInv'
  BY DEF ConnectInv, vars, page, server, TypeOK, Stored, Issued, PrepareOK, RunOK, FormIsBound,
     ShownIsStored, PanelsAgree, Busy
<1>2. ConnectInv /\ [Next]_vars => ConnectInv'
  BY <1>1, EditInv, ChooseFileInv, FileTooLargeInv, FileReadInv, SubmitInv, RunInv, ReloadInv,
     ServeInv, ReportInv, ExpireInv, RestartInv, DeliverInv, NetworkFailsInv, StallInv DEF Next
<1> QED BY InitInv, <1>2, PTL DEF Spec

\* Every variable of the page and of the server stays in its type.
THEOREM TypeCorrect == Spec => []TypeOK
<1>1. ConnectInv => TypeOK
  BY DEF ConnectInv
<1> QED BY <1>1, Invariance, PTL

\* connect.js: the challenge shown is bound to the form shown, unless a file
\* arrived while a request was under way.
THEOREM FormStaysBound == Spec => []FormIsBound
<1>1. ConnectInv => FormIsBound
  BY DEF ConnectInv
<1> QED BY <1>1, Invariance, PTL

\* connect.js and provider_api.py: a report is shown with its own challenge,
\* however many requests were given up and answered later.
THEOREM ShownIsAlwaysStored == Spec => []ShownIsStored
<1>1. ConnectInv => ShownIsStored
  BY DEF ConnectInv
<1> QED BY <1>1, Invariance, PTL

\* connect.js: as long as a challenge has no report it can be asked for.
THEOREM PanelsAlwaysAgree == Spec => []PanelsAgree
<1>1. ConnectInv => PanelsAgree
  BY DEF ConnectInv
<1> QED BY <1>1, Invariance, PTL

=============================================================================
