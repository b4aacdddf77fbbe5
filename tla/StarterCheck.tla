---------------------------- MODULE StarterCheck ----------------------------
(***************************************************************************)
(* check() of starters/provider/check_local.py: it starts the generated    *)
(* provider, waits until port 8080 answers, runs main() of                 *)
(* provider_check.py with --allow-loopback, and stops the provider.        *)
(*                                                                         *)
(* Another process may hold port 8080 at any time, and answer there.       *)
(***************************************************************************)
EXTENDS ProviderProfile

CONSTANTS
    MaxPolls, PollTimeout,           \* the 100 and the 0.2 s of the readiness loop
    DnsTimeout, ReadTimeout,         \* the 3 s of pin_target, the 8 s of httpx
    CheckTimeout, StopTimeout,       \* the 20 s of main, the 5 s of wait
    MaxResponse                      \* the 65536 bytes of request_json

ASSUME CheckBounds ==
    /\ MaxPolls \in Nat \ {0} /\ MaxResponse \in Nat
    /\ {PollTimeout, DnsTimeout, ReadTimeout, CheckTimeout, StopTimeout} \subseteq Nat \ {0}

VARIABLES
    pc,         \* where check() and main() are
    agent,      \* the provider it started: none, starting, serving, ended
    port,       \* who holds port 8080: nobody, agent, other
    otherKey,   \* the key the other process signs with
    polls,      \* turns of the readiness loop
    manifest,   \* of capability.json: whether its host is local, its key
    server,     \* who /health was asked of, or the invoke sent to, at what address
    size,       \* of the body so far
    timer,      \* of the operation awaited
    budget,     \* what is left of CheckTimeout
    checks,     \* of the report
    exit,       \* none; 0 or 1; raised
    invokes,    \* history: invokes sent
    sound       \* history: everything judged so far follows the profile

http == <<server, size, timer>>
vars == <<pc, agent, port, otherKey, polls, manifest, http, budget, checks, exit,
          invokes, sound>>

Steps == <<"manifest", "invoke", "output_schema", "provider_signature">>
Keys == {"agent", "other", "weak"}
Nobody == [who |-> "nobody", address |-> "none"]

Init ==
    /\ pc = "started" /\ agent = "none"
    /\ port \in {"nobody", "other"} /\ otherKey \in {"agent", "other"}
    /\ polls = 0 /\ manifest = [local |-> TRUE, key |-> "agent"]
    /\ server = Nobody /\ size = 0 /\ timer = 0 /\ budget = 0
    /\ checks = <<>> /\ exit = "none"
    /\ invokes = 0 /\ sound = TRUE

-----------------------------------------------------------------------------
(* The processes *)

Popen ==
    /\ pc = "started"
    /\ pc' = "ready" /\ agent' = "starting"
    /\ UNCHANGED <<port, otherKey, polls, manifest, http, budget, checks, exit, invokes, sound>>

AgentServes ==
    /\ agent = "starting" /\ port = "nobody"
    /\ agent' = "serving" /\ port' = "agent"
    /\ UNCHANGED <<pc, otherKey, polls, manifest, http, budget, checks, exit, invokes, sound>>

AgentGone == agent' = "ended" /\ port' = IF port = "agent" THEN "nobody" ELSE port

\* It crashes, finds the port taken, or obeys terminate().
AgentEnds ==
    /\ agent \in {"starting", "serving"}
    /\ AgentGone
    /\ UNCHANGED <<pc, otherKey, polls, manifest, http, budget, checks, exit, invokes, sound>>

OtherComesOrGoes ==
    /\ \/ port = "nobody" /\ port' = "other" /\ otherKey' \in {"agent", "other"}
       \/ port = "other" /\ port' = "nobody" /\ UNCHANGED otherKey
    /\ UNCHANGED <<pc, agent, polls, manifest, http, budget, checks, exit, invokes, sound>>

-----------------------------------------------------------------------------
(* check() *)

\* The finally clause: terminate(), then wait().
Ends(code) ==
    /\ pc' = "stopping" /\ exit' = code /\ timer' = StopTimeout
    /\ UNCHANGED <<agent, port, otherKey, polls, manifest, server, size, budget, invokes>>

AgentStopped ==
    /\ pc = "ready" /\ agent = "ended"
    /\ Ends("raised") /\ UNCHANGED <<checks, sound>>

\* urlopen("/health"): whoever holds the port is asked.
HealthAsked ==
    /\ pc = "ready" /\ agent # "ended" /\ port # "nobody"
    /\ pc' = "polling" /\ timer' = PollTimeout
    /\ server' = [who |-> port, address |-> "loopback"]
    /\ UNCHANGED <<agent, port, otherKey, polls, manifest, size, budget, checks, exit, invokes, sound>>

HealthAnswers ==
    /\ pc = "polling"
    /\ pc' = "reading" /\ timer' = 0 /\ server' = Nobody
    /\ UNCHANGED <<agent, port, otherKey, polls, manifest, size, budget, checks, exit, invokes, sound>>

\* An OSError (nobody there, silence, a broken connection, an error status) is
\* tried again; anything else, from a process that does not speak HTTP, is not
\* caught.
HealthFails ==
    /\ pc = "polling" \/ (pc = "ready" /\ agent # "ended" /\ port = "nobody")
    /\ \/ /\ polls + 1 < MaxPolls
          /\ polls' = polls + 1
          /\ pc' = "ready" /\ timer' = 0 /\ server' = Nobody
          /\ UNCHANGED <<agent, port, otherKey, manifest, size, budget, checks, exit, invokes, sound>>
       \/ /\ polls + 1 = MaxPolls \/ server.who = "other"
          /\ Ends("raised") /\ UNCHANGED <<checks, sound>>

Waited == agent = "ended"

Stop ==
    /\ pc = "stopping" /\ Waited
    /\ pc' = "exited"
    /\ UNCHANGED <<agent, port, otherKey, polls, manifest, http, budget, checks, exit, invokes, sound>>

\* The provider did not obey terminate() in time.
Kill ==
    /\ pc = "stopping" /\ timer = 0
    /\ AgentGone
    /\ UNCHANGED <<pc, otherKey, polls, manifest, http, budget, checks, exit, invokes, sound>>

-----------------------------------------------------------------------------
(* main() and check_provider *)

Goes(next) == pc' = next /\ UNCHANGED <<agent, port, otherKey, polls, exit>>

FailsAt(i) ==
    /\ checks' = Append(checks, [id |-> Steps[i], status |-> "failed"])
    /\ Ends("1")

\* capability.json and the test input; then the 20 s begin.
ReadFiles ==
    /\ pc = "reading"
    /\ \E d \in Documents :
          /\ sound' = Within(d)
          /\ \/ ReadJson(d) /\ Goes("validating") /\ budget' = CheckTimeout
                /\ UNCHANGED <<manifest, http, checks, invokes>>
             \/ ~ReadJson(d) /\ Ends("1") /\ UNCHANGED checks

\* validate_manifest up to the key: identifiers, name and price; the target;
\* canonical base64 of 32 bytes.
ValidateFields ==
    /\ pc = "validating"
    /\ \E fields \in BOOLEAN, url \in Urls, key \in Keys \cup {"malformed"} :
          LET passes == fields /\ ParseTarget(url, TRUE) /\ key # "malformed"
          IN  /\ sound' = (sound /\ passes)
              /\ \/ passes /\ Goes("schemas") /\ manifest' = [local |-> url.local, key |-> key]
                    /\ UNCHANGED <<http, budget, checks, invokes>>
                 \/ ~passes /\ FailsAt(1)

\* The two schemas, of which one is as good as the other here; the input.
ValidateSchemas ==
    /\ pc = "schemas"
    /\ \E s \in Schemas, fits \in BOOLEAN :
          /\ sound' = (sound /\ Supported(s) /\ fits)
          /\ \/ /\ ValidateSchema(s) /\ fits /\ Goes("pinning")
                /\ checks' = <<[id |-> "manifest", status |-> "passed"]>>
                /\ timer' = DnsTimeout
                /\ UNCHANGED <<manifest, server, size, budget, invokes>>
             \/ ~(ValidateSchema(s) /\ fits) /\ FailsAt(1)

\* pin_target, then the POST: a connection is made, or is not, or httpx
\* refuses a URL that parse_target let through, which nobody handles.
Invoke ==
    /\ pc = "pinning"
    /\ \E resolved \in SUBSET Addresses :
          /\ manifest.local => resolved \subseteq {"loopback"}
          /\ \/ /\ PinTarget(resolved, TRUE)
                /\ \E first \in resolved :
                      server' = [who |-> IF manifest.local THEN port ELSE "other",
                                 address |-> first]
                /\ server'.who # "nobody"
                /\ Goes("headers") /\ timer' = ReadTimeout /\ invokes' = invokes + 1
                /\ UNCHANGED <<manifest, size, budget, checks, sound>>
             \/ FailsAt(2) /\ UNCHANGED sound
             \/ checks' = <<>> /\ Ends("raised") /\ UNCHANGED sound

\* Some bytes arrive, of headers or of a chunk, or a response 100: httpx, and
\* urlopen in its poll, count their timeouts from here again.
Trickle ==
    /\ pc \in {"polling", "headers", "body"}
    /\ timer' = IF pc = "polling" THEN PollTimeout ELSE ReadTimeout
    /\ UNCHANGED <<pc, agent, port, otherKey, polls, manifest, server, size, budget, checks,
                   exit, invokes, sound>>

\* 200, identity, application/json; or refused.
Headers ==
    /\ pc = "headers"
    /\ \/ Goes("body") /\ timer' = ReadTimeout
          /\ UNCHANGED <<manifest, server, size, budget, checks, invokes>>
       \/ FailsAt(2)
    /\ UNCHANGED sound

Chunk ==
    /\ pc = "body"
    /\ \/ /\ size < MaxResponse
          /\ size' = size + 1 /\ timer' = ReadTimeout
          /\ UNCHANGED <<pc, agent, port, otherKey, polls, manifest, server, budget, checks,
                         exit, invokes>>
       \/ size = MaxResponse /\ FailsAt(2)
    /\ UNCHANGED sound

\* The connection breaks, or is silent for too long.
RequestFails ==
    /\ pc \in {"headers", "body"} \/ (pc = "pinning" /\ timer = 0)
    /\ FailsAt(2) /\ UNCHANGED sound

KeyOf(who) == IF who = "agent" THEN "agent" ELSE otherKey

\* verify_signature over envelope(): `bound', this request's and this result's.
Signs(signed, bound) == signed /\ bound /\ manifest.key = KeyOf(server.who)

JudgedAll(outcomes) ==           \* mutant: a failed step does not end the check
    [i \in 1..3 |-> [id |-> Steps[i + 1], status |-> IF outcomes[i] THEN "passed" ELSE "failed"]]

\* The report's steps after the manifest: each passes, up to one that fails.
Judged(outcomes) ==
    LET n == CHOOSE k \in 0..3 : (k = 3 \/ ~outcomes[k + 1]) /\ \A i \in 1..k : outcomes[i]
    IN  [i \in 1..(IF n = 3 THEN 3 ELSE n + 1) |->
            [id |-> Steps[i + 1], status |-> IF i <= n THEN "passed" ELSE "failed"]]

\* The body ends: read_json, success and result; the output; the signature.
Judge ==
    /\ pc = "body"
    /\ \E d \in Documents, success \in BOOLEAN, fits \in BOOLEAN, signed \in BOOLEAN,
          bound \in BOOLEAN :
          LET outcomes == <<ReadJson(d) /\ success, fits, Signs(signed, bound)>>
          IN  /\ checks' = checks \o Judged(outcomes)
              /\ sound' = /\ sound /\ Within(d) /\ success /\ fits /\ signed /\ bound
                          /\ manifest.key # "weak" /\ manifest.key = KeyOf(server.who)
              /\ Ends(IF \A i \in 1..3 : outcomes[i] THEN "0" ELSE "1")

OverdueNever == FALSE            \* mutant: no wait_for around the check
Overdue == pc \in {"pinning", "headers", "body"} /\ budget = 0

\* wait_for cancels the check: a report is not printed, an error is.
TimesOut ==
    /\ Overdue
    /\ checks' = <<>>
    /\ Ends("1") /\ UNCHANGED sound

\* Whatever is due comes first.
Tick ==
    /\ pc \in {"polling", "pinning", "headers", "body", "stopping"}
    /\ timer > 0 /\ ~Overdue
    /\ timer' = timer - 1
    /\ budget' = IF budget = 0 THEN 0 ELSE budget - 1
    /\ UNCHANGED <<pc, agent, port, otherKey, polls, manifest, server, size, checks, exit,
                   invokes, sound>>

-----------------------------------------------------------------------------

Environment ==
    \/ AgentServes \/ AgentEnds \/ OtherComesOrGoes
    \/ HealthAnswers \/ Trickle \/ Headers \/ Chunk \/ Judge

Program ==
    \/ Popen \/ AgentStopped \/ HealthAsked \/ ReadFiles
    \/ ValidateFields \/ ValidateSchemas \/ Invoke \/ TimesOut \/ Stop \/ Kill
    \/ (timer = 0 /\ (HealthFails \/ RequestFails))

Next == Environment \/ Program \/ HealthFails \/ RequestFails \/ Tick

\* check() runs, timers fire, and time passes; nothing is asked of a server.
Spec == Init /\ [][Next]_vars /\ WF_vars(Program) /\ WF_vars(Tick)

-----------------------------------------------------------------------------
(* Properties *)

\* Every variable stays in its type.
TypeOK ==
    /\ pc \in {"started", "ready", "polling", "reading", "validating", "schemas", "pinning",
               "headers", "body", "stopping", "exited"}
    /\ agent \in {"none", "starting", "serving", "ended"}
    /\ port \in {"nobody", "agent", "other"} /\ otherKey \in {"agent", "other"}
    /\ port = "agent" <=> agent = "serving"
    /\ polls \in 0..MaxPolls - 1
    /\ manifest \in [local : BOOLEAN, key : Keys]
    /\ server \in [who : {"nobody", "agent", "other"}, address : Addresses \cup {"none"}]
    /\ size \in 0..MaxResponse
    /\ timer \in 0..PollTimeout + DnsTimeout + ReadTimeout + StopTimeout /\ budget \in 0..CheckTimeout
    /\ checks \in Seq([id : {Steps[i] : i \in 1..4}, status : {"passed", "failed"}])
    /\ Len(checks) <= 4
    /\ exit \in {"none", "0", "1", "raised"}
    /\ invokes \in Nat /\ sound \in BOOLEAN

\* docs/provider-check.md:75-80: 0 means that exactly one invoke was made, to an
\* address that is public or this machine, and that manifest, schemas, answer
\* and signature all follow the profile.  And nothing that follows the profile
\* fails a step, but for the invoke, which the network can fail as well.
ReportIsDeserved ==
    /\ invokes > 0 => invokes = 1 /\ server.address \in {"public", "loopback"}
    /\ exit = "0" => invokes = 1 /\ sound
    /\ checks # <<>> /\ Last(checks).status = "failed" /\ Last(checks).id # "invoke" => ~sound

\* The report tells the steps in their order, all passed but perhaps the last,
\* and the check passes only with all four.
ReportIsOrdered ==
    /\ TypeOK
    /\ \A i \in DOMAIN checks : checks[i].id = Steps[i]
    /\ \A i \in DOMAIN checks : i < Len(checks) => checks[i].status = "passed"
    /\ exit = "0" => Len(checks) = 4 /\ Last(checks).status = "passed"

\* The check ends, and with it the provider it started, whether the server is
\* silent or answers byte by byte.  Only the readiness poll, which has no budget
\* around it, can go on for ever: while ever more of an answer arrives.
EveryCheckEnds ==
    \/ <>(pc = "exited" /\ agent = "ended")
    \/ <>[](pc = "polling") /\ []<><<Trickle>>_vars

=============================================================================
