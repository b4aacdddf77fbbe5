------------------------------ MODULE RunTrust ------------------------------
(***************************************************************************)
(* What VERIFIED on the page rests on: one run of playground/runner.py     *)
(* from the Hub's answer on.  The receipt is judged against the origin's   *)
(* key (_verify_receipt_origin), the result is published, Metis is asked   *)
(* (MetisVerdict), and showResult puts the two outcomes together.          *)
(***************************************************************************)
EXTENDS MetisVerdict, ReceiptCheck

VARIABLES
    receipt,      \* receipt_verification: unchecked, verified, refused; or raised
    deserved,     \* history: what the origin signed deserves to be verified
    misread       \* history: its text was read as of the other version

trust == <<receipt, deserved, misread>>

TrustInit ==
    /\ Init
    /\ receipt = "unchecked"
    /\ deserved = FALSE /\ misread = FALSE

\* The Hub's answer has no receipt, or one without a signature; or one of the
\* two is not an object, which run() expects them to be.
ReceiptAbsent ==
    /\ receipt = "unchecked"
    /\ receipt' \in {"refused", "raised"}
    /\ UNCHANGED <<deserved, misread, vars>>

\* The well-known document cannot be fetched; or is nested too deep to be read.
OriginUnavailable ==
    /\ receipt = "unchecked"
    /\ receipt' \in {"refused", "raised"}
    /\ UNCHANGED <<deserved, misread, vars>>

\* It can, and names `published', which need not be the key that signed: the
\* receipt relayed carries what the origin signed for o, here or elsewhere.
\* (No algorithm and no version are as good as the ones they default to.)
OriginAnswers ==
    /\ receipt = "unchecked"
    /\ \E o \in Originals, body \in RelayedBodies, algorithm \in Algorithms \ {"absent"},
          version \in Versions \ {"absent"}, value \in Encodings, published \in Keys \cup {Malformed, Weak} :
          LET r == [body |-> body,
                    signature |-> [algorithm |-> algorithm, version |-> version,
                                   value |-> value, key |-> o.key, text |-> SignedText(o)]]
              reason == Reason(r, published)
          IN  /\ deserved' = Deserves(r, o, published)
              /\ misread' = Misread(r, o)
              /\ receipt' = IF reason = "raises" THEN "raised"
                            ELSE IF reason = "ok" THEN "verified" ELSE "refused"
    /\ UNCHANGED vars

\* The result is published; then Metis is asked.
AsksMetis ==
    /\ receipt \in {"verified", "refused"}
    /\ Next
    /\ UNCHANGED trust

TrustNext == ReceiptAbsent \/ OriginUnavailable \/ OriginAnswers \/ AsksMetis

TrustSpec == TrustInit /\ [][TrustNext]_<<vars, trust>>

\* showResult: fullyVerified.
ShowsVerified == pc = "done" /\ receipt = "verified" /\ verdict.verified

-----------------------------------------------------------------------------
(* Properties *)

TrustTypeOK ==
    /\ TypeOK
    /\ receipt \in {"unchecked", "verified", "refused", "raised"}
    /\ deserved \in BOOLEAN /\ misread \in BOOLEAN

\* README.md:127-129: a receipt whose signature is the origin's, under the key
\* it publishes, for what is shown of product, capability and success, and
\* covers all that arrived, is verified; and no other one is, but one whose text
\* was read as of the other version (Misread of ReceiptCheck).
VerifiedIffDeserved ==
    /\ deserved => receipt = "verified"
    /\ receipt = "verified" => deserved \/ misread

\* README.md:138-140: VERIFIED needs the assessment Metis' critic passed, plausible
\* in the part of it that is searched, and the receipt the origin signed, all of
\* this run; the exception of VerifiedIffDeserved is one here.
VerifiedNeedsBoth ==
    ShowsVerified => (deserved \/ misread) /\ Shown = "plausible and verified"

\* Behind its receipt a run fails only by what no handler names: a request that
\* cannot be sent, an answer nested too deep, or, where the search looks, a score
\* no float holds or a value nested too deep.  Inside another object, or past the
\* limit, these do no harm; where it looks, they never pass.
OnlyUnnamedRaises ==
    LET odd == {i \in Considered(reply.text) : reply.text[i].kind \in Unnamed}
    IN  /\ pc = "raised" => reply.cause \in {"unsent", "unreadable"} \/ odd # {}
        /\ pc = "done" /\ verdict.assessment # "none" => odd = {}

=============================================================================
