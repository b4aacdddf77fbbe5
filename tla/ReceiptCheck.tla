---------------------------- MODULE ReceiptCheck ----------------------------
(***************************************************************************)
(* verify_receipt of playground/receipts.py as operators: what a signature *)
(* covers, in which order a receipt is judged, and, written without that   *)
(* order, which receipts deserve to pass.                                  *)
(*                                                                         *)
(* A signature is the key it was made with and the text it was made for;   *)
(* nobody makes one without the key.  The text is written field by field   *)
(* with "|" between them, and is not parsed: two receipts may have one     *)
(* text.  The origin's nonce, price, timestamp and ids hold no "|", so a   *)
(* relayed value of these that does is only another one; latency_ms comes  *)
(* last, and may end in what version 2 appends, a digest and its label.    *)
(***************************************************************************)
EXTENDS Naturals, Sequences

CONSTANTS
    Product, Capability, Other,   \* ids: the two this run asked for, and another
    Details,        \* the texts of nonce, price_usd, timestamp and a plain latency_ms
    Deep,           \* a value there that is nested too deep to be formatted
    Extras,         \* digests of the fields only version 2 signs
    Keys,           \* the origin's signing keys
    Malformed, Weak \* a published key that is not one, or of small order

ASSUME KeysDistinct == Malformed \notin Keys /\ Weak \notin Keys /\ Malformed # Weak
ASSUME DeepDistinct == Deep \notin Details
ASSUME IdsDistinct == Product # Other /\ Capability # Other

\* JSON true; another value Python takes for true; or one it takes for false.
Successes == {"true", "truthy", "falsy"}
Truthy(s) == s # "falsy"

\* A digest, labelled as version 2 does, or none.
Tails == {<<>>} \cup {<<e>> : e \in Extras}

\* `tail': what latency_ms has after its plain text.
Bodies == [details : Details, product : {Product, Other}, capability : {Capability, Other},
           success : Successes, tail : Tails, extra : Extras]
RelayedBodies == Bodies \cup {[b EXCEPT !.details = Deep] : b \in Bodies}

\* canonical_receipt.
Canonical(r, version) ==
    [details |-> r.details, product |-> r.product, capability |-> r.capability,
     success |-> Truthy(r.success),
     tail |-> r.tail \o (IF version = 1 THEN <<>> ELSE <<r.extra>>)]

\* A receipt the origin signed; it says true or false of the success.
Originals == [body : {b \in Bodies : b.success # "truthy"}, version : {1, 2}, key : Keys]
SignedText(o) == Canonical(o.body, o.version)

\* The signature member as it arrives; `text' is what `key' signed, if the
\* value is a signature at all.  Versions are as JSON spells them.
Algorithms == {"ed25519", "absent", "other"}
Versions   == {"absent", "1", "2", "other", "infinite"}
Encodings  == {"empty", "garbled", "made"}

\* _signed_version: 0 stands for none that is supported.
SignedVersion(s) ==
    IF s.value = "empty" THEN 0
    ELSE CASE s.version \in {"absent", "1"} -> 1
           [] s.version = "2" -> 2
           [] OTHER -> 0

\* OpenSSL takes any signature under a key of small order.
Verifies(s, key, text) == key = Weak \/ (s.key = key /\ s.text = text)

\* Key and signature decode, have their lengths, and the key is strict.
Material(s, published) == s.value = "made" /\ published \notin {Malformed, Weak}

IsSuccessTruthy(r) ==            \* mutant: `is True' becomes a test for truth
    Truthy(r.body.success)

IsSuccess(r) == r.body.success = "true"

\* verify_receipt on a receipt with a signature, its returns in their order;
\* or an exception that is none of those it names: int() of an infinite version
\* (an OverflowError), the text of a deep value (a RecursionError).
Reason(r, published) ==
    LET s == r.signature
        version == SignedVersion(s)
    IN  IF s.algorithm = "other" THEN "unsupported-signature-algorithm"
        ELSE IF s.value # "empty" /\ s.version = "infinite" THEN "raises"
        ELSE IF version = 0 THEN "unsupported-signature-version"
        ELSE IF ~Material(s, published) THEN "malformed-signature-material"
        ELSE IF r.body.details = Deep THEN "raises"
        ELSE IF ~Verifies(s, published, Canonical(r.body, version)) THEN "invalid-signature"
        ELSE IF r.body.product # Product THEN "product-mismatch"
        ELSE IF r.body.capability # Capability THEN "capability-mismatch"
        ELSE IF ~IsSuccess(r) THEN "invoke-not-successful"
        ELSE "ok"

-----------------------------------------------------------------------------

\* What the origin signed is kept: everything a version 2 signature covers,
\* all but the additional fields for version 1.
Unaltered(r, o) ==
    /\ r.body.details = o.body.details
    /\ r.body.product = o.body.product
    /\ r.body.capability = o.body.capability
    /\ Truthy(r.body.success) = Truthy(o.body.success)
    /\ r.body.tail = o.body.tail
    /\ o.version = 2 => r.body.extra = o.body.extra

\* o is what the receipt is taken for: the origin's word, under the key it
\* publishes, that this product and capability were invoked successfully.
Attests(o, published) ==
    /\ o.key = published
    /\ o.body.product = Product /\ o.body.capability = Capability
    /\ Truthy(o.body.success)

WellFormed(r, version) ==
    /\ r.signature.value = "made"
    /\ r.signature.algorithm # "other"
    /\ r.signature.version \in IF version = 1 THEN {"absent", "1"} ELSE {"2"}
    /\ r.body.success = "true"

Deserves(r, o, published) ==
    WellFormed(r, o.version) /\ Unaltered(r, o) /\ Attests(o, published)

\* One text, read as of the other version: what version 2 appended is taken for
\* the end of latency_ms, or the other way round.
Misread(r, o) ==
    /\ SignedVersion(r.signature) # o.version
    /\ r.body.tail # o.body.tail

=============================================================================
