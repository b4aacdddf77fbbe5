-------------------------- MODULE ProviderProfile --------------------------
(***************************************************************************)
(* The rules of the provider invoke profile that hold no state: the walks  *)
(* of playground/provider_check.py over documents and schemas, and the     *)
(* targets provider_http.py lets through.                                  *)
(*                                                                         *)
(* A document is a tree of numbered nodes, 1 its root, the others with a   *)
(* parent of a smaller number.                                             *)
(***************************************************************************)
EXTENDS Naturals, Sequences, SequencesExt

CONSTANTS
    MaxDepth, MaxNodes,   \* the 16 and the 4096 of read_json
    TreeBound             \* bound of the model: nodes of a document

ASSUME DocumentBounds == MaxDepth \in Nat /\ MaxNodes \in Nat /\ TreeBound \in Nat \ {0}

Parents(n) == {p \in [1..n -> 0..n] : \A i \in 1..n : p[i] < i /\ (p[i] = 0 <=> i = 1)}

\* In some order: the walks do not depend on the one in which they push.
Children(parent, i) == SetToSeq({k \in DOMAIN parent : parent[k] = i})

-----------------------------------------------------------------------------
(* read_json *)

\* `text': UTF-8 JSON within 64 KiB and without duplicate keys, or not.
Documents == [text : {"fine", "refused"}, parent : UNION {Parents(n) : n \in 1..TreeBound}]

Start == [stack |-> <<[node |-> 1, depth |-> 0]>>, nodes |-> 0, refused |-> FALSE]

ExceedsLate(depth, nodes) ==     \* mutant: the limit is one level too deep
    depth > MaxDepth + 1 \/ nodes > MaxNodes

Exceeds(depth, nodes) == depth > MaxDepth \/ nodes > MaxNodes

\* One turn of the loop: an item is popped, its children are pushed.
ReadTurn(parent, w) ==
    LET item == Last(w.stack)
        below == Children(parent, item.node)
    IN  IF w.stack = <<>> \/ w.refused THEN w
        ELSE [stack |-> Front(w.stack) \o [k \in DOMAIN below |->
                  [node |-> below[k], depth |-> item.depth + 1]],
              nodes |-> w.nodes + 1,
              refused |-> Exceeds(item.depth, w.nodes + 1)]

ReadWalk(parent) ==
    LET walk[k \in 0..Len(parent)] == IF k = 0 THEN Start ELSE ReadTurn(parent, walk[k - 1])
    IN  walk

ReadJson(d) == d.text = "fine" /\ ~ReadWalk(d.parent)[Len(d.parent)].refused

-----------------------------------------------------------------------------
(* validate_schema *)

\* `root': a JSON object of type object that is a valid JSON Schema.  `sub'
\* marks a node that is a value of properties, items or additionalProperties,
\* and not of enum or const; `odd' one with a keyword outside SCHEMA_KEYS.
Schemas ==
    UNION {[root : BOOLEAN, parent : Parents(n), sub : [1..n -> BOOLEAN], odd : [1..n -> BOOLEAN]]
             : n \in 1..TreeBound}

Subschemas(s, i) == SetToSeq({k \in DOMAIN s.parent : s.parent[k] = i /\ s.sub[k]})

SchemaStart == [stack |-> <<1>>, refused |-> FALSE]

SchemaTurn(s, w) ==
    IF w.stack = <<>> \/ w.refused THEN w
    ELSE [stack |-> Front(w.stack) \o Subschemas(s, Last(w.stack)),
          refused |-> s.odd[Last(w.stack)]]

SchemaWalk(s) ==
    LET walk[k \in 0..Len(s.parent)] == IF k = 0 THEN SchemaStart ELSE SchemaTurn(s, walk[k - 1])
    IN  walk

ValidateSchema(s) == s.root /\ ~SchemaWalk(s)[Len(s.parent)].refused

-----------------------------------------------------------------------------
(* parse_target and pin_target *)

\* `local': the host is localhost or a loopback address.
Urls == [plain : BOOLEAN, scheme : {"http", "https", "other"},
         port : {"none", "443", "other"}, local : BOOLEAN]
Addresses == {"public", "loopback", "private"}

ParseTarget(url, allowLoopback) ==
    /\ url.plain
    /\ IF allowLoopback /\ url.local THEN url.scheme \in {"http", "https"}
       ELSE url.scheme = "https" /\ url.port \in {"none", "443"}

MayConnect(a, allowLoopback) == a = "public" \/ (allowLoopback /\ a = "loopback")

\* Every address the name resolves to; the first of them is connected to.
PinTarget(resolved, allowLoopback) ==
    resolved # {} /\ \A a \in resolved : MayConnect(a, allowLoopback)

-----------------------------------------------------------------------------
(* The same rules, without the walks *)

Depth(parent) ==
    LET d[i \in DOMAIN parent] == IF i = 1 THEN 0 ELSE d[parent[i]] + 1
    IN  d

Within(d) ==
    /\ d.text = "fine" /\ Len(d.parent) <= MaxNodes
    /\ \A i \in DOMAIN d.parent : Depth(d.parent)[i] <= MaxDepth

\* The nodes all of whose ancestors, up to the root, are subschemas.
Positions(s) ==
    LET at[i \in DOMAIN s.parent] == i = 1 \/ (s.sub[i] /\ at[s.parent[i]])
    IN  {i \in DOMAIN s.parent : at[i]}

Supported(s) == s.root /\ \A i \in Positions(s) : ~s.odd[i]

=============================================================================
