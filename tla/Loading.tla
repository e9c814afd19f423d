------------------------------- MODULE Loading -------------------------------
(***************************************************************************)
(* load_document (toollayer_openapi/loader.py): an upload becomes a parsed *)
(* document within the limits, or a refusal.                               *)
(*                                                                         *)
(* An uploaded document is a tree: a function from positions, the sequence *)
(* of child numbers on the way from the root, to nodes.  A node is its     *)
(* kind ("object", "array", "value", or "constant" for NaN and "overflow"  *)
(* for 1e999), its keys ("plain", "duplicate", "number", "merge" or        *)
(* "structure", the last three only in YAML) and how many children it has. *)
(* A node that YAML aliases share appears once for each use, so that the   *)
(* tree may be deeper than the text nests (nesting).  YAML also            *)
(* has "pair", an item of !!pairs or !!omap, which becomes a tuple; "set", *)
(* of whose keys only a structure is ever refused; and "illtyped" for a    *)
(* scalar that its tag does not fit (a 13th month, !!int x).               *)
(***************************************************************************)
EXTENDS Integers, Sequences, FiniteSets, SequencesExt

CONSTANTS
  Uploads,      \* what is uploaded
  MaxNodes,     \* limits.max_nodes
  MaxDepth,     \* limits.max_depth
  StackDepth    \* how deep the parsers recurse before the interpreter's limit

(* What there is below the root has a parent that counts it. *)
Tree(tree) ==
  /\ <<>> \in DOMAIN tree
  /\ \A p \in DOMAIN tree :
       /\ p \in Seq(Nat) /\ tree[p].width \in Nat
       /\ \A i \in 1 .. tree[p].width : Append(p, i) \in DOMAIN tree
       /\ p # <<>> => Front(p) \in DOMAIN tree /\ Last(p) \in 1 .. tree[Front(p)].width

Kinds(format) ==
  {"object", "array", "value", "constant", "overflow"}
    \cup (IF format = "json" THEN {} ELSE {"pair", "set", "illtyped"})

KeyKinds(format) ==
  {"plain", "duplicate"} \cup (IF format = "json" THEN {} ELSE {"number", "merge", "structure"})

LoadingAssumption ==
  /\ MaxNodes \in Nat /\ MaxDepth \in Nat
  /\ StackDepth \in Nat
  /\ \A u \in Uploads :
       /\ u.bytes \in {"ok", "too_large", "empty", "bom", "not_utf8"}
       /\ u.nesting \in Nat
       /\ Tree(u.tree)
       /\ \A p \in DOMAIN u.tree :
            /\ u.tree[p].kind \in Kinds(u.format)
            /\ u.tree[p].keys \in KeyKinds(u.format)
            /\ u.tree[p].kind = "set" => u.tree[p].keys \in {"plain", "structure"}

VARIABLES
  upload,     \* the upload
  stack,      \* the stack of _enforce_shape: positions of nodes with their depth
  nodes,      \* how many it has popped
  visited,    \* which ones (auxiliary: no action looks at it)
  outcome     \* "raw", "parsed", "loaded", or why it was refused

vars == <<upload, stack, nodes, visited, outcome>>

HasKeys(tree, keys) == \E p \in DOMAIN tree : tree[p].keys \in keys

HasKind(tree, kinds) == \E p \in DOMAIN tree : tree[p].kind \in kinds

(* load_document up to the parse, in the code's order. *)
BytesFault(u) ==
  CASE u.bytes = "too_large" -> "too_large"
    [] u.bytes \in {"empty", "bom", "not_utf8"} -> "invalid"
    [] OTHER -> "none"

(* _parse_json with _strict_json_object_pairs.  What json.loads raises at  *)
(* the interpreter's limit is no ValueError.                               *)
JsonFaults(u) ==
  (IF u.nesting > StackDepth THEN {"crashed"} ELSE {})
    \cup (IF HasKeys(u.tree, {"duplicate"}) \/ HasKind(u.tree, {"constant"}) THEN {"invalid"} ELSE {})

(* _parse_yaml with _no_duplicate_mapping.  What SafeLoader raises on a    *)
(* scalar that is ill typed is no YAMLError.                               *)
YamlFaults(u) ==
  (IF u.nesting > StackDepth THEN {"too_large"} ELSE {})
    \cup (IF HasKeys(u.tree, {"duplicate", "merge", "structure"}) THEN {"invalid"} ELSE {})
    \cup (IF HasKind(u.tree, {"illtyped"}) THEN {"crashed"} ELSE {})

(* What the parser may refuse a text for: which fault it meets first is up *)
(* to the library.                                                         *)
ParseFaults(u) ==
  (IF u.wellFormed THEN {} ELSE {"invalid"})
    \cup (IF u.format = "json" THEN JsonFaults(u) ELSE YamlFaults(u))

Init ==
  /\ upload \in Uploads
  /\ stack = <<>>
  /\ nodes = 0
  /\ visited = {}
  /\ outcome = "raw"

Refuse(why) == outcome' = why /\ UNCHANGED stack

(* The bytes, the parse and the test of the root. *)
Parse ==
  /\ outcome = "raw"
  /\ CASE BytesFault(upload) # "none" -> Refuse(BytesFault(upload))
       [] BytesFault(upload) = "none" /\ ParseFaults(upload) # {} ->
            \E fault \in ParseFaults(upload) : Refuse(fault)
       [] OTHER -> IF upload.tree[<<>>].kind # "object" THEN Refuse("invalid")
                   ELSE outcome' = "parsed" /\ stack' = <<<<<<>>, 0>>>>
  /\ UNCHANGED <<upload, nodes, visited>>

(* _enforce_shape goes into a dict and a list; a tuple and a set are       *)
(* neither.                                                                *)
Opaque == {"pair", "set"}

Entered(node) == IF node.kind \in Opaque THEN 0 ELSE node.width

Pushed(p, depth) == [i \in 1 .. Entered(upload.tree[p]) |-> <<Append(p, i), depth + 1>>]

Overrun(count) == count > MaxNodes

(* Mutant: only the literals NaN and Infinity count as non-finite. *)
ShapeFault_LiteralsOnly(node) == node.keys = "number"

(* What _enforce_shape refuses in a node it has popped. *)
ShapeFault(node) == node.keys = "number" \/ node.kind \in {"constant", "overflow"}

(* One turn of _enforce_shape's loop. *)
PopNode ==
  /\ outcome = "parsed"
  /\ stack # <<>>
  /\ LET p == Last(stack)[1]
         depth == Last(stack)[2]
     IN  /\ nodes' = nodes + 1
         /\ visited' = visited \cup {p}
         /\ CASE Overrun(nodes + 1) \/ depth > MaxDepth ->
                   outcome' = "too_large" /\ UNCHANGED stack
              [] ~(Overrun(nodes + 1) \/ depth > MaxDepth) /\ ShapeFault(upload.tree[p]) ->
                   outcome' = "invalid" /\ UNCHANGED stack
              [] OTHER -> stack' = Front(stack) \o Pushed(p, depth) /\ UNCHANGED outcome
  /\ UNCHANGED upload

(* The version and the paths. *)
Accept ==
  /\ outcome = "parsed"
  /\ stack = <<>>
  /\ outcome' = IF upload.version = "3.x" /\ upload.paths THEN "loaded" ELSE "invalid"
  /\ UNCHANGED <<upload, stack, nodes, visited>>

Next == Parse \/ PopNode \/ Accept

Spec == Init /\ [][Next]_vars

-----------------------------------------------------------------------------

(* The positions that stand in no set and no pair. *)
Walked(tree) ==
  {p \in DOMAIN tree : \A i \in 1 .. Len(p) : tree[SubSeq(p, 1, i - 1)].kind \notin Opaque}

(* What holds of a whole document that is loaded, sets and pairs included. *)
Readable(u) ==
  /\ u.bytes = "ok"
  /\ u.wellFormed
  /\ u.nesting <= StackDepth
  /\ \A p \in DOMAIN u.tree :
       /\ u.tree[p].keys \in {"plain", "number"}
       /\ u.tree[p].kind # "illtyped"
       /\ u.format = "json" => u.tree[p].kind # "constant"

(* What holds outside of its sets and pairs. *)
Orderly(u) ==
  /\ u.tree[<<>>].kind = "object"
  /\ IsFiniteSet(Walked(u.tree)) /\ Cardinality(Walked(u.tree)) <= MaxNodes
  /\ \A p \in Walked(u.tree) :
       /\ Len(p) <= MaxDepth
       /\ u.tree[p].keys = "plain"
       /\ u.tree[p].kind \notin {"constant", "overflow"}

(* What the rest of the converter may rely on. *)
Sound(u) == Readable(u) /\ Orderly(u) /\ u.version = "3.x" /\ u.paths

(* A document is loaded exactly if the parser takes all of it and, outside *)
(* of YAML's sets and pairs, it is within the limits, with string keys and *)
(* finite numbers: a walk that stops at its first fault refuses all of the *)
(* others, wherever the fault is.  Nothing is asked of what stands in a    *)
(* set or a pair beyond what the parser asks.                              *)
LoadedIffSound ==
  outcome \notin {"raw", "parsed"} => (outcome = "loaded" <=> Sound(upload))

(* However wide or shared the document is, the walk visits at most one     *)
(* node more than the limit, and what waits on its stack is no deeper than *)
(* one level past the limit.                                               *)
WalkBounded ==
  /\ nodes <= MaxNodes + 1
  /\ \A i \in DOMAIN stack : stack[i][2] <= MaxDepth + 1

(* It is not the case that a deeply nested document is refused with an     *)
(* error that names the limit (loader.py:210): json.loads gives up first.  *)
NestingReported == outcome = "crashed" => upload.nesting <= StackDepth

(* Nor that nesting depth and node count are capped (loader.py:10): what a *)
(* set or a pair holds is not counted.                                     *)
LimitsHoldEverywhere ==
  outcome = "loaded" =>
    /\ \A p \in DOMAIN upload.tree : Len(p) <= MaxDepth
    /\ Cardinality(DOMAIN upload.tree) <= MaxNodes
=============================================================================
