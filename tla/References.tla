----------------------------- MODULE References -----------------------------
(***************************************************************************)
(* ReferenceResolver (toollayer_openapi/references.py): a node of the      *)
(* document with every same-document reference inlined, or a refusal.      *)
(*                                                                         *)
(* A document is a function from places, the keys and indices on the way   *)
(* from its root, to nodes.  A node is [kind, ref, value]: an object, a    *)
(* list or a scalar; ref is the place that an object's $ref names, <<>> if *)
(* it has none.  Both kinds of ConversionError are one refusal, as they    *)
(* are to the analyzer.                                                    *)
(***************************************************************************)
EXTENDS Integers, Sequences, SequencesExt

CONSTANTS
  Inputs,                 \* pairs of a document and a place in it
  MaxResolutionDepth      \* _MAX_RESOLUTION_DEPTH

(* What $ref values _reference_pointer refuses: not a string, not "#/...". *)
Foreign == {<<"remote">>, <<"malformed">>}

(* What the parser returns: what contains a node is there, and only an     *)
(* object has a reference.  "#/" is the shortest pointer, so none is to    *)
(* the root.                                                               *)
IsDocument(document) ==
  /\ DOMAIN document \subseteq Seq(STRING) /\ <<>> \in DOMAIN document
  /\ \A p \in DOMAIN document \ {<<>>} : Front(p) \in DOMAIN document
  /\ \A p \in DOMAIN document : document[p].ref # <<>> => document[p].kind = "object"

ReferencesAssumption ==
  /\ MaxResolutionDepth \in Nat
  /\ \A pair \in Inputs : IsDocument(pair[1]) /\ pair[2] \in DOMAIN pair[1]

(* The keys of a node: for one with a reference, the siblings of $ref. *)
Members(document, place) ==
  {Last(p) : p \in {q \in DOMAIN document : q # <<>> /\ Front(q) = place}}

Refused == [outcome |-> "refused"]
Pending == [outcome |-> "pending"]
Resolved(tree) == [outcome |-> "resolved", tree |-> tree]

-----------------------------------------------------------------------------
(* A tree with other parts under some keys, which replace what is there.   *)
Overlay(base, parts) ==
  [q \in {r \in DOMAIN base : r = <<>> \/ Head(r) \notin DOMAIN parts}
           \cup UNION {{<<k>> \o r : r \in DOMAIN parts[k]} : k \in DOMAIN parts} |->
     IF q # <<>> /\ Head(q) \in DOMAIN parts THEN parts[Head(q)][Tail(q)] ELSE base[q]]

(* What was resolved below a node, over a tree. *)
Assembled(base, below) ==
  IF \E k \in DOMAIN below : below[k] = Refused THEN Refused
  ELSE Resolved(Overlay(base, [k \in DOMAIN below |-> below[k].tree]))

(* Mutant: the siblings are laid over the target as they stand. *)
Merged_Raw(document, place, inlined, below) ==
  Resolved(Overlay(inlined, [k \in DOMAIN below |-> [q \in {<<>>} |-> document[Append(place, k)]]]))

(* The siblings of a reference, resolved, over its resolved target.  Those *)
(* of a reference to something other than an object are not looked at.     *)
Merged(document, place, inlined, below) ==
  IF inlined[<<>>].kind = "object" THEN Assembled(inlined, below) ELSE Resolved(inlined)

(* What has no target, for _reference_pointer and _dereference. *)
Broken(document, place) ==
  document[place].ref # <<>> /\ document[place].ref \notin DOMAIN document \ Foreign

Recursive(seen, target) == target \in seen

(* _resolve of a place below the targets in seen, by what it returns one   *)
(* level deeper.                                                           *)
ResolveNode(document, place, seen, deeper) ==
  LET node == document[place]
      below == [k \in Members(document, place) |-> deeper[Append(place, k)][seen]]
      inlined == deeper[node.ref][seen \cup {node.ref}]
  IN  IF node.ref = <<>> THEN Assembled([q \in {<<>>} |-> node], below)
      ELSE IF Broken(document, place) \/ Recursive(seen, node.ref) THEN Refused
      ELSE IF inlined = Refused THEN Refused
      ELSE Merged(document, place, inlined.tree, below)

(* _resolve, for so many levels left: none of them is left where the depth *)
(* is greater than the limit.                                              *)
Targets(document) == {document[p].ref : p \in DOMAIN document}

Levels(document) ==
  LET level[n \in 0 .. MaxResolutionDepth + 1] ==
        [place \in DOMAIN document |->
           [seen \in SUBSET Targets(document) |->
              IF n = 0 THEN Refused ELSE ResolveNode(document, place, seen, level[n - 1])]]
  IN  level

Resolve(document, place) == Levels(document)[MaxResolutionDepth + 1][place][{}]

-----------------------------------------------------------------------------
VARIABLES input, resolved

vars == <<input, resolved>>

Init ==
  /\ input \in Inputs
  /\ resolved = Pending

ResolveInput ==
  /\ resolved = Pending
  /\ resolved' = Resolve(input[1], input[2])
  /\ UNCHANGED input

Next == ResolveInput

Spec == Init /\ [][Next]_vars

-----------------------------------------------------------------------------
Done == resolved \notin {Pending, Refused}

(* Nothing that the converter sees is still a reference, whether it stood  *)
(* in the node, in a target, or beside another reference.                  *)
NoReferenceLeft == Done => \A q \in DOMAIN resolved.tree : resolved.tree[q].ref = <<>>

(* Where the reference at a place leads after so many references. *)
Ends(document) ==
  LET end[n \in 0 .. MaxResolutionDepth] ==
        [p \in DOMAIN document |->
           IF n = 0 \/ document[p].ref = <<>> \/ Broken(document, p) THEN p
           ELSE end[n - 1][document[p].ref]]
  IN  end

(* What a place is made of: what it contains, and what its reference is    *)
(* to.  What is beside a reference counts if that leads to an object.      *)
Uses(document, p) ==
  LET contained == {Append(p, k) : k \in Members(document, p)}
      end == Ends(document)[MaxResolutionDepth][p]
  IN  IF document[p].ref = <<>> THEN contained
      ELSE {r \in DOMAIN document : r = document[p].ref}
             \cup {c \in contained : document[end].kind = "object"}

(* What a place is made of, step by step. *)
Unfolded(document, place) ==
  LET reached[n \in 0 .. MaxResolutionDepth + 1] ==
        IF n = 0 THEN {place} ELSE UNION {Uses(document, p) : p \in reached[n - 1]}
  IN  reached

(* What a place is made of ends within the depth limit, without a broken   *)
(* reference.  A cycle of references has no end.                           *)
Resolvable(document, place) ==
  LET reached == Unfolded(document, place)
  IN  /\ reached[MaxResolutionDepth + 1] = {}
      /\ \A n \in 0 .. MaxResolutionDepth : \A p \in reached[n] : ~Broken(document, p)

(* A node is refused exactly if what it is made of has a broken reference  *)
(* or no end within the limit: a target that is used twice is not a cycle, *)
(* a cycle of any length is one, and nothing is refused for what does not  *)
(* become part of the result.                                              *)
UnresolvedForCause == resolved # Pending => (Done <=> Resolvable(input[1], input[2]))

(* A sibling of a reference adds to its target and replaces no keyword     *)
(* that the target has.                                                    *)
SiblingsOnlyAnnotate ==
  LET ref == input[1][input[2]].ref
      target == Levels(input[1])[MaxResolutionDepth][ref][{ref}].tree
  IN  Done /\ ref # <<>> =>
        \A q \in DOMAIN target \ {<<>>, <<"description">>} :
          q \in DOMAIN resolved.tree /\ resolved.tree[q] = target[q]
=============================================================================
