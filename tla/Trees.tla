------------------------------- MODULE Trees -------------------------------
(***************************************************************************)
(* JSON schemas and JSON values as trees.  A tree is a function from the   *)
(* paths to what is in it, its own is <<>>, to what there is at the path.  *)
(* The steps of a path in a schema are names: of a property, or ItemStep   *)
(* where it leads to the items of an array.  Those in a value are          *)
(* [name, index]: a property and 0, or ItemStep and the index of an        *)
(* element.  So SchemaPath leads to the schema that is for a value.        *)
(***************************************************************************)
EXTENDS Integers, Sequences, FiniteSets, SequencesExt

CONSTANT ItemStep    \* what no property is called

(* What comes next after a path in a tree. *)
Below(tree, path) ==
  {Last(p) : p \in {q \in DOMAIN tree : q # <<>> /\ Front(q) = path}}

SchemaPath(q) == [i \in DOMAIN q |-> q[i].name]

(* The part of a value at a path, and the names of its members. *)
Part(v, q) ==
  [r \in {SubSeq(p, Len(q) + 1, Len(p)) : p \in {x \in DOMAIN v : IsPrefix(q, x)}} |-> v[q \o r]]

Members(v, q) == {step.name : step \in Below(v, q)}

(* A tree of schemas, and a tree of values of some type each. *)
SchemaTree(s) == <<>> \in DOMAIN s /\ DOMAIN s \subseteq Seq(STRING)

ValueTree(v) ==
  /\ <<>> \in DOMAIN v
  /\ DOMAIN v \subseteq Seq([name : STRING, index : Nat])
  /\ \A q \in DOMAIN v \ {<<>>} :
       /\ Front(q) \in DOMAIN v
       /\ v[Front(q)].t = IF Last(q).name = ItemStep THEN "array" ELSE "object"
       /\ Last(q).name # ItemStep => Last(q).index = 0
=============================================================================
