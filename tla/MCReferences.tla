---------------------------- MODULE MCReferences ----------------------------
(* References for TLC: two components that refer to each other, to a part  *)
(* of one, to nothing, or abroad, with and without siblings, and some that *)
(* are not objects; and a path item that uses them.                        *)
EXTENDS Sequences

Tree(node, entries) ==
  [q \in {<<>>} \cup UNION {{<<k>> \o r : r \in DOMAIN entries[k]} : k \in DOMAIN entries} |->
     IF q = <<>> THEN node ELSE entries[Head(q)][Tail(q)]]

Scalar(v) == Tree([kind |-> "scalar", ref |-> <<>>, value |-> v], <<>>)
Object(entries) == Tree([kind |-> "object", ref |-> <<>>, value |-> 0], entries)
List(item) == Tree([kind |-> "list", ref |-> <<>>, value |-> 0], [k \in {"0"} |-> item])
Ref(target, siblings) == Tree([kind |-> "object", ref |-> target, value |-> 0], siblings)

Goals == {<<"X">>, <<"Y">>, <<"X", "items">>, <<"Z">>, <<"remote">>}

Refs ==
  {Ref(t, <<>>) : t \in Goals}
   \cup {Ref(t, [type |-> Scalar(2)]) : t \in {<<"X">>, <<"Y">>}}
   \cup {Ref(<<"X">>, [items |-> Ref(<<"Y">>, <<>>)])}

Components ==
  {Object([type |-> Scalar(1)]), Scalar(1), List(Ref(<<"Y">>, <<>>))} \cup Refs
   \cup {Object([type |-> Scalar(1), items |-> r]) : r \in Refs}
   \cup {Object([items |-> Object([items |-> Ref(t, <<>>)])]) : t \in {<<"X">>, <<"Y">>, <<"Z">>}}

Users ==
  Refs \cup {Object([first |-> r, second |-> s]) : r, s \in Refs}

MCInputs ==
  {<<Object([X |-> x, Y |-> y, path |-> n]), <<"path">>>> : x, y \in Components, n \in Users}
=============================================================================
