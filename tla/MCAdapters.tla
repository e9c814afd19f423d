----------------------------- MODULE MCAdapters -----------------------------
(* Adapters for TLC: schemas of up to two properties with what each rule   *)
(* of the projection is about, and every argument object over their names. *)
EXTENDS Integers, Sequences

T == INSTANCE MCSchemaConversion
MCArrayStep == T!MCItemStep

Node(type) == [types |-> {type}, enum |-> <<>>, required |-> {}, open |-> FALSE, stray |-> FALSE]
Leaf(node) == T!Grown(node, <<>>)
Object(properties, required) == T!Grown([Node("object") EXCEPT !.required = required], properties)
ArrayOf(item) == T!Grown(Node("array"), [step \in {MCArrayStep} |-> item])
One(p, s) == [q \in {p} |-> s]
Two(p, s, q, r) == [x \in {p, q} |-> IF x = p THEN s ELSE r]

Scalar(type, v) == T!Grown([t |-> type, v |-> v], <<>>)
Null == Scalar("null", "")
S1 == Scalar("string", "one")
S2 == Scalar("string", "two")
Fields(f) ==
  T!Grown([t |-> "object", v |-> ""],
          [step \in {T!Step(name, 0) : name \in DOMAIN f} |-> f[step.name]])
Elements(e) ==
  T!Grown([t |-> "array", v |-> ""],
          [step \in {T!Step(MCArrayStep, i) : i \in DOMAIN e} |-> e[step.index]])

Text == Leaf(Node("string"))
Choice == Leaf([Node("string") EXCEPT !.enum = <<{S1}>>])
Inner == Object(One("x", Text), {})
Untyped == Leaf([Node("string") EXCEPT !.types = {}])
Nullable == Leaf([Node("string") EXCEPT !.types = {"string", "null"}])
Nothing == Leaf([Node("null") EXCEPT !.enum = <<{Null}>>])

Flat ==
  {Object(Two("a", Text, "b", Choice), required) : required \in SUBSET {"a", "b"}}
    \cup {Object(One("a", Inner), {"a"}), Object(One("a", ArrayOf(Inner)), {}),
          Object(One("a", Object(One("x", Text), {"x"})), {})}
Others ==
  {Object(One("a", Untyped), {}), Object(One("a", Untyped), {"a"}), Object(One("a", Nullable), {}),
   Object(One("a", Nothing), {}), Object(One("a", Leaf([Node("string") EXCEPT !.stray = TRUE])), {}),
   T!Grown([Node("object") EXCEPT !.open = TRUE], One("a", Text)),
   Object(Two("a", Text, "b", Inner), {"b"}),
   Object(One("a", Object(One("items", ArrayOf(Inner)), {})), {}),
   Object(One("a", ArrayOf(ArrayOf(Inner))), {"a"})}

MCCatalogs == {<<s>> : s \in Flat \cup Others} \cup {<<s, t>> : s \in Others, t \in Flat}

Lower == {Fields(<<>>)} \cup {Fields(One("x", v)) : v \in {S1, Null}}
Leaves == {S1, S2, Null} \cup Lower \cup {Elements(<<v>>) : v \in Lower}
            \cup {Elements(<<Elements(<<v>>)>>) : v \in Lower}
MCArgumentObjects ==
  {Fields(<<>>)}
    \cup {Fields(f) : f \in UNION {[d -> Leaves] : d \in {{"a"}, {"b"}, {"a", "b"}}}}
=============================================================================
