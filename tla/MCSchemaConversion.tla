------------------------- MODULE MCSchemaConversion -------------------------
(* SchemaConversion for TLC: every combination of bounds on a number, and  *)
(* objects and arrays of such schemas up to one level past the limit.      *)
EXTENDS Integers, Sequences, SequencesExt

(* A tree with a root, and trees below it by their first steps. *)
Grown(root, trees) ==
  LET below == UNION {{<<step>> \o p : p \in DOMAIN trees[step]} : step \in DOMAIN trees}
  IN  [p \in {<<>>} \cup below |-> IF p = <<>> THEN root ELSE trees[Head(p)][Tail(p)]]

MCItemStep == "[]"

Step(name, index) == [name |-> name, index |-> index]
V(t, n) == Grown([t |-> t, n |-> n], <<>>)
NullV == V("null", 0)
ObjectV(fields) ==
  Grown([t |-> "object", n |-> 0],
        [step \in {Step(name, 0) : name \in DOMAIN fields} |-> fields[step.name]])
ArrayV(elements) ==
  Grown([t |-> "array", n |-> Len(elements)],
        [step \in {Step(MCItemStep, i) : i \in DOMAIN elements} |-> elements[step.index]])

NoBound == [form |-> "absent", at |-> 0]
At(n) == [form |-> "number", at |-> n]
Form(f) == [form |-> f, at |-> 0]

Plain(type) ==
  [shape |-> "object", type |-> type, composition |-> FALSE, stray |-> FALSE, nullable |-> "absent",
   enum |-> <<>>, default |-> <<>>, low |-> NoBound, high |-> NoBound, xlow |-> NoBound,
   xhigh |-> NoBound, required |-> {}, additional |-> "absent"]

Forms == {Form("true"), Form("false"), Form("malformed"), NoBound, At(1)}

Numbers ==
  {[Plain(t) EXCEPT !.nullable = n, !.low = l, !.xlow = x, !.high = h, !.xhigh = y] :
     t \in {"integer", "number"}, n \in {"absent", "yes"}, l, h \in {NoBound, At(1)}, x, y \in Forms}

Small ==
  {Plain("string"), [Plain("string") EXCEPT !.nullable = "yes", !.low = At(1), !.xlow = Form("true")],
   [Plain("integer") EXCEPT !.low = At(1), !.xlow = Form("true")],
   [Plain("integer") EXCEPT !.enum = <<{V("integer", 1), NullV}>>, !.nullable = "yes"],
   [Plain("integer") EXCEPT !.enum = <<{V("integer", 1)}>>, !.nullable = "yes"],
   [Plain("string") EXCEPT !.stray = TRUE], [Plain("string") EXCEPT !.composition = TRUE]}

(* A schema with nothing below it. *)
Bare(schemas) == {Grown(s, <<>>) : s \in schemas}

Object(properties, required, additional) ==
  Grown([Plain("object") EXCEPT !.required = required, !.additional = additional], properties)

Objects ==
  {Object([a |-> p], r, x) : p \in Bare(Small), r \in {{}, {"a"}, {"z"}}, x \in {"absent", "closed", "open"}}
   \cup {Object(<<>>, {}, "closed")}

Arrays ==
  {Grown([Plain("array") EXCEPT !.high = h], [step \in {MCItemStep} |-> i]) :
     i \in Bare(Small), h \in {NoBound, At(1)}}

(* The keywords of an object or an array on another type. *)
Misplaced ==
  {Grown(s, [a |-> Grown(Plain("string"), <<>>)]) : s \in {Plain("string"), Plain("array")}}
    \cup {Grown(s, [step \in {MCItemStep} |-> Grown(Plain("string"), <<>>)]) :
            s \in {Plain("integer"), Plain("object")}}
    \cup Bare({[Plain("string") EXCEPT !.additional = "open"], [Plain("null") EXCEPT !.required = {"a"}]})

Odd ==
  {[Plain("string") EXCEPT !.shape = "other"], [Plain("string") EXCEPT !.nullable = "malformed"],
   [Plain("string") EXCEPT !.low = Form("malformed")], Plain("array"), Plain("null"), Plain("boolean"),
   [Plain("string") EXCEPT !.enum = <<{}>>], [Plain("string") EXCEPT !.enum = <<{V("integer", 1)}>>],
   [Plain("integer") EXCEPT !.default = <<V("integer", 1)>>, !.enum = <<{V("integer", 2)}>>],
   [Plain("integer") EXCEPT !.default = <<V("integer", 1)>>],
   [Plain("integer") EXCEPT !.default = <<NullV>>, !.nullable = "yes"]}
   \cup {Plain(t) : t \in {"list", "absent", "other"}}

(* One property in another. *)
Around(s) == Object([b |-> s], {}, "absent")

MCSchemas ==
  Bare(Numbers \cup Small \cup Odd) \cup Objects \cup Arrays \cup Misplaced
   \cup {Around(o) : o \in Objects \cup Arrays}
   \cup {Around(Around(Grown(Plain("string"), <<>>))),
         Around(Around(Object([a |-> Grown(Plain("string"), <<>>)], {}, "absent")))}

Scalars ==
  {NullV, V("boolean", 0), V("string", 0), V("string", 2), V("integer", 0), V("integer", 1),
   V("integer", 2), V("number", 1), V("number", 2)}

Composite ==
  {ArrayV(k) : k \in BoundedSeq({NullV, V("string", 0), V("integer", 1), V("integer", 2)}, 2)}
   \cup UNION {{ObjectV(f) : f \in [d -> Scalars]} : d \in SUBSET {"a", "z"}}

MCValues == Scalars \cup Composite \cup {ObjectV([b |-> v]) : v \in Composite}
=============================================================================
