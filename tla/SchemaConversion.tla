-------------------------- MODULE SchemaConversion --------------------------
(***************************************************************************)
(* convert_schema (toollayer_openapi/schema_conversion.py) against what    *)
(* the two dialects mean.                                                  *)
(*                                                                         *)
(* A source schema is a tree of the keywords of its schemas.  An optional  *)
(* keyword is <<>> or <<value>>; a bound is [form, at], where form is      *)
(* "absent", "number", "true" or "false" (the 3.0 form of an exclusive     *)
(* bound) or "malformed".  minLength, minItems and minimum are one field,  *)
(* low, and likewise high, since only one of each applies to a type.       *)
(* stray tells whether there is a keyword that no allowlist has.  A value  *)
(* is a tree of [t, n]: a type, and a size or number.                      *)
(***************************************************************************)
EXTENDS Trees

CONSTANTS
  Schemas,           \* the schemas to convert
  Values,            \* the JSON values that are tried on them
  MaxSchemaDepth     \* MAX_SCHEMA_DEPTH

VARIABLES schema, converted

vars == <<schema, converted>>

Numeric == {"integer", "number"}
AllTypes == {"string", "boolean", "object", "array", "null"} \cup Numeric

(* convert_schema has not looked at the schema yet, or has refused it. *)
Pending == [kind |-> "pending"]
Refused == [kind |-> "refused"]

SchemaAssumption ==
  /\ MaxSchemaDepth \in Nat
  /\ \A s \in Schemas :
       /\ SchemaTree(s)
       /\ \A p \in DOMAIN s : \A b \in {s[p].low, s[p].high, s[p].xlow, s[p].xhigh} : b.at \in Int
  /\ \A v \in Values : ValueTree(v) /\ \A q \in DOMAIN v : v[q].n \in Int

(* _matches_type of the type of a value.  A number that is no integer has  *)
(* type "number".                                                          *)
MatchesType(t, type) == t = type \/ (type = "number" /\ t = "integer")

(* _apply_enum_and_default *)
EnumFault(s) ==
  \/ \E e \in ToSet(s.enum) :
       e = {} \/ \E v \in e : v[<<>>].t # "null" /\ ~MatchesType(v[<<>>].t, s.type)
  \/ \E d \in ToSet(s.default) :
       ~MatchesType(d[<<>>].t, s.type) \/ \E e \in ToSet(s.enum) : d \notin e

NoBound == [form |-> "absent", at |-> 0]

(* Exclusive bounds are known on every type, and apply to numbers. *)
LowX(s) == IF s.type \in Numeric THEN s.xlow ELSE NoBound
HighX(s) == IF s.type \in Numeric THEN s.xhigh ELSE NoBound

(* _apply_exclusive_bounds and the bounds in _copy_supported. *)
BoundFault(inclusive, exclusive) ==
  \/ inclusive.form \notin {"absent", "number"}
  \/ exclusive.form = "malformed"
  \/ exclusive.form = "true" /\ inclusive.form = "absent"

(* The bound that stays inclusive. *)
Inclusive(inclusive, exclusive) ==
  IF inclusive.form = "number" /\ exclusive.form # "true" THEN <<inclusive.at>> ELSE <<>>

(* Mutant: the boolean form is passed over. *)
Exclusive_NumbersOnly(inclusive, exclusive) ==
  IF exclusive.form = "number" THEN <<exclusive.at>> ELSE <<>>

(* The bound that is exclusive. *)
Exclusive(inclusive, exclusive) ==
  CASE exclusive.form = "true" -> <<inclusive.at>>
    [] exclusive.form = "number" -> <<exclusive.at>>
    [] OTHER -> <<>>

(* The checks of convert_schema before it looks at the type, and those of  *)
(* _copy_supported.                                                        *)
SchemaFault(s, depth) ==
  \/ s.shape # "object"
  \/ depth > MaxSchemaDepth
  \/ s.composition
  \/ s.type \notin AllTypes
  \/ s.nullable = "malformed"
  \/ EnumFault(s)
  \/ BoundFault(s.low, LowX(s)) \/ BoundFault(s.high, HighX(s))

(* The checks of _convert_object. *)
ObjectFault(s, properties) ==
  \/ properties = {}
  \/ s.additional = "open"
  \/ ~(s.required \subseteq properties)

(* _reject_unknown_keywords: those of an object or an array on another     *)
(* type are unknown too.                                                   *)
UnknownKeyword(s, below) ==
  \/ s.stray
  \/ s.type # "array" /\ ItemStep \in below
  \/ s.type # "object" /\ (below \ {ItemStep} # {} \/ s.required # {} \/ s.additional # "absent")

Fault(tree, path) ==
  LET s == tree[path]
      below == Below(tree, path)
  IN  \/ SchemaFault(s, Len(path))
      \/ s.type = "array" /\ ItemStep \notin below
      \/ s.type = "object" /\ ObjectFault(s, below)
      \/ UnknownKeyword(s, below)

(* _apply_nullable *)
Types(s) == {s.type} \cup (IF s.nullable = "yes" THEN {"null"} ELSE {})

(* What convert_schema makes of one schema of the tree. *)
Converted(s) ==
  [types |-> Types(s), enum |-> s.enum,
   low |-> Inclusive(s.low, LowX(s)), high |-> Inclusive(s.high, HighX(s)),
   xlow |-> Exclusive(s.low, LowX(s)), xhigh |-> Exclusive(s.high, HighX(s)),
   required |-> s.required, closed |-> s.type = "object"]

(* convert_schema, which goes down into every schema of the tree unless it *)
(* raises an error on the way.                                             *)
ConvertSchema(tree) ==
  IF \E p \in DOMAIN tree : Fault(tree, p) THEN Refused
  ELSE [kind |-> "converted", tree |-> [p \in DOMAIN tree |-> Converted(tree[p])]]

Init ==
  /\ schema \in Schemas
  /\ converted = Pending

Convert ==
  /\ converted = Pending
  /\ converted' = ConvertSchema(schema)
  /\ UNCHANGED schema

Next == Convert

Spec == Init /\ [][Next]_vars

-----------------------------------------------------------------------------

Sized(t) == t \notin {"null", "object", "boolean"}

(* What Draft 2020-12 makes of a converted schema: of one in the tree, and *)
(* of all.  It is only a closed object that refuses what it does not name. *)
Admits(c, v, q) ==
  /\ v[q].t \in c.types \/ (v[q].t = "integer" /\ "number" \in c.types)
  /\ \A e \in ToSet(c.enum) : Part(v, q) \in e
  /\ Sized(v[q].t) =>
       /\ \A b \in ToSet(c.low) : v[q].n >= b
       /\ \A b \in ToSet(c.high) : v[q].n <= b
       /\ \A b \in ToSet(c.xlow) : v[q].n > b
       /\ \A b \in ToSet(c.xhigh) : v[q].n < b
  /\ v[q].t = "object" => c.required \subseteq Members(v, q)

Valid(tree, v) ==
  \A q \in DOMAIN v :
    /\ SchemaPath(q) \in DOMAIN tree => Admits(tree[SchemaPath(q)], v, q)
    /\ SchemaPath(q) \notin DOMAIN tree /\ SchemaPath(Front(q)) \in DOMAIN tree =>
         ~tree[SchemaPath(Front(q))].closed

Above(value, bound, exclusive) ==
  /\ bound.form = "number" => IF exclusive.form = "true" THEN value > bound.at ELSE value >= bound.at
  /\ exclusive.form = "number" => value > exclusive.at

Negated(bound) == [form |-> bound.form, at |-> -bound.at]

(* What the source says: OpenAPI 3.0 and 3.1, which differ in the form of  *)
(* an exclusive bound.  An object is open unless it says otherwise.        *)
Says(s, v, q) ==
  /\ IF v[q].t = "null" THEN s.type = "null" \/ s.nullable = "yes" ELSE MatchesType(v[q].t, s.type)
  /\ \A e \in ToSet(s.enum) : Part(v, q) \in e
  /\ Sized(v[q].t) =>
       /\ Above(v[q].n, s.low, LowX(s))
       /\ Above(-v[q].n, Negated(s.high), Negated(HighX(s)))
  /\ v[q].t = "object" => s.required \subseteq Members(v, q)

Meant(tree, v) ==
  \A q \in DOMAIN v : SchemaPath(q) \in DOMAIN tree => Says(tree[SchemaPath(q)], v, q)

(* The source names every part of a value. *)
Declared(tree, v) == \A q \in DOMAIN v : SchemaPath(q) \in DOMAIN tree

(* A converted schema admits exactly what the source admits, less the      *)
(* properties that the source does not name, at every level: neither       *)
(* nullable, nor either form of an exclusive bound, nor an enum changes    *)
(* what a model may send.                                                  *)
ConversionFaithful ==
  converted.kind = "converted" =>
    \A v \in Values : Valid(converted.tree, v) <=> Meant(schema, v) /\ Declared(schema, v)

(* No keyword is dropped that constrains a value: where one is not         *)
(* understood, anywhere in the schema, the schema as a whole is refused.   *)
NothingSilentlyDropped ==
  converted.kind = "converted" =>
    \A p \in DOMAIN schema :
      ~schema[p].stray /\ ~schema[p].composition /\ schema[p].additional # "open"
=============================================================================
