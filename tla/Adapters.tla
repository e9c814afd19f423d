------------------------------ MODULE Adapters ------------------------------
(***************************************************************************)
(* The provider adapters: canonical input schemas projected into two       *)
(* provider formats, the calls a model makes against the projection, and   *)
(* normalize_provider_arguments, which takes them back.                    *)
(*                                                                         *)
(* A schema is a tree of records: the types of a schema (one, none, or     *)
(* several when "type" is a list), its enum (<<>> or <<values>>), which    *)
(* properties are required, whether the object is open, and whether it has *)
(* a keyword outside of the audited subset.  A value is a tree of [t, v]:  *)
(* a type, and what a scalar holds.                                        *)
(***************************************************************************)
EXTENDS Trees

CONSTANTS
  Tools,              \* sequences of canonical input schemas, those of one version each
  Values,             \* the argument objects that a model may send
  MaxNestingDepth,    \* MAX_NESTING_DEPTH
  MaxTotalProperties, \* MAX_TOTAL_PROPERTIES
  ItemsLike           \* the property names that begin with "items"

NullNode == [t |-> "null", v |-> ""]
Null == [q \in {<<>>} |-> NullNode]

(* The properties that a schema declares. *)
Properties(s, p) == Below(s, p) \ {ItemStep}

(* What convert_operation and convert_schema see to: an input schema is of *)
(* an object, what is required is declared, and since an enum has values   *)
(* of the type or null, one of type null has null.                         *)
CanonicalSchema(s) ==
  /\ SchemaTree(s)
  /\ s[<<>>].types = {"object"} /\ s[<<>>].enum = <<>>
  /\ \A p \in DOMAIN s :
       /\ DOMAIN s[p] = {"types", "enum", "required", "open", "stray"}
       /\ IsFiniteSet(s[p].types)
       /\ s[p].required \subseteq Properties(s, p)
       /\ s[p].types = {"null"} => \A e \in ToSet(s[p].enum) : Null \in e

AdaptersAssumption ==
  /\ MaxNestingDepth \in Nat /\ MaxTotalProperties \in Nat
  /\ \A list \in Tools :
       Len(list) \in Nat /\ DOMAIN list = 1 .. Len(list) /\ \A i \in DOMAIN list : CanonicalSchema(list[i])
  /\ \A x \in Values :
       /\ ValueTree(x) /\ x \in [DOMAIN x -> [t : STRING, v : STRING]]
       /\ x[<<>>].t = "object"
       /\ \A q \in DOMAIN x : x[q].t = "null" => x[q] = NullNode

(* What a schema accepts (jsonschema, Draft 2020-12): at a place of the    *)
(* value, and everywhere.                                                  *)
AcceptsNode(n, x, q) ==
  /\ n.types = {} \/ x[q].t \in n.types
  /\ \A e \in ToSet(n.enum) : Part(x, q) \in e
  /\ x[q].t = "object" => n.required \subseteq Members(x, q)

AcceptsAt(s, x, q) ==
  /\ SchemaPath(q) \in DOMAIN s => AcceptsNode(s[SchemaPath(q)], x, q)
  /\ SchemaPath(q) \notin DOMAIN s /\ SchemaPath(Front(q)) \in DOMAIN s =>
       Last(q).name = ItemStep \/ s[SchemaPath(Front(q))].open

Accepts(s, x) == \A q \in DOMAIN x : AcceptsAt(s, x, q)

-----------------------------------------------------------------------------
(* The depth that assert_projectable counts in a pointer of walk_schema.   *)
(* It counts "/items", which a property name that begins with "items"      *)
(* contains as well.                                                       *)
Depth(p) == Len(p) + Cardinality({i \in DOMAIN p : p[i] \in ItemsLike})

TotalProperties(s) ==
  Cardinality({p \in DOMAIN s \ {<<>>} : Last(p) # ItemStep /\ s[Front(p)].types = {"object"}})

NodeProjectable(n, depth) ==
  /\ depth <= MaxNestingDepth
  /\ ~n.stray
  /\ Cardinality(n.types) <= 1
  /\ n.types = {"object"} => ~n.open

(* assert_projectable *)
Projectable(s) ==
  /\ \A p \in DOMAIN s : NodeProjectable(s[p], Depth(p))
  /\ TotalProperties(s) <= MaxTotalProperties

(* Mutant: only the type is widened, and the enum still refuses null. *)
AllowNull_TypeOnly(n) == [n EXCEPT !.types = @ \cup {"null"}]

(* _allow_null of a schema with a type. *)
AllowNull(n) ==
  [n EXCEPT !.types = @ \cup {"null"},
            !.enum = [i \in DOMAIN @ |-> @[i] \cup {Null}]]

(* Where _strictify goes: to an object's properties, and from those to     *)
(* their items, but not from items to items.                               *)
Entered(s, p) ==
  \A i \in DOMAIN p :
    IF p[i] = ItemStep THEN i > 1 /\ p[i - 1] # ItemStep
    ELSE s[SubSeq(p, 1, i - 1)].types = {"object"}

Optional(s, p) ==
  p # <<>> /\ Last(p) # ItemStep /\ Entered(s, p) /\ Last(p) \notin s[Front(p)].required

StrictObject(s, p) ==
  IF Entered(s, p) /\ s[p].types = {"object"}
  THEN [s[p] EXCEPT !.required = Properties(s, p), !.open = FALSE]
  ELSE s[p]

StrictNode(s, p) ==
  IF Optional(s, p) THEN AllowNull(StrictObject(s, p)) ELSE StrictObject(s, p)

Refused == [kind |-> "refused"]
Projected(s) == [kind |-> "projected", tree |-> s]

(* _strictify of the input schema of a tool. *)
Strictify(s) ==
  IF \E p \in DOMAIN s : Optional(s, p) /\ s[p].types = {} THEN Refused
  ELSE Projected([p \in DOMAIN s |-> StrictNode(s, p)])

(* project_tool of the two adapters. *)
ProjectTool(provider, s) ==
  IF ~Projectable(s) THEN Refused
  ELSE IF provider = "openai" THEN Strictify(s) ELSE Projected(s)

(* normalize_provider_arguments: a null for an optional property that is   *)
(* not nullable stands for an argument that was not provided.              *)
Placeholders(s, x) ==
  {q \in DOMAIN x : /\ Len(q) = 1 /\ x[q].t = "null"
                    /\ Last(q).name \notin s[<<>>].required
                    /\ SchemaPath(q) \in DOMAIN s
                    /\ "null" \notin s[SchemaPath(q)].types}

Normalized(s, x) == [q \in DOMAIN x \ Placeholders(s, x) |-> x[q]]

Understood(provider, s, x) == IF provider = "openai" THEN Normalized(s, x) ELSE x

-----------------------------------------------------------------------------
VARIABLES provider,     \* the provider that the version is projected for
          tools,        \* the version's tools
          payloads,     \* what was projected, with the number of the tool
          diagnostics,  \* the numbers of the tools that were refused
          next,         \* the tool that project looks at next
          call          \* what the model sent for a payload, and what came of it

vars == <<provider, tools, payloads, diagnostics, next, call>>

NoCall == [tool |-> 0]

Init ==
  /\ provider \in {"openai", "anthropic"}
  /\ tools \in Tools
  /\ payloads = {} /\ diagnostics = {}
  /\ next = 1
  /\ call = NoCall

(* project goes on with the next tool.                                     *)
AfterRefusal(n) == n + 1

Project ==
  /\ next <= Len(tools)
  /\ LET projected == ProjectTool(provider, tools[next])
     IN IF projected = Refused
        THEN /\ diagnostics' = diagnostics \cup {next}
             /\ next' = AfterRefusal(next)
             /\ UNCHANGED payloads
        ELSE /\ payloads' = payloads \cup {[tool |-> next, schema |-> projected.tree]}
             /\ next' = next + 1
             /\ UNCHANGED diagnostics
  /\ UNCHANGED <<provider, tools, call>>

(* A model that keeps to the format it was given calls a tool.             *)
Call(x) ==
  /\ next > Len(tools) /\ call = NoCall
  /\ \E p \in payloads :
       /\ Accepts(p.schema, x)
       /\ LET s == tools[p.tool]
              arguments == Understood(provider, s, x)
          IN call' = [tool |-> p.tool, sent |-> x, arguments |-> arguments,
                      valid |-> Accepts(s, arguments)]
  /\ UNCHANGED <<provider, tools, payloads, diagnostics, next>>

Next == Project \/ \E x \in Values : Call(x)

Spec == Init /\ [][Next]_vars

-----------------------------------------------------------------------------
(* Every null below the top level is one that the contract accepts there.  *)
NullsMeant(s, x) == \A q \in DOMAIN x : Len(q) > 1 /\ x[q].t = "null" => AcceptsAt(s, x, q)

(* How a model says an argument object: with a null for what is not there. *)
Absent(s, x) == {<<[name |-> n, index |-> 0]>> : n \in Properties(s, <<>>) \ Members(x, <<>>)}

Said(s, x) ==
  [q \in DOMAIN x \cup Absent(s, x) |-> IF q \in DOMAIN x THEN x[q] ELSE NullNode]

(* What the strict form requires below the top level is there. *)
FullBelow(projected, x) ==
  \A q \in DOMAIN x \ {<<>>} :
    SchemaPath(q) \in DOMAIN projected /\ x[q].t = "object" =>
      projected[SchemaPath(q)].required \subseteq Members(x, q)

(* An argument object that has a form in a strict projection: no property  *)
(* is absent below the top level, whose placeholder would not be taken     *)
(* out, and no argument whose only value is null, whose placeholder would  *)
(* be taken for that value.                                                *)
Sayable(s, projected, x) ==
  /\ FullBelow(projected, x)
  /\ \A q \in Absent(s, x) : "null" \notin s[SchemaPath(q)].types

(***************************************************************************)
(* A call that satisfies the projection satisfies the canonical schema     *)
(* once it is normalized, exactly if it has no placeholder below the top   *)
(* level, where normalize_provider_arguments does not take them out        *)
(* ("never widen what the canonical definition asserts", base.py:8).  And  *)
(* a call in the strict format is never understood as an object that has   *)
(* no form in it, accepted by the contract or not.                         *)
(***************************************************************************)
StrictReversible ==
  call # NoCall =>
    LET s == tools[call.tool]
    IN /\ call.valid <=> NullsMeant(s, call.sent)
       /\ provider = "openai" => Sayable(s, ProjectTool(provider, s).tree, call.arguments)

(***************************************************************************)
(* Every argument object that the canonical schema accepts, and in the     *)
(* strict format is Sayable, can be said: the projection accepts Said,     *)
(* which is normalized to the object.  By StrictReversible no other can,   *)
(* although the schema may accept it (AcceptedSayable).                    *)
(***************************************************************************)
EverythingSayable ==
  \A p \in payloads : \A x \in Values :
    LET s == tools[p.tool]
        y == IF provider = "openai" THEN Said(s, x) ELSE x
    IN Accepts(s, x) /\ (provider = "openai" => Sayable(s, p.schema, x)) =>
         Accepts(p.schema, y) /\ Understood(provider, s, y) = x

(***************************************************************************)
(* Every tool of a version is either projected or reported, whatever comes *)
(* of the tools before it ("the sibling tools stay usable", base.py:16).   *)
(***************************************************************************)
EveryToolAccounted ==
  next > Len(tools) => {p.tool : p \in payloads} \cup diagnostics = DOMAIN tools

(***************************************************************************)
(* The normalization is reversible at every level: a call that satisfies   *)
(* the projection is valid once it is normalized (docs/contracts.md:110).  *)
(***************************************************************************)
ReversibleEverywhere == call # NoCall => call.valid

(***************************************************************************)
(* Whatever the canonical schema accepts can be said in the projection: an *)
(* optional argument stays optional, since "The model then signals 'not    *)
(* provided' by passing null" (openai_adapter.py:16).                      *)
(***************************************************************************)
AcceptedSayable ==
  provider = "openai" =>
    \A p \in payloads : \A x \in Values :
      Accepts(tools[p.tool], x) => Sayable(tools[p.tool], p.schema, x)

(***************************************************************************)
(* Every declared property of every object in a strict projection is       *)
(* required (openai_adapter.py:62).                                        *)
(***************************************************************************)
EveryPropertyRequired ==
  provider = "openai" =>
    \A p \in payloads : \A path \in DOMAIN p.schema :
      p.schema[path].types = {"object"} => Properties(p.schema, path) = p.schema[path].required
=============================================================================
