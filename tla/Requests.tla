------------------------------ MODULE Requests ------------------------------
(***************************************************************************)
(* From an operation of the document to a request on the wire: the         *)
(* conversion (Operations), then validate_arguments and prepare_request    *)
(* (toollayer_policy/arguments.py) on a call of the tool.  The arguments   *)
(* come from a model, so they are any object at all.                       *)
(***************************************************************************)
EXTENDS Operations

CONSTANTS
  SourceOperations,   \* the operations of the document
  Candidates(_)       \* what is tried as the arguments of a tool

(* What a parsed document holds where a resolved operation is; the name of *)
(* the body's argument has nothing that a pointer escapes.                 *)
IsSchema(schema) ==
  /\ schema.kind \in {"ok", "absent", "unsupported", "invalid"}
  /\ schema.fields \in Seq(ToSet(schema.fields))
  /\ \A i \in DOMAIN schema.fields : schema.fields[i].name \in Seq(STRING)

IsOperation(op) ==
  /\ op.path \in Seq(STRING)
  /\ \A list \in {op.itemParameters, op.parameters} :
       /\ list \in Seq(ToSet(list))
       /\ \A i \in DOMAIN list : list[i].name \in Seq(STRING) /\ IsSchema(list[i].schema)
  /\ IsSchema(op.body.schema)

RequestsAssumption ==
  /\ BodyArgument \in Seq(STRING) /\ {"/", "~"} \cap ToSet(BodyArgument) = {}
  /\ \A op \in SourceOperations : IsOperation(op)

(* Arguments are an object of JSON values; what is in those of their       *)
(* values that are objects are JSON values too.                            *)
IsValue(value) ==
  /\ value.t \in {"null", "boolean", "integer", "number", "string", "array", "object"}
  /\ value.s \in Seq(STRING)

IsArguments(arguments) ==
  /\ arguments.t = "object"
  /\ \A n \in DOMAIN arguments.e :
       /\ IsValue(arguments.e[n])
       /\ \A m \in DOMAIN arguments.e[n].e : IsValue(arguments.e[n].e[m])

VARIABLES
  source,    \* the operation
  tool,      \* what convert_operation returned
  args,      \* the arguments of the call
  request    \* what prepare_request returned

vars == <<source, tool, args, request>>

Pending == [kind |-> "pending"]

(* jsonschema: a value against what convert_schema emits. *)
Accepts(schema, value) ==
  \/ value.t = "null" /\ schema.nullable
  \/ /\ value.t = schema.type
     /\ schema.type = "object" =>
          /\ DOMAIN value.e \subseteq {f.name : f \in ToSet(schema.fields)}
          /\ \A i \in DOMAIN schema.fields :
               LET field == schema.fields[i]
               IN  IF field.name \in DOMAIN value.e
                   THEN \/ value.e[field.name].t = field.type
                        \/ value.e[field.name].t = "null" /\ field.nullable
                   ELSE ~field.required

(* validate_arguments: the closed input schema. *)
ValidateArguments(converted, arguments) ==
  /\ DOMAIN arguments.e \subseteq DOMAIN converted.properties
  /\ converted.required \subseteq DOMAIN arguments.e
  /\ \A n \in DOMAIN arguments.e : Accepts(converted.properties[n], arguments.e[n])

(* Mutant: braces are left alone. *)
Quote_KeepsBraces(text) == text

(* urllib's quote with safe="": one escape per character that is not       *)
(* unreserved.                                                             *)
Quote(text) ==
  [i \in DOMAIN text |->
     CASE text[i] = "/" -> "%2F" [] text[i] = "{" -> "%7B" [] text[i] = "}" -> "%7D"
       [] OTHER -> text[i]]

IsScalar(value) == value.t \in {"string", "integer", "number", "boolean"}

(* One binding of prepare_request's loop.  A header's value may not hold a *)
(* control character (_header_value); converted tools have no header.      *)
Bind(built, binding, arguments) ==
  LET value == ReadPointer(arguments, binding.pointer)
      placeholder == <<"{">> \o binding.name \o <<"}">>
  IN  IF built.kind # "request" \/ value.t \in {"absent", "null"} THEN built
      ELSE IF binding.target = "path" /\ ~Occurs(placeholder, built.path)
      THEN Failed("no_placeholder")
      ELSE IF binding.target # "body" /\ ~IsScalar(value) THEN Failed("not_scalar")
      ELSE CASE binding.target = "path" ->
                  [built EXCEPT !.path = Replace(@, placeholder, Quote(value.s))]
             [] binding.target = "query" ->
                  [built EXCEPT !.query = Append(@, <<binding.name, value.s>>)]
             [] binding.target = "header" ->
                  IF ToSet(value.s) \cap {"CR", "LF", "NUL"} = {}
                  THEN [built EXCEPT !.headers = Append(@, <<binding.name, value.s>>)]
                  ELSE Failed("control_character")
             [] binding.target = "body" ->
                  [kind |-> built.kind, path |-> built.path, query |-> built.query,
                   headers |-> built.headers,
                   body |-> WriteTokens(built.body, Tokens(binding.name), value),
                   hasBody |-> TRUE]

(* prepare_request, after so many bindings. *)
Built(converted, arguments) ==
  LET built[i \in 0 .. Len(converted.bindings)] ==
        IF i = 0
        THEN [kind |-> "request", path |-> converted.path, query |-> <<>>, headers |-> <<>>,
              body |-> Obj(<<>>), hasBody |-> FALSE]
        ELSE Bind(built[i - 1], converted.bindings[i], arguments)
  IN  built

PrepareRequest(converted, arguments) ==
  LET built == Built(converted, arguments)[Len(converted.bindings)]
  IN  IF built.kind = "request" /\ ToSet(built.path) \cap {"{", "}"} # {}
      THEN Failed("unfilled") ELSE built

Init ==
  /\ source \in SourceOperations
  /\ tool = Pending
  /\ args = Absent
  /\ request = Pending

Convert ==
  /\ tool = Pending
  /\ tool' = ConvertOperation(source)
  /\ UNCHANGED <<source, args, request>>

(* A call is validated before anything is built.  The number of bytes of   *)
(* the arguments is not part of a value, so it is left open whether they   *)
(* are too large (_MAX_ARGUMENT_BYTES).                                    *)
Validate(arguments, large) ==
  /\ IsArguments(arguments)
  /\ args' = arguments
  /\ request' = IF ~large /\ ValidateArguments(tool, arguments) THEN Pending ELSE Failed("refused")
  /\ UNCHANGED <<source, tool>>

Prepare ==
  /\ args # Absent
  /\ request = Pending
  /\ request' = PrepareRequest(tool, args)
  /\ UNCHANGED <<source, tool, args>>

Next ==
  \/ Convert
  \/ /\ tool.kind = "tool" /\ args = Absent
     /\ \E arguments \in Candidates(tool), large \in BOOLEAN : Validate(arguments, large)
  \/ Prepare

Spec == Init /\ [][Next]_vars

-----------------------------------------------------------------------------

(* What a tool promises about the arguments: the leaves of its schema. *)
Leaves ==
  {<<n>> : n \in DOMAIN tool.properties \ {BodyArgument}}
    \cup UNION {IF tool.properties[n].type = "object" /\ source.body.shape # "absent"
                THEN {<<n, f.name>> : f \in ToSet(tool.properties[n].fields)}
                ELSE {<<n>>} : n \in DOMAIN tool.properties \cap {BodyArgument}}

(* Every argument that the schema declares is read by exactly one binding, *)
(* and every binding reads such an argument, also where a name holds the   *)
(* characters that a pointer escapes (converter.py, its invariants).       *)
EveryArgumentBoundOnce ==
  tool.kind = "tool" =>
    LET read == [i \in DOMAIN tool.bindings |-> Tokens(tool.bindings[i].pointer)]
    IN  /\ ToSet(read) = Leaves
        /\ \A i, j \in DOMAIN read : read[i] = read[j] => i = j

(* The template with the placeholders of some names filled in at once. *)
FillStep(state, c, names) ==
  LET value == IF state.current \in names THEN Quote(args.e[state.current].s)
               ELSE <<"{">> \o state.current \o <<"}">>
  IN  CASE c = "{" -> [depth |-> 1, current |-> <<>>, out |-> state.out]
        [] c = "}" -> [depth |-> 0, current |-> state.current, out |-> state.out \o value]
        [] OTHER -> IF state.depth = 1
                    THEN [depth |-> 1, current |-> Append(state.current, c), out |-> state.out]
                    ELSE [depth |-> 0, current |-> state.current, out |-> Append(state.out, c)]

Fill(path, names) ==
  LET state[i \in 0 .. Len(path)] ==
        IF i = 0 THEN [depth |-> 0, current |-> <<>>, out |-> <<>>]
        ELSE FillStep(state[i - 1], path[i], names)
  IN  state[Len(path)]

Filled(path, names) == Fill(path, names).out

(* The supplied arguments of one location. *)
Supplied(location) ==
  {p \in ToSet(CollectParameters(source)) :
     /\ p.in = location
     /\ p.name \in DOMAIN args.e
     /\ args.e[p.name].t # "null"}

SuppliedFields ==
  LET body == ReadPointer(args, <<"/">> \o BodyArgument)
  IN  IF source.body.shape = "absent" \/ body.t # "object" THEN {}
      ELSE {n \in DOMAIN body.e : body.e[n].t # "null"}

(* Each supplied argument is in its own place in the request, with its own *)
(* value, and nothing else is: a value that looks like a placeholder or    *)
(* holds a slash changes no other part (prepare_request).                  *)
RequestFaithful ==
  request.kind = "request" =>
    /\ request.path = Filled(source.path, DOMAIN args.e)
    /\ ToSet(request.query) = {<<p.name, args.e[p.name].s>> : p \in Supplied("query")}
    /\ \A i, j \in DOMAIN request.query : request.query[i][1] = request.query[j][1] => i = j
    /\ request.headers = <<>>
    /\ DOMAIN request.body.e = SuppliedFields
    /\ \A n \in SuppliedFields : request.body.e[n] = args.e[BodyArgument].e[n]
    /\ request.hasBody <=> SuppliedFields # {}

(* The parameter that the operation declares is the one that counts: where *)
(* a path item declares the same name and location, it is overridden       *)
(* (_collect_parameters).                                                  *)
OperationOverrides ==
  tool.kind = "tool" =>
    \A p \in ToSet(source.parameters) :
      /\ tool.properties[p.name] = p.schema
      /\ p.name \in tool.required <=> p.required = "yes"

(* A prepared request has no placeholder left to fill, and the only        *)
(* arguments that conversion and validation both admit and prepare_request *)
(* refuses are not scalars or are a null in the path.                      *)
RefusalExplained ==
  request.kind \notin {"pending", "refused", "request"} =>
    \/ /\ request.kind = "not_scalar"
       /\ \E p \in Supplied("path") \cup Supplied("query") : ~IsScalar(args.e[p.name])
    \/ /\ request.kind = "unfilled"
       /\ \E n \in tool.required : args.e[n].t = "null"

(* An operation that cannot be converted is refused with an explicit       *)
(* failure of its own.                                                     *)
FailureIsExplicit == tool.kind # "crash"

(* A tool that was converted can be called with whatever its own schema    *)
(* admits.                                                                 *)
ValidCallsArePrepared == request.kind \in {"pending", "refused", "request"}

(* A null that the schema admits in the body is sent. *)
NullReachesUpstream ==
  request.kind = "request" =>
    LET body == ReadPointer(args, <<"/">> \o BodyArgument)
    IN  source.body.shape # "absent" /\ body.t = "object" =>
          DOMAIN request.body.e = DOMAIN body.e
=============================================================================
