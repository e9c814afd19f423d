----------------------------- MODULE Operations -----------------------------
(***************************************************************************)
(* convert_operation (toollayer_openapi/converter.py): one resolved        *)
(* operation becomes a tool or a refusal, and the constructors of the      *)
(* contract models (toollayer_contracts/models.py) that it ends in.        *)
(*                                                                         *)
(* A schema is what convert_schema makes of it: kind "ok" with its type,   *)
(* whether it is nullable and an object's fields in order, or the kind of  *)
(* error that it raises.  A flag of the document is "yes", "no", "absent", *)
(* or "malformed" when its JSON type is wrong.                             *)
(***************************************************************************)
EXTENDS Pointers

CONSTANT
  BodyArgument   \* BODY_ARGUMENT

SupportedMethods == {"get", "post", "put", "patch", "delete"}

Failed(kind) == [kind |-> kind]

(* The first check of a list that fails, in the order the code makes them. *)
FirstFault(checks) ==
  LET failing == {i \in DOMAIN checks : checks[i][1]}
  IN  IF failing = {} THEN "none" ELSE checks[CHOOSE i \in failing : \A j \in failing : i <= j][2]

(* The first part of a list with a fault of its own. *)
FirstFaulty(faults) == FirstFault([i \in DOMAIN faults |-> <<faults[i] # "none", faults[i]>>])

(* _METHOD_POLICY *)
EffectClass(method) ==
  CASE method = "get" -> "read" [] method = "delete" -> "destructive" [] OTHER -> "write"

RequiresConfirmation(method) == method = "delete"

(* _reject_unsupported_operation_features *)
OperationFault(op) ==
  FirstFault(<<<<op.servers, "unsupported">>, <<op.callbacks, "unsupported">>,
               <<op.security, "unsupported">>>>)

(* ----------------------------- Parameters ------------------------------ *)

(* _reject_unsupported_serialization *)
SerializationFault(entry) ==
  LET style == IF entry.in = "path" THEN "simple" ELSE "form"
      explode == IF entry.in = "query" THEN "yes" ELSE "no"
  IN  FirstFault(<<<<entry.style \notin {"absent", style}, "unsupported">>,
                   <<entry.explode = "malformed", "invalid">>,
                   <<entry.explode \notin {"absent", explode}, "unsupported">>,
                   <<entry.reserved = "malformed", "invalid">>,
                   <<entry.reserved = "yes", "unsupported">>>>)

(* _parse_parameter *)
ParameterFault(entry) ==
  FirstFault(<<<<entry.shape = "malformed", "invalid">>,
               <<entry.name = <<>>, "invalid">>,
               <<entry.in = "absent", "invalid">>,
               <<entry.in \in {"header", "cookie"}, "unsupported">>,
               <<entry.in \notin {"path", "query"}, "invalid">>,
               <<entry.required = "malformed", "invalid">>,
               <<entry.in = "path" /\ entry.required # "yes", "invalid">>,
               <<SerializationFault(entry) # "none", SerializationFault(entry)>>,
               <<entry.content, "unsupported">>,
               <<entry.schema.kind = "absent", "invalid">>,
               <<entry.description = "malformed", "invalid">>>>)

Key(entry) == <<entry.name, entry.in>>

(* Neither of the two may declare a parameter twice. *)
CollectFault(op) ==
  LET Fault(source) ==
        FirstFaulty([i \in DOMAIN source |->
          FirstFault(<<<<ParameterFault(source[i]) # "none", ParameterFault(source[i])>>,
                       <<\E j \in 1 .. i - 1 : Key(source[j]) = Key(source[i]), "invalid">>>>)])
  IN  FirstFaulty(<<Fault(op.itemParameters), Fault(op.parameters)>>)

(* merged of _collect_parameters, after one entry more.  A dict keeps the  *)
(* place of a key that is set again.                                       *)
AddParameter(merged, entry) ==
  LET earlier == {i \in DOMAIN merged : Key(merged[i]) = Key(entry)}
  IN  IF earlier = {} THEN Append(merged, entry)
      ELSE [i \in DOMAIN merged |-> IF i \in earlier THEN entry ELSE merged[i]]

Merged(entries) ==
  LET merged[i \in 0 .. Len(entries)] ==
        IF i = 0 THEN <<>> ELSE AddParameter(merged[i - 1], entries[i])
  IN  merged[Len(entries)]

(* The path item's, then the operation's. *)
CollectParameters(op) == Merged(op.itemParameters \o op.parameters)

(* The scan of _check_path_placeholders. *)
ScanStep(scan, c) ==
  LET Scan(depth, current, found) ==
        [fault |-> FALSE, depth |-> depth, current |-> current, found |-> found]
      Fault == [fault |-> TRUE, depth |-> scan.depth, current |-> scan.current, found |-> scan.found]
  IN  IF scan.fault THEN scan
      ELSE CASE c = "{" -> IF scan.depth = 1 THEN Fault ELSE Scan(1, <<>>, scan.found)
             [] c = "}" -> IF scan.depth = 0 THEN Fault
                           ELSE Scan(0, scan.current, Append(scan.found, scan.current))
             [] OTHER -> IF scan.depth = 1 THEN Scan(1, Append(scan.current, c), scan.found)
                         ELSE scan

ScanPath(path) ==
  LET scan[i \in 0 .. Len(path)] ==
        IF i = 0 THEN [fault |-> FALSE, depth |-> 0, current |-> <<>>, found |-> <<>>]
        ELSE ScanStep(scan[i - 1], path[i])
  IN  scan[Len(path)]

(* _check_path_placeholders *)
PlaceholderFault(path, parameters) ==
  LET scan == ScanPath(path)
      declared == {p.name : p \in {q \in ToSet(parameters) : q.in = "path"}}
  IN  IF \/ scan.fault
         \/ scan.depth = 1
         \/ \E i, j \in DOMAIN scan.found : i # j /\ scan.found[i] = scan.found[j]
         \/ ToSet(scan.found) # declared
      THEN "invalid" ELSE "none"

(* ArgumentBinding._body_targets_use_pointers: no line break in a name.    *)
NameAdmitted(name) == "LF" \notin ToSet(name)

(* The checks of convert_operation's loop over the parameters. *)
SchemaFault(parameters) ==
  FirstFaulty([i \in DOMAIN parameters |->
    FirstFault(<<<<\E j \in 1 .. i - 1 : parameters[j].name = parameters[i].name, "unsupported">>,
                 <<parameters[i].schema.kind # "ok", parameters[i].schema.kind>>,
                 <<~NameAdmitted(parameters[i].name), "crash">>>>)])

(* -------------------------- The request body --------------------------- *)

(* _convert_request_body *)
BodyFault(body, names) ==
  IF body.shape = "absent" THEN "none"
  ELSE FirstFault(<<<<body.shape = "malformed", "invalid">>,
                    <<body.media = "malformed", "invalid">>,
                    <<body.media = "other", "unsupported">>,
                    <<body.schema.kind = "absent", "invalid">>,
                    <<BodyArgument \in names, "unsupported">>,
                    <<body.schema.kind # "ok", body.schema.kind>>,
                    <<body.schema.type # "object" \/ body.schema.nullable, "unsupported">>,
                    <<body.required = "malformed", "invalid">>>>)

ParameterBinding(entry) ==
  [pointer |-> <<"/">> \o Escape(entry.name), target |-> entry.in, name |-> entry.name]

(* One binding per field, not one for the object. *)
BodyBindings(body) ==
  IF body.shape = "absent" THEN <<>>
  ELSE [i \in DOMAIN body.schema.fields |->
         LET escaped == Escape(body.schema.fields[i].name)
         IN  [pointer |-> <<"/">> \o BodyArgument \o <<"/">> \o escaped,
              target |-> "body", name |-> <<"/">> \o escaped]]

(* ----------------------- The contract's validators --------------------- *)

(* ToolOperation: the pattern of a path template. *)
TemplateAdmitted(path) ==
  /\ path # <<>> /\ path[1] = "/"
  /\ Len(path) > 1 => path[2] # "/"
  /\ \A i \in DOMAIN path : path[i] \notin {"?", "#", " "}

(* ToolOperation._bindings_are_consistent *)
BindingsConsistent(bindings, media) ==
  /\ \A i, j \in DOMAIN bindings :
       bindings[i].target = bindings[j].target /\ bindings[i].name = bindings[j].name => i = j
  /\ media <=> \E i \in DOMAIN bindings : bindings[i].target = "body"

(* ToolDefinition._bindings_reference_declared_arguments, which compares   *)
(* the first token as it is written.                                       *)
BindingsDeclared(bindings, names) ==
  \A i \in DOMAIN bindings : Split(Tail(bindings[i].pointer), "/")[1] \in names

(* The end of convert_operation, in its order: the name, the operation, *)
(* the provenance (_tags, _deprecated), the definition.  What the          *)
(* constructors and normalize_tool_name raise is a ValueError, but not a   *)
(* ConversionError: kind "crash".                                          *)
ConstructionFault(op, bindings, names) ==
  FirstFault(<<<<op.operationId = "malformed", "invalid">>,
               <<op.operationId = "nameless", "crash">>,
               <<~TemplateAdmitted(op.path), "crash">>,
               <<~BindingsConsistent(bindings, op.body.shape # "absent"), "crash">>,
               <<op.tags = "malformed", "invalid">>,
               <<op.deprecated = "malformed", "invalid">>,
               <<~BindingsDeclared(bindings, names), "crash">>>>)

(* ------------------------- convert_operation --------------------------- *)

(* The input schema: what each argument may be, and which are required. *)
Properties(parameters, body) ==
  [n \in {p.name : p \in ToSet(parameters)}
           \cup (IF body.shape = "absent" THEN {} ELSE {BodyArgument}) |->
     IF \E i \in DOMAIN parameters : parameters[i].name = n
     THEN parameters[CHOOSE i \in DOMAIN parameters : parameters[i].name = n].schema
     ELSE body.schema]

Required(parameters, body) ==
  {p.name : p \in {q \in ToSet(parameters) : q.required = "yes"}}
    \cup (IF body.shape # "absent" /\ body.required = "yes" THEN {BodyArgument} ELSE {})

(* convert_operation *)
ConvertOperation(op) ==
  LET parameters == CollectParameters(op)
      names == {p.name : p \in ToSet(parameters)}
      properties == Properties(parameters, op.body)
      bindings == [i \in DOMAIN parameters |-> ParameterBinding(parameters[i])]
                    \o BodyBindings(op.body)
      fault ==
        FirstFaulty(<<IF op.method \in SupportedMethods THEN "none" ELSE "unsupported",
                      OperationFault(op),
                      CollectFault(op),
                      PlaceholderFault(op.path, parameters),
                      SchemaFault(parameters),
                      BodyFault(op.body, names),
                      ConstructionFault(op, bindings, DOMAIN properties)>>)
  IN  IF fault # "none" THEN Failed(fault)
      ELSE [kind |-> "tool", path |-> op.path, properties |-> properties,
            required |-> Required(parameters, op.body), bindings |-> bindings,
            effect |-> EffectClass(op.method), confirm |-> RequiresConfirmation(op.method)]
=============================================================================
