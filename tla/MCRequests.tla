----------------------------- MODULE MCRequests -----------------------------
(* Requests for TLC: operations with up to three parameters and a body     *)
(* whose field names hold what a pointer escapes, and one operation for    *)
(* each thing that the converter refuses.                                  *)
EXTENDS Pointers

A == <<"a">>
B == <<"b">>
MCBodyArgument == <<"body">>

Text == [kind |-> "ok", type |-> "string", nullable |-> FALSE, fields |-> <<>>]
Maybe == [Text EXCEPT !.nullable = TRUE]
Array == [Text EXCEPT !.type = "array"]
Field(name, type, nullable, required) ==
  [name |-> name, type |-> type, nullable |-> nullable, required |-> required]
Body1 == [Text EXCEPT !.type = "object",
            !.fields = <<Field(<<"~", "1">>, "string", TRUE, FALSE),
                         Field(<<"x", "/">>, "string", FALSE, FALSE)>>]
Body2 == [Body1 EXCEPT !.fields = <<Field(A, "array", FALSE, TRUE)>>]

Parameter(name, in, required, schema) ==
  [shape |-> "object", name |-> name, in |-> in, required |-> required, style |-> "absent",
   explode |-> "absent", reserved |-> "absent", content |-> FALSE, schema |-> schema,
   description |-> "absent"]
PathA == Parameter(A, "path", "yes", Text)
QueryB == Parameter(B, "query", "no", Text)

Pool ==
  {PathA, Parameter(A, "path", "yes", Maybe), Parameter(B, "path", "yes", Text), QueryB,
   Parameter(B, "query", "yes", Array), Parameter(MCBodyArgument, "query", "no", Text),
   Parameter(A, "query", "no", Text)}

NoBody == [shape |-> "absent", media |-> "json", schema |-> Text, required |-> "no"]
BodyOf(schema, required) ==
  [shape |-> "object", media |-> "json", schema |-> schema, required |-> required]

Operation ==
  [method |-> "post", servers |-> FALSE, callbacks |-> FALSE, security |-> FALSE,
   itemParameters |-> <<>>, parameters |-> <<PathA>>, path |-> <<"/", "{", "a", "}">>,
   body |-> NoBody, operationId |-> "absent", tags |-> "absent", deprecated |-> "absent"]

Rich ==
  {[Operation EXCEPT !.itemParameters = i, !.parameters = p, !.path = t, !.body = b] :
     i \in {<<>>, <<PathA>>, <<QueryB>>},
     p \in SeqOf(Pool, 2),
     t \in {<<"/", "x">>, <<"/", "{", "a", "}">>, <<"/", "{", "a", "}", "/", "{", "b", "}">>},
     b \in {NoBody, BodyOf(Body1, "no"), BodyOf(Body2, "yes")}}

OneParameter ==
  {[PathA EXCEPT !.shape = "malformed"], [PathA EXCEPT !.name = <<>>],
   [PathA EXCEPT !.required = "malformed"], [PathA EXCEPT !.required = "no"],
   [PathA EXCEPT !.style = "label"], [PathA EXCEPT !.style = "simple"],
   [PathA EXCEPT !.explode = "malformed"], [PathA EXCEPT !.explode = "yes"],
   [PathA EXCEPT !.reserved = "malformed"], [PathA EXCEPT !.reserved = "yes"],
   [PathA EXCEPT !.content = TRUE], [PathA EXCEPT !.description = "malformed"]}
    \cup {[PathA EXCEPT !.in = i] : i \in {"absent", "header", "cookie", "other"}}
    \cup {[PathA EXCEPT !.schema.kind = k] : k \in {"absent", "unsupported", "invalid"}}

OneBody ==
  {[BodyOf(Body1, "yes") EXCEPT !.shape = "malformed"], BodyOf(Body1, "malformed"),
   BodyOf(Text, "no"), BodyOf([Body1 EXCEPT !.nullable = TRUE], "no")}
    \cup {[BodyOf(Body1, "yes") EXCEPT !.media = m] : m \in {"malformed", "other"}}
    \cup {[BodyOf(Body1, "no") EXCEPT !.schema.kind = k] : k \in {"absent", "unsupported"}}

Refused ==
  {[Operation EXCEPT !.servers = TRUE], [Operation EXCEPT !.callbacks = TRUE],
   [Operation EXCEPT !.security = TRUE], [Operation EXCEPT !.method = "head"],
   [Operation EXCEPT !.method = "get"], [Operation EXCEPT !.method = "delete"],
   [Operation EXCEPT !.tags = "malformed"], [Operation EXCEPT !.deprecated = "malformed"],
   [Operation EXCEPT !.operationId = "malformed"]}
    \cup {[Operation EXCEPT !.parameters = <<p>>] : p \in OneParameter}
    \cup {[Operation EXCEPT !.body = b] : b \in OneBody}
    \cup {[Operation EXCEPT !.path = t] :
            t \in {<<"/", "{", "a">>, <<"/", "a", "}">>, <<"/", "{", "{", "a", "}", "}">>,
                   <<"/", "{", "a", "}", "{", "a", "}">>}}

(* Operations that are legal OpenAPI and that no refusal is written for. *)
Unforeseen ==
  {[Operation EXCEPT !.operationId = "nameless"],
   [Operation EXCEPT !.path = <<"/", "{", "a", "}", "#">>],
   [Operation EXCEPT !.parameters = <<PathA, Parameter(<<"x", "/">>, "query", "no", Text)>>],
   [Operation EXCEPT !.parameters = <<PathA, Parameter(<<"x", "LF">>, "query", "no", Text)>>]}

MCSourceOperations == Rich \cup Refused \cup Unforeseen

(* Arguments: any value for some of the declared names and an unknown one. *)
ValuesOf(schema) ==
  IF schema.type = "object"
  THEN {Null} \cup UNION {{Obj(f) : f \in [d -> {Str(<<"v">>), Null, List}]} :
                            d \in SUBSET {f.name : f \in ToSet(schema.fields)}}
  ELSE {Null, List, Str(<<"x", "/">>), Str(<<"{", "b", "}">>)}

MCCandidates(t) ==
  LET Extend(n, objects) ==
        objects \cup {SetKey(o, n, v) : o \in objects, v \in ValuesOf(t.properties[n])}
  IN  FoldSet(Extend, {Obj(<<>>)}, DOMAIN t.properties) \cup {Obj([n \in {<<"z">>} |-> Null])}
=============================================================================
