------------------------------ MODULE Analysis ------------------------------
(***************************************************************************)
(* analyze_document (toollayer_openapi/analyzer.py): every operation of a  *)
(* document becomes a tool or a diagnostic.                                *)
(*                                                                         *)
(* A document has its path items in the order of the file.  A path is a    *)
(* number, its sort key.  An item is told by what it resolves to (root),   *)
(* "broken" if a reference outside of its operations does not resolve.  An *)
(* operation is told by whether its references resolve (ref), by what      *)
(* convert_operation makes of it (outcome, see Operations) and by the name *)
(* that its tool would have.  A base URL is "unparsable" if urlsplit       *)
(* raises on it.                                                           *)
(***************************************************************************)
EXTENDS Integers, Sequences, SequencesExt

CONSTANTS
  Documents,       \* the documents to analyse
  Methods,         \* SUPPORTED_METHODS, in order
  MaxOperations    \* limits.max_operations

Operation(op) ==
  /\ op.shape \in {"absent", "object", "other"}
  /\ op.ref \in {"ok", "broken"}

PathItem(item) ==
  /\ item.path \in Nat \ {0}
  /\ item.kind \in {"item", "invalid_path", "invalid_path_item"}
  /\ item.root \in {"object", "other", "broken"}
  /\ item.others \in BOOLEAN
  /\ \A i \in DOMAIN Methods : Operation(item.ops[Methods[i]])

(* Paths are the keys of an object, and 0 is none of them. *)
Document(d) ==
  /\ \A i \in DOMAIN d.paths : PathItem(d.paths[i])
  /\ \A i, j \in DOMAIN d.paths : d.paths[i].path = d.paths[j].path => i = j

AnalysisAssumption ==
  /\ MaxOperations \in Nat \ {0}
  /\ Methods \in Seq(STRING)
  /\ \A i, j \in DOMAIN Methods : Methods[i] = Methods[j] => i = j
  /\ \A d \in Documents : Document(d)

VARIABLES
  document,       \* the document
  pending,        \* the path items that are left
  next,           \* the place in Methods of the method that is next in the current item
  operations,     \* the analysed operations
  diagnostics,    \* document_diagnostics
  baseUrl,        \* the base URL: "override", "server" or "none"
  status          \* "start", "running", "done", "failed" (a ConversionError), "crashed"

vars == <<document, pending, next, operations, diagnostics, baseUrl, status>>

Diagnostic(code, path) == [code |-> code, path |-> path]

(* _resolve_base_url: the override, or else the first server. *)
ResolveBaseUrl(d) ==
  CASE d.override = "usable" -> <<"override", <<>>>>
    [] d.override = "unusable" -> <<"none", <<Diagnostic("invalid_base_url", 0)>>>>
    [] d.override = "absent" /\ d.server = "variables" ->
         <<"none", <<Diagnostic("server_variables_unsupported", 0)>>>>
    [] d.override = "absent" /\ d.server \in {"absent", "unusable"} ->
         <<"none", <<Diagnostic("base_url_missing", 0)>>>>
    [] OTHER -> <<"server", <<>>>>

Init ==
  /\ document \in Documents
  /\ pending = {}
  /\ next = 1
  /\ operations = <<>>
  /\ diagnostics = <<>>
  /\ baseUrl = "none"
  /\ status = "start"

(* urlsplit raises a ValueError, which nothing here catches. *)
Unparsable(d) ==
  d.override = "unparsable" \/ (d.override = "absent" /\ d.server = "unparsable")

(* The first server is no object. *)
Malformed(d) == d.override = "absent" /\ d.server = "malformed"

(* Up to the loop. *)
Begin ==
  /\ status = "start"
  /\ pending' = ToSet(document.paths)
  /\ \/ /\ Unparsable(document)
        /\ status' = "crashed"
        /\ UNCHANGED <<baseUrl, diagnostics>>
     \/ /\ Malformed(document)
        /\ status' = "failed"
        /\ UNCHANGED <<baseUrl, diagnostics>>
     \/ /\ ~Unparsable(document) /\ ~Malformed(document)
        /\ status' = "running"
        /\ baseUrl' = ResolveBaseUrl(document)[1]
        /\ diagnostics' = ResolveBaseUrl(document)[2]
  /\ UNCHANGED <<document, next, operations>>

(* Mutant: the loop follows the file. *)
Item_FileOrder ==
  document.paths[CHOOSE i \in DOMAIN document.paths :
                   /\ document.paths[i] \in pending
                   /\ \A j \in 1 .. i - 1 : document.paths[j] \notin pending]

(* sorted(paths): the loop is at the first one that is left. *)
Item == CHOOSE i \in pending : \A j \in pending : i.path <= j.path

Looping == status = "running" /\ pending # {}

Resolves(item) ==
  item.root # "broken" /\ \A i \in DOMAIN Methods : item.ops[Methods[i]].ref = "ok"

(* A path key that is no path, or an item that is no object. *)
SkipItem ==
  /\ Looping
  /\ Item.kind # "item"
  /\ diagnostics' = Append(diagnostics, Diagnostic(Item.kind, Item.path))
  /\ pending' = pending \ {Item}
  /\ UNCHANGED <<document, next, operations, baseUrl, status>>

(* The resolver works on the whole item.  Where a reference was followed,  *)
(* the error names the component, not the path (path 0).                   *)
UnresolvedItem ==
  /\ Looping
  /\ Item.kind = "item"
  /\ ~Resolves(Item)
  /\ \E where \in {0, Item.path} :
       diagnostics' = Append(diagnostics, Diagnostic("unresolved", where))
  /\ pending' = pending \ {Item}
  /\ UNCHANGED <<document, next, operations, baseUrl, status>>

(* A reference may lead to something that has no methods to get. *)
OddItem ==
  /\ Looping
  /\ Item.kind = "item" /\ Resolves(Item) /\ Item.root # "object"
  /\ status' = "crashed"
  /\ UNCHANGED <<document, pending, next, operations, diagnostics, baseUrl>>

(* The loop over the methods of a resolved item. *)
LoopingMethods ==
  /\ Looping
  /\ Item.kind = "item" /\ Resolves(Item) /\ Item.root = "object"
  /\ next <= Len(Methods)

Method == Methods[next]

Found == Item.ops[Method]

SkipMethod ==
  /\ LoopingMethods
  /\ Found.shape = "absent"
  /\ next' = next + 1
  /\ UNCHANGED <<document, pending, operations, diagnostics, baseUrl, status>>

(* The limit is met: the methods that are left are not looked at. *)
StopAtLimit ==
  /\ LoopingMethods
  /\ Found.shape # "absent"
  /\ Len(operations) >= MaxOperations
  /\ diagnostics' = Append(diagnostics, Diagnostic("operation_limit_exceeded", Item.path))
  /\ next' = Len(Methods) + 1
  /\ UNCHANGED <<document, pending, operations, baseUrl, status>>

(* seen_tool_names *)
Claimed(name) == \E i \in DOMAIN operations : operations[i].tool /\ operations[i].name = name

Result(tool, codes) ==
  [path |-> Item.path, method |-> Method, tool |-> tool, codes |-> codes, name |-> Found.name]

(* What _analyze_operation returns. *)
Analyzed ==
  CASE Found.shape # "object" -> Result(FALSE, {"invalid_operation"})
    [] Found.shape = "object" /\ Found.outcome # "tool" -> Result(FALSE, {Found.outcome})
    [] Found.shape = "object" /\ Found.outcome = "tool" /\ Claimed(Found.name) ->
         Result(FALSE, {"tool_name_collision"})
    [] OTHER ->
         Result(TRUE, {"description_generated", "operation_deprecated"} \cap Found.warnings)

(* An exception that is no ConversionError ends it all. *)
AnalyzeOperation ==
  /\ LoopingMethods
  /\ Found.shape # "absent"
  /\ Len(operations) < MaxOperations
  /\ IF Found.shape = "object" /\ Found.outcome = "crash"
     THEN status' = "crashed" /\ UNCHANGED <<operations, next>>
     ELSE /\ operations' = Append(operations, Analyzed)
          /\ next' = next + 1
          /\ UNCHANGED status
  /\ UNCHANGED <<document, pending, diagnostics, baseUrl>>

(* The methods of HTTP that are not supported. *)
EndItem ==
  /\ Looping
  /\ Item.kind = "item" /\ Resolves(Item) /\ Item.root = "object"
  /\ next > Len(Methods)
  /\ diagnostics' =
       IF Item.others THEN Append(diagnostics, Diagnostic("unsupported_method", Item.path))
       ELSE diagnostics
  /\ pending' = pending \ {Item}
  /\ next' = 1
  /\ UNCHANGED <<document, operations, baseUrl, status>>

Finish ==
  /\ status = "running"
  /\ pending = {}
  /\ status' = "done"
  /\ diagnostics' =
       IF operations = <<>>
       THEN Append(diagnostics, Diagnostic("no_convertible_operations", 0))
       ELSE diagnostics
  /\ UNCHANGED <<document, pending, next, operations, baseUrl>>

Next ==
  \/ Begin
  \/ SkipItem \/ UnresolvedItem \/ OddItem \/ EndItem
  \/ SkipMethod \/ StopAtLimit \/ AnalyzeOperation
  \/ Finish

Spec == Init /\ [][Next]_vars

-----------------------------------------------------------------------------

Items == ToSet(document.paths)

Place(m) == CHOOSE i \in DOMAIN Methods : Methods[i] = m

(* One result is before another, by path and then by method. *)
Before(s, r) == s.path < r.path \/ (s.path = r.path /\ Place(s.method) < Place(r.method))

ResultOf(item, m) == {r \in ToSet(operations) : r.path = item.path /\ r.method = m}

(* No two tools have one name: a later operation that would have the name  *)
(* of a tool is reported and not renamed (_analyze_operation).             *)
NamesUnique ==
  \A i, j \in DOMAIN operations :
    operations[i].tool /\ operations[j].tool /\ operations[i].name = operations[j].name => i = j

(* What is analysed does not depend on the order of the file: an operation *)
(* that converts is without its tool only if one before it, by path and    *)
(* then by method, has the name, and only a tool claims a name.            *)
FirstClaims ==
  \A item \in Items : item.kind = "item" =>
    \A m \in ToSet(Methods) : \A r \in ResultOf(item, m) :
      item.ops[m].shape = "object" /\ item.ops[m].outcome = "tool" =>
        (~r.tool <=> \E s \in ToSet(operations) :
                        s.tool /\ s.name = r.name /\ Before(s, r))

(* An exception that is not caught: the base URL does not parse, an item   *)
(* leads to something that is no object, or a tool has a description that  *)
(* the contract models refuse.                                             *)
Fatal ==
  \/ Unparsable(document)
  \/ \E item \in Items :
       /\ item.kind = "item" /\ Resolves(item)
       /\ \/ item.root # "object"
          \/ \E m \in ToSet(Methods) :
               item.ops[m].shape = "object" /\ item.ops[m].outcome = "crash"

(* What becomes of the operations of a document.  Where all references of  *)
(* a path resolve, each of its operations has a result of its own, a tool  *)
(* or the reasons why there is none, unless the limit on operations is met *)
(* before it; then as many results as the limit allows were given, and the *)
(* path is reported.  Where one does not resolve, all operations of the    *)
(* path go without a result, the healthy ones too, and the reference is    *)
(* reported (analyzer.py:133).  Nothing is analysed at all only for one of *)
(* the exceptions that Fatal lists.  The docstring of the module and the   *)
(* one of converter.py promise more: see DocumentSurvives and              *)
(* SiblingsConvert below.                                                  *)
EveryOperationAccounted ==
  /\ status = "crashed" => Fatal
  /\ status = "done" =>
       \A item \in Items : item.kind = "item" =>
         \A m \in ToSet(Methods) :
           IF Resolves(item)
           THEN /\ item.root = "object"
                /\ \/ item.ops[m].shape = "absent"
                   \/ \E r \in ResultOf(item, m) : r.tool \/ r.codes # {}
                   \/ /\ Len(operations) >= MaxOperations
                      /\ Diagnostic("operation_limit_exceeded", item.path) \in ToSet(diagnostics)
           ELSE /\ ResultOf(item, m) = {}
                /\ \E d \in ToSet(diagnostics) : d.code = "unresolved" /\ d.path \in {0, item.path}

(* A document without a base URL says why: a connector that cannot be      *)
(* published carries the diagnostic that explains it.                      *)
BaseUrlExplained ==
  status \in {"running", "done"} =>
    (baseUrl = "none" <=>
       \E d \in ToSet(diagnostics) :
         d.code \in {"invalid_base_url", "base_url_missing", "server_variables_unsupported"})

(* It is not the case that an operation converts whatever its siblings     *)
(* hold (converter.py:27).                                                 *)
SiblingsConvert ==
  status = "done" =>
    \A item \in Items : item.kind = "item" =>
      \A m \in ToSet(Methods) :
        item.ops[m].shape = "object" /\ item.ops[m].ref = "ok" =>
          \/ ResultOf(item, m) # {}
          \/ Diagnostic("operation_limit_exceeded", item.path) \in ToSet(diagnostics)

(* Nor that no awkward operation fails the whole document (analyzer.py:5): *)
(* of an operation whose tool the contract models refuse, and of an item   *)
(* that leads to no object, nothing but an exception is left.              *)
DocumentSurvives == status # "crashed"
=============================================================================
