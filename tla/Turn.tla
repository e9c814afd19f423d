-------------------------------- MODULE Turn --------------------------------
(***************************************************************************)
(* Requests to the runtime: Orchestrator.handle (POST /v1/chat) and        *)
(* Orchestrator.execute_tool (POST /v1/tools/{name}/execute), with the     *)
(* authorization of toollayer_policy/authorization.py and the pre-flight   *)
(* checks of ToolExecutor (runtime_service/orchestrator.py, executor.py).  *)
(*                                                                         *)
(* While one request runs, others refresh the store: the held revision may *)
(* move on between any two steps, and only moves on (module SnapshotStore).*)
(* What the provider answers and what a client sends is arbitrary; JSON    *)
(* Schema validation is told by whether the arguments conform.             *)
(***************************************************************************)
EXTENDS Integers, Sequences

CONSTANTS
  Requests,   \* requests, each of which runs once
  Catalog,    \* per revision, its tools: [mode, roles, confirm, method, reachable]
  Roles,      \* role keys
  NoTool      \* what the provider answers when nothing matches

Revisions == DOMAIN Catalog
Names == UNION {DOMAIN Catalog[n] : n \in Revisions}

(* A verified snapshot holds policies that ToolAccessPolicy accepted.      *)
(* method, reachable: the destination policy admits the tool's method, and *)
(* its scheme, host and port.                                              *)
ASSUME CatalogAssumption ==
  /\ Revisions = 1..Len(Catalog)
  /\ NoTool \notin Names
  /\ \A n \in Revisions : \A name \in DOMAIN Catalog[n] :
       LET tool == Catalog[n][name]
       IN /\ tool.mode \in {"public", "restricted"}
          /\ tool.roles \subseteq Roles
          /\ tool.mode = "restricted" <=> tool.roles # {}
          /\ tool.confirm \in BOOLEAN
          /\ tool.method \in BOOLEAN
          /\ tool.reachable \in BOOLEAN

VARIABLES
  held,   \* the revision that the store holds, 0 for none
  turn,   \* per request, its locals
  sent    \* the calls that reached the upstream, in order

vars == <<held, turn, sent>>

Codes ==
  {"none", "validation_failed", "snapshot_unavailable", "no_tool_selected", "unknown_tool",
   "argument_validation_failed", "role_not_permitted", "confirmation_required",
   "method_not_allowed", "destination_not_allowed", "redirect_not_allowed",
   "upstream_timeout", "upstream_unavailable", "response_too_large", "internal_error"}

Turns ==
  [pc : {"new", "discover", "select", "resolve", "arguments", "authorize", "confirm", "prepare",
         "send", "waiting", "answered", "refused"},
   kind : {"chat", "execute"}, roles : SUBSET Roles, confirmed : BOOLEAN, dry : BOOLEAN,
   snapshot : Revisions \cup {0}, visible : SUBSET Names, tool : Names \cup {NoTool},
   conform : BOOLEAN, code : Codes, result : {"none", "succeeded", "upstream_error", "dry_run"}]

Call == [request : Requests, revision : Revisions, tool : Names]

Fresh ==
  [pc |-> "new", kind |-> "chat", roles |-> {}, confirmed |-> FALSE, dry |-> FALSE,
   snapshot |-> 0, visible |-> {}, tool |-> NoTool, conform |-> FALSE, code |-> "none",
   result |-> "none"]

Init ==
  /\ held = 0
  /\ turn = [r \in Requests |-> Fresh]
  /\ sent = <<>>

-----------------------------------------------------------------------------
(* authorization.py *)

(* parse_audience_policy does not raise. *)
Readable(tool) == tool.mode = "restricted" <=> tool.roles # {}

(* authorize_stored_policy: an unreadable policy denies, and so does a     *)
(* caller without roles.                                                   *)
Authorized(tool, roles) ==
  /\ Readable(tool)
  /\ tool.mode = "public" \/ roles \cap tool.roles # {}

-----------------------------------------------------------------------------
(* The tool of a turn, in the snapshot that the turn started with. *)
Tool(r) == Catalog[turn[r].snapshot][turn[r].tool]

(* The next step of a turn, or a refusal. *)
Proceed(r, ok, next, code) ==
  turn' = [turn EXCEPT ![r].pc = IF ok THEN next ELSE "refused",
                       ![r].code = IF ok THEN @ ELSE code]

(* Another request, or an operator, refreshes the store. *)
Refresh(n) ==
  /\ n > held
  /\ held' = n
  /\ UNCHANGED <<turn, sent>>

(* Text that is empty or too long is refused before anything is read. *)
RefuseText(r) ==
  /\ turn[r].pc = "new"
  /\ Proceed(r, FALSE, "discover", "validation_failed")
  /\ UNCHANGED <<held, sent>>

(* ensure_fresh hands out what is held.  (It may refresh first: Refresh.)  *)
Acquire(r, kind, roles, confirmed, dry, name) ==
  /\ turn[r].pc = "new"
  /\ turn' = [turn EXCEPT ![r] =
       [Fresh EXCEPT !.kind = kind, !.roles = roles, !.confirmed = confirmed,
          !.dry = (dry /\ kind = "chat"), !.snapshot = held,
          !.tool = IF kind = "execute" THEN name ELSE NoTool,
          !.pc = IF held = 0 THEN "refused"
                 ELSE IF kind = "chat" THEN "discover" ELSE "resolve",
          !.code = IF held = 0 THEN "snapshot_unavailable" ELSE "none"]]
  /\ UNCHANGED <<held, sent>>

(* discover_in *)
Visible(r) ==
  LET tools == Catalog[turn[r].snapshot]
  IN {name \in DOMAIN tools : Authorized(tools[name], turn[r].roles)}

(* Mutant: discovery looks at what the store holds by now. *)
Discover_Rereads(r) ==
  LET tools == Catalog[held]
      visible == {name \in DOMAIN tools : Authorized(tools[name], turn[r].roles)}
  IN /\ turn[r].pc = "discover"
     /\ turn' = [turn EXCEPT ![r].visible = visible,
          ![r].pc = IF visible = {} THEN "refused" ELSE "select",
          ![r].code = IF visible = {} THEN "no_tool_selected" ELSE @]
     /\ UNCHANGED <<held, sent>>

Discover(r) ==
  /\ turn[r].pc = "discover"
  /\ turn' = [turn EXCEPT ![r].visible = Visible(r),
       ![r].pc = IF Visible(r) = {} THEN "refused" ELSE "select",
       ![r].code = IF Visible(r) = {} THEN "no_tool_selected" ELSE @]
  /\ UNCHANGED <<held, sent>>

(* The provider is asked to choose among the visible tools; nothing makes  *)
(* it answer one of them.                                                  *)
Select(r, name) ==
  /\ turn[r].pc = "select"
  /\ turn' = [turn EXCEPT ![r].tool = name,
       ![r].pc = IF name = NoTool THEN "refused" ELSE "resolve",
       ![r].code = IF name = NoTool THEN "no_tool_selected" ELSE @]
  /\ UNCHANGED <<held, sent>>

(* LoadedSnapshot.resolve *)
Resolve(r) ==
  /\ turn[r].pc = "resolve"
  /\ Proceed(r, turn[r].tool \in DOMAIN Catalog[turn[r].snapshot], "arguments", "unknown_tool")
  /\ UNCHANGED <<held, sent>>

(* generate_arguments, or the client's own, and validate_arguments.        *)
(* Arguments that miss a required one do not conform.                      *)
Arguments(r, conform) ==
  /\ turn[r].pc = "arguments"
  /\ turn' = [turn EXCEPT ![r].conform = conform,
       ![r].pc = IF conform THEN "authorize" ELSE "refused",
       ![r].code = IF conform THEN @ ELSE "argument_validation_failed"]
  /\ UNCHANGED <<held, sent>>

(* Mutant: a chat relies on discovery having filtered. *)
Authorize_TrustsDiscovery(r) ==
  /\ turn[r].pc = "authorize"
  /\ Proceed(r, turn[r].kind = "chat" \/ Authorized(Tool(r), turn[r].roles), "confirm",
             "role_not_permitted")
  /\ UNCHANGED <<held, sent>>

(* _authorize *)
Authorize(r) ==
  /\ turn[r].pc = "authorize"
  /\ Proceed(r, Authorized(Tool(r), turn[r].roles), "confirm", "role_not_permitted")
  /\ UNCHANGED <<held, sent>>

Confirm(r) ==
  /\ turn[r].pc = "confirm"
  /\ Proceed(r, Tool(r).confirm => turn[r].confirmed, "prepare", "confirmation_required")
  /\ UNCHANGED <<held, sent>>

(* Why ToolExecutor.prepare refuses, in the order of its checks.  built:   *)
(* the arguments make a request (no placeholder is left, a path or query   *)
(* value is a scalar).  resolves: the addresses of the host are admitted   *)
(* just now.                                                               *)
Refusal(tool, built, resolves) ==
  CASE ~tool.method -> "method_not_allowed"
    [] tool.method /\ ~built -> "argument_validation_failed"
    [] tool.method /\ built /\ ~(tool.reachable /\ resolves) -> "destination_not_allowed"
    [] OTHER -> "none"

Prepare(r, built, resolves) ==
  LET refusal == Refusal(Tool(r), built, resolves)
  IN /\ turn[r].pc = "prepare"
     /\ Proceed(r, refusal = "none", "send", refusal)
     /\ UNCHANGED <<held, sent>>

(* Mutant: a dry run goes through the executor. *)
EndDryRun_Executes(r) ==
  /\ turn[r].pc = "send"
  /\ turn[r].dry
  /\ sent' = Append(sent, [request |-> r, revision |-> turn[r].snapshot, tool |-> turn[r].tool])
  /\ turn' = [turn EXCEPT ![r].pc = "answered", ![r].result = "dry_run"]
  /\ UNCHANGED held

(* A dry run ends with the request prepared. *)
EndDryRun(r) ==
  /\ turn[r].pc = "send"
  /\ turn[r].dry
  /\ turn' = [turn EXCEPT ![r].pc = "answered", ![r].result = "dry_run"]
  /\ UNCHANGED <<held, sent>>

(* HttpxTransport.send, when the request does not leave: the connection is *)
(* not opened in time or at all, or httpx refuses the URL with an error    *)
(* that is none of its HTTPError (longer than 65,536 characters).          *)
FailConnect(r, code) ==
  /\ turn[r].pc = "send"
  /\ ~turn[r].dry
  /\ Proceed(r, FALSE, "waiting", code)
  /\ UNCHANGED <<held, sent>>

(* HttpxTransport.send: the connection is open and the request goes out. *)
Send(r) ==
  /\ turn[r].pc = "send"
  /\ ~turn[r].dry
  /\ sent' = Append(sent, [request |-> r, revision |-> turn[r].snapshot, tool |-> turn[r].tool])
  /\ turn' = [turn EXCEPT ![r].pc = "waiting"]
  /\ UNCHANGED held

(* Mutant: a call that failed is sent again. *)
FailCall_Retries(r, code) ==
  /\ turn[r].pc = "waiting"
  /\ turn' = [turn EXCEPT ![r].pc = "send"]
  /\ Len(sent) < 3
  /\ UNCHANGED <<held, sent>>

(* The call is out and no result comes of it: the answer does not come in  *)
(* time, the connection breaks, the body is declared or found too large    *)
(* (module Transport), or is nested so deeply that _decode raises.         *)
FailCall(r, code) ==
  /\ turn[r].pc = "waiting"
  /\ Proceed(r, FALSE, "answered", code)
  /\ UNCHANGED <<held, sent>>

(* An answer came back.  A redirect is refused; anything else is formatted *)
(* and the turn ends: nothing in it is read as an instruction.             *)
Receive(r, status) ==
  /\ turn[r].pc = "waiting"
  /\ turn' = [turn EXCEPT
       ![r].pc = IF status = "3xx" THEN "refused" ELSE "answered",
       ![r].code = IF status = "3xx" THEN "redirect_not_allowed" ELSE @,
       ![r].result = CASE status = "2xx" -> "succeeded"
                       [] status = "3xx" -> @
                       [] OTHER -> "upstream_error"]
  /\ UNCHANGED <<held, sent>>

Steps(r) ==
  \/ RefuseText(r)
  \/ Discover(r)
  \/ \E name \in Names \cup {NoTool} : Select(r, name)
  \/ Resolve(r)
  \/ \E conform \in BOOLEAN : Arguments(r, conform)
  \/ Authorize(r)
  \/ Confirm(r)
  \/ \E built, resolves \in BOOLEAN : Prepare(r, built, resolves)
  \/ EndDryRun(r)
  \/ \E code \in {"upstream_timeout", "upstream_unavailable", "internal_error"} :
       FailConnect(r, code)
  \/ Send(r)
  \/ \E code \in {"upstream_timeout", "upstream_unavailable", "response_too_large",
                 "internal_error"} : FailCall(r, code)
  \/ \E status \in {"2xx", "3xx", "4xx"} : Receive(r, status)

Next ==
  \/ \E n \in Revisions : Refresh(n)
  \/ \E r \in Requests, kind \in {"chat", "execute"}, roles \in SUBSET Roles,
        confirmed, dry \in BOOLEAN, name \in Names :
       Acquire(r, kind, roles, confirmed, dry, name)
  \/ \E r \in Requests : Steps(r)

Spec == Init /\ [][Next]_vars

-----------------------------------------------------------------------------
(* Every variable holds a value of its kind. *)
TypeOK ==
  /\ held \in Revisions \cup {0}
  /\ turn \in [Requests -> Turns]
  /\ sent \in Seq(Call)

(* The request of a turn may use a tool, by the tool's own policy and by   *)
(* the destination policy.                                                 *)
Admits(tool, t) ==
  /\ tool.mode = "restricted" => t.roles \cap tool.roles # {}
  /\ tool.confirm => t.confirmed
  /\ tool.method
  /\ tool.reachable

Governed(call) ==
  /\ call.revision = turn[call.request].snapshot
  /\ call.tool \in DOMAIN Catalog[call.revision]
  /\ Admits(Catalog[call.revision][call.tool], turn[call.request])
  /\ turn[call.request].conform
  /\ ~turn[call.request].dry

(* Whatever the provider or the client names, and whatever refresh lands   *)
(* in between, a call that reaches the upstream passed every check in one  *)
(* and the same revision: the tool exists in it, admits the caller, was    *)
(* confirmed if it has to be, got arguments that conform, and goes where   *)
(* the destination policy lets it.                                         *)
CallsGoverned == \A i \in DOMAIN sent : Governed(sent[i])

(* "at most one governed tool call" (orchestrator.py) per request, also    *)
(* when the call fails after it has left.                                  *)
AtMostOneCall ==
  \A i, j \in DOMAIN sent : sent[i].request = sent[j].request => i = j

Called(r) == \E i \in DOMAIN sent : sent[i].request = r

(* What a turn says of itself that only a call that went out explains. *)
Told(r) ==
  \/ turn[r].pc = "waiting"
  \/ turn[r].result \in {"succeeded", "upstream_error"}
  \/ turn[r].code \in {"redirect_not_allowed", "response_too_large"}

(* A turn that is not known to have made its call may have made it. *)
Admitted(r) ==
  \/ Told(r)
  \/ turn[r].code \in {"upstream_timeout", "upstream_unavailable", "internal_error"}

(* What the caller is told agrees with what was done.  A result, a refused *)
(* redirect and too large an answer are told only of a call that reached   *)
(* the upstream; a dry run, and every refusal before the connection, only  *)
(* where none did.  A timeout, an unavailable upstream and an internal     *)
(* error leave it open: the code answers the same whether the connection   *)
(* failed or the call had an effect (executor.py:158-167).                 *)
AnswersHonest ==
  \A r \in Requests : (Told(r) => Called(r)) /\ (Called(r) => Admitted(r))

(* It is not the case that an upstream which "could not be reached"        *)
(* (executor.py:166) has not been called: a connection that breaks after   *)
(* the request left is reported with the same words.                       *)
UnreachedMeansUncalled ==
  \A r \in Requests : turn[r].code = "upstream_unavailable" => ~Called(r)

Agrees(r) ==
  turn[r].tool \in turn[r].visible =>
    turn[r].code \notin {"role_not_permitted", "unknown_tool"}

(* Discovery and execution never disagree: a request whose tool was among  *)
(* the ones that it was shown is not refused for its role, nor because the *)
(* tool is unknown.                                                        *)
DiscoveryAgrees == \A r \in Requests : Agrees(r)

(* What a turn has established by the step it is at. *)
Stage(r) ==
  /\ \A name \in turn[r].visible : name \in Visible(r)
  /\ turn[r].pc \notin {"answered", "refused"} => turn[r].code = "none" /\ turn[r].result = "none"
  /\ turn[r].pc \notin {"new", "answered", "refused"} => turn[r].snapshot \in Revisions
  /\ turn[r].pc \in {"arguments", "authorize", "confirm", "prepare", "send", "waiting"} =>
       turn[r].tool \in DOMAIN Catalog[turn[r].snapshot]
  /\ turn[r].pc \in {"authorize", "confirm", "prepare", "send", "waiting"} => turn[r].conform
  /\ turn[r].pc \in {"confirm", "prepare", "send", "waiting"} => Authorized(Tool(r), turn[r].roles)
  /\ turn[r].pc \in {"prepare", "send", "waiting"} => (Tool(r).confirm => turn[r].confirmed)
  /\ turn[r].pc \in {"send", "waiting"} => Tool(r).method /\ Tool(r).reachable

Stages == \A r \in Requests : Stage(r)

(* The inductive invariant behind the properties above. *)
IInv ==
  /\ TypeOK
  /\ CallsGoverned
  /\ AtMostOneCall
  /\ AnswersHonest
  /\ DiscoveryAgrees
  /\ Stages
=============================================================================
