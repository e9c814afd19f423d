----------------------------- MODULE TurnProofs -----------------------------
(***************************************************************************)
(* Proofs about Turn, for every catalog, any number of requests and any    *)
(* refreshes in between.                                                   *)
(***************************************************************************)
EXTENDS Turn, TLAPS

(* The request, its caller and its snapshot are the same. *)
SameInputs(t, u) ==
  /\ t.kind = u.kind
  /\ t.roles = u.roles
  /\ t.confirmed = u.confirmed
  /\ t.dry = u.dry
  /\ t.snapshot = u.snapshot

(* No turn but that of r changes. *)
OnlyTurn(r) ==
  /\ turn' \in [Requests -> Turns]
  /\ \A q \in Requests : q # r => turn'[q] = turn[q]

(* The codes that only sending, or trying to, ends with. *)
AfterSend ==
  {"redirect_not_allowed", "response_too_large", "upstream_timeout", "upstream_unavailable",
   "internal_error"}

(* A request that has not begun is of its type. *)
LEMMA FreshType == Fresh \in Turns
<1>1. {} \in SUBSET Roles /\ {} \in SUBSET Names
  OBVIOUS
<1>. QED  BY <1>1 DEF Fresh, Turns, Codes

(* Before any request nothing was sent. *)
LEMMA InitIInv == Init => IInv
<1> SUFFICES ASSUME Init PROVE IInv
  OBVIOUS
<1>1. TypeOK
  BY FreshType DEF Init, TypeOK
<1>2. CallsGoverned /\ AtMostOneCall
  BY DEF Init, CallsGoverned, AtMostOneCall
<1>3. \A r \in Requests : turn[r] = Fresh
  BY DEF Init
<1>4. AnswersHonest
  <2>1. \A r \in Requests : ~Called(r)
    <3>1. DOMAIN sent = {}
      BY DEF Init
    <3>. QED  BY <3>1 DEF Called
  <2>2. \A r \in Requests : ~Admitted(r)
    <3>1. Fresh.pc = "new" /\ Fresh.result = "none" /\ Fresh.code = "none"
      BY DEF Fresh
    <3>. QED  BY <1>3, <3>1 DEF Admitted, Told
  <2>. QED  BY <2>1, <2>2 DEF AnswersHonest, Admitted
<1>5. DiscoveryAgrees /\ Stages
  BY <1>3 DEF DiscoveryAgrees, Agrees, Stages, Stage, Fresh
<1>. QED  BY <1>1, <1>2, <1>4, <1>5 DEF IInv

(* A step of one turn that sends nothing keeps the invariant if it keeps   *)
(* the parts that are about this turn, and leaves what its call was judged *)
(* by as it was once the call is out.                                      *)
LEMMA Frame ==
  ASSUME IInv, NEW r \in Requests, OnlyTurn(r), UNCHANGED <<held, sent>>,
         Stage(r)', Agrees(r)', Admitted(r) => Admitted(r)', Told(r)' => Told(r),
         Admitted(r) => SameInputs(turn'[r], turn[r]) /\ turn'[r].conform = turn[r].conform
  PROVE  IInv'
<1>1. TypeOK'
  BY DEF IInv, TypeOK, OnlyTurn
<1>2. CallsGoverned'
  <2> SUFFICES ASSUME NEW i \in DOMAIN sent PROVE Governed(sent[i])'
    BY DEF CallsGoverned
  <2>1. Governed(sent[i]) /\ sent[i].request \in Requests
    <3>1. Governed(sent[i])
      BY DEF IInv, CallsGoverned
    <3>2. sent[i] \in Call
      BY DEF IInv, TypeOK
    <3>. QED  BY <3>1, <3>2 DEF Call
  <2>2. sent' = sent
    OBVIOUS
  <2>3. CASE sent[i].request = r
    <3>1. Admitted(r)
      BY <2>1, <2>3 DEF IInv, AnswersHonest, Called
    <3>. QED  BY <2>1, <2>2, <2>3, <3>1 DEF Governed, Admits, SameInputs
  <2>4. CASE sent[i].request # r
    BY <2>1, <2>2, <2>4 DEF Governed, OnlyTurn
  <2>. QED  BY <2>3, <2>4
<1>3. AtMostOneCall'
  BY DEF IInv, AtMostOneCall
<1>4. AnswersHonest'
  <2> SUFFICES ASSUME NEW q \in Requests
               PROVE  (Told(q)' => Called(q)') /\ (Called(q)' => Admitted(q)')
    BY DEF AnswersHonest
  <2>1. Called(q)' <=> Called(q)
    BY DEF Called
  <2>2. (Told(q) => Called(q)) /\ (Called(q) => Admitted(q))
    BY DEF IInv, AnswersHonest
  <2>3. CASE q = r
    BY <2>1, <2>2, <2>3
  <2>4. CASE q # r
    BY <2>1, <2>2, <2>4 DEF Admitted, Told, OnlyTurn
  <2>. QED  BY <2>3, <2>4
<1>5. DiscoveryAgrees'
  BY DEF IInv, DiscoveryAgrees, Agrees, OnlyTurn
<1>6. Stages'
  <2> SUFFICES ASSUME NEW q \in Requests PROVE Stage(q)'
    BY DEF Stages
  <2>1. CASE q = r
    BY <2>1
  <2>2. CASE q # r
    <3>1. turn'[q] = turn[q] /\ Stage(q)
      BY <2>2 DEF IInv, Stages, OnlyTurn
    <3>. QED  BY <3>1 DEF Stage, Visible, Tool
  <2>. QED  BY <2>1, <2>2
<1>. QED  BY <1>1, <1>2, <1>3, <1>4, <1>5, <1>6 DEF IInv

(* What the common tail of the checks does to a turn. *)
LEMMA Proceeds ==
  ASSUME TypeOK, NEW r \in Requests, NEW ok \in BOOLEAN,
         NEW next \in {"discover", "arguments", "confirm", "prepare", "send", "answered"},
         NEW code \in Codes,
         Proceed(r, ok, next, code)
  PROVE  /\ OnlyTurn(r)
         /\ SameInputs(turn'[r], turn[r])
         /\ turn'[r].visible = turn[r].visible
         /\ turn'[r].tool = turn[r].tool
         /\ turn'[r].conform = turn[r].conform
         /\ turn'[r].result = turn[r].result
         /\ ok => turn'[r].pc = next /\ turn'[r].code = turn[r].code
         /\ ~ok => turn'[r].pc = "refused" /\ turn'[r].code = code
<1>1. turn[r] \in Turns
  BY DEF TypeOK
<1> DEFINE x == [turn[r] EXCEPT !.pc = IF ok THEN next ELSE "refused",
                                !.code = IF ok THEN @ ELSE code]
<1>2. turn' = [turn EXCEPT ![r] = x]
  BY <1>1 DEF Proceed, TypeOK, Turns
<1>3. x \in Turns
  BY <1>1 DEF Turns
<1>4. /\ SameInputs(x, turn[r]) /\ x.visible = turn[r].visible /\ x.tool = turn[r].tool
      /\ x.conform = turn[r].conform /\ x.result = turn[r].result
  BY <1>1 DEF SameInputs, Turns
<1>5. /\ ok => x.pc = next /\ x.code = turn[r].code
      /\ ~ok => x.pc = "refused" /\ x.code = code
  BY <1>1 DEF Turns
<1> HIDE DEF x
<1>6. OnlyTurn(r) /\ turn'[r] = x
  BY <1>2, <1>3 DEF OnlyTurn, TypeOK
<1>. QED  BY <1>4, <1>5, <1>6

(* A turn that has not come to its call says nothing of one. *)
LEMMA Unsent ==
  ASSUME IInv, NEW r \in Requests, turn[r].pc \notin {"waiting", "answered", "refused"}
  PROVE  ~Admitted(r) /\ turn[r].code = "none" /\ turn[r].result = "none"
BY DEF IInv, Stages, Stage, Admitted, Told

(* A check that a turn passes or is refused by, before its call: the turn  *)
(* must have what the next step needs, and a refusal must have a reason    *)
(* that does not contradict what the caller was shown.                     *)
LEMMA CheckStep ==
  ASSUME IInv, NEW r \in Requests, NEW ok \in BOOLEAN,
         NEW next \in {"discover", "arguments", "confirm", "prepare", "send"},
         NEW code \in Codes \ AfterSend,
         turn[r].pc \notin {"waiting", "answered", "refused"},
         Proceed(r, ok, next, code), UNCHANGED <<held, sent>>,
         ok => /\ turn[r].pc # "new"
               /\ next # "discover" => turn[r].tool \in DOMAIN Catalog[turn[r].snapshot]
               /\ next \notin {"discover", "arguments"} =>
                    turn[r].conform /\ Authorized(Tool(r), turn[r].roles)
               /\ next \in {"prepare", "send"} => (Tool(r).confirm => turn[r].confirmed)
               /\ next = "send" => Tool(r).method /\ Tool(r).reachable,
         ~ok => (turn[r].tool \in turn[r].visible =>
                   code \notin {"role_not_permitted", "unknown_tool"})
  PROVE  IInv'
<1>1. TypeOK /\ Stage(r)
  BY DEF IInv, Stages
<1>2. code \in Codes
  OBVIOUS
<1>3. /\ OnlyTurn(r)
      /\ SameInputs(turn'[r], turn[r])
      /\ turn'[r].visible = turn[r].visible
      /\ turn'[r].tool = turn[r].tool
      /\ turn'[r].conform = turn[r].conform
      /\ turn'[r].result = turn[r].result
      /\ ok => turn'[r].pc = next /\ turn'[r].code = turn[r].code
      /\ ~ok => turn'[r].pc = "refused" /\ turn'[r].code = code
  BY <1>1, <1>2, Proceeds
<1>4. ~Admitted(r) /\ turn[r].code = "none" /\ turn[r].result = "none"
  BY Unsent
<1>5. Tool(r)' = Tool(r) /\ Visible(r)' = Visible(r)
  BY <1>3 DEF Tool, Visible, SameInputs
<1>6. ~Admitted(r)'
  <2>1. CASE ok
    BY <2>1, <1>3, <1>4 DEF Admitted, Told
  <2>2. CASE ~ok
    BY <2>2, <1>3, <1>4 DEF Admitted, Told, AfterSend
  <2>. QED  BY <2>1, <2>2
<1>7. Agrees(r)'
  <2>1. CASE ok
    BY <2>1, <1>3, <1>4 DEF Agrees
  <2>2. CASE ~ok
    BY <2>2, <1>3 DEF Agrees
  <2>. QED  BY <2>1, <2>2
<1>8. Stage(r)'
  <2>1. \A name \in turn'[r].visible : name \in Visible(r)'
    BY <1>1, <1>3, <1>5 DEF Stage
  <2>2. CASE ok
    <3>1. turn[r].snapshot \in Revisions
      BY <1>1, <2>2 DEF Stage
    <3>2. turn'[r].pc = next /\ turn'[r].code = "none" /\ turn'[r].result = "none"
      BY <1>3, <1>4, <2>2
    <3>3. turn'[r].snapshot = turn[r].snapshot /\ turn'[r].roles = turn[r].roles
          /\ turn'[r].confirmed = turn[r].confirmed
      BY <1>3 DEF SameInputs
    <3>. QED  BY <2>1, <2>2, <3>1, <3>2, <3>3, <1>3, <1>5 DEF Stage
  <2>3. CASE ~ok
    <3>1. turn'[r].pc = "refused"
      BY <1>3, <2>3
    <3>. QED  BY <2>1, <3>1 DEF Stage
  <2>. QED  BY <2>2, <2>3
<1>. QED  BY <1>3, <1>4, <1>6, <1>7, <1>8, Frame DEF Admitted

(* The text is empty or too long. *)
LEMMA RefuseTextStep ==
  ASSUME IInv, NEW r \in Requests, RefuseText(r)
  PROVE  IInv'
<1>1. turn[r].pc = "new" /\ Proceed(r, FALSE, "discover", "validation_failed")
      /\ UNCHANGED <<held, sent>>
  BY DEF RefuseText
<1>2. "validation_failed" \in Codes \ AfterSend
  BY DEF Codes, AfterSend
<1>. QED  BY <1>1, <1>2, CheckStep

(* The tool that was named is looked up in the snapshot of the turn, where *)
(* every tool that the caller was shown is.                                *)
LEMMA ResolveStep ==
  ASSUME IInv, NEW r \in Requests, Resolve(r)
  PROVE  IInv'
<1> DEFINE ok == turn[r].tool \in DOMAIN Catalog[turn[r].snapshot]
<1>1. turn[r].pc = "resolve" /\ Proceed(r, ok, "arguments", "unknown_tool")
      /\ UNCHANGED <<held, sent>>
  BY DEF Resolve
<1>2. "unknown_tool" \in Codes \ AfterSend
  BY DEF Codes, AfterSend
<1>3. ~ok => turn[r].tool \notin turn[r].visible
  BY DEF IInv, Stages, Stage, Visible
<1>4. ok \in BOOLEAN
  OBVIOUS
<1>5. ok => turn[r].tool \in DOMAIN Catalog[turn[r].snapshot]
  OBVIOUS
<1> HIDE DEF ok
<1>. QED  BY <1>1, <1>2, <1>3, <1>4, <1>5, CheckStep

(* Execution decides by the policy that discovery filtered by. *)
LEMMA AuthorizeStep ==
  ASSUME IInv, NEW r \in Requests, Authorize(r)
  PROVE  IInv'
<1> DEFINE ok == Authorized(Tool(r), turn[r].roles)
<1>1. turn[r].pc = "authorize" /\ Proceed(r, ok, "confirm", "role_not_permitted")
      /\ UNCHANGED <<held, sent>>
  BY DEF Authorize
<1>2. "role_not_permitted" \in Codes \ AfterSend
  BY DEF Codes, AfterSend
<1>3. /\ turn[r].tool \in DOMAIN Catalog[turn[r].snapshot] /\ turn[r].conform
      /\ \A name \in turn[r].visible : name \in Visible(r)
  BY <1>1 DEF IInv, Stages, Stage
<1>4. ~ok => turn[r].tool \notin turn[r].visible
  BY <1>3 DEF Visible, Tool
<1>5. ok \in BOOLEAN
  BY DEF Authorized
<1>6. ok => Authorized(Tool(r), turn[r].roles)
  OBVIOUS
<1> HIDE DEF ok
<1>. QED  BY <1>1, <1>2, <1>3, <1>4, <1>5, <1>6, CheckStep

(* A tool that asks for confirmation goes no further without it. *)
LEMMA ConfirmStep ==
  ASSUME IInv, NEW r \in Requests, Confirm(r)
  PROVE  IInv'
<1> DEFINE ok == Tool(r).confirm => turn[r].confirmed
<1>1. turn[r].pc = "confirm" /\ Proceed(r, ok, "prepare", "confirmation_required")
      /\ UNCHANGED <<held, sent>>
  BY DEF Confirm
<1>2. "confirmation_required" \in Codes \ AfterSend
  BY DEF Codes, AfterSend
<1>3. /\ turn[r].tool \in DOMAIN Catalog[turn[r].snapshot] /\ turn[r].conform
      /\ Authorized(Tool(r), turn[r].roles)
  BY <1>1 DEF IInv, Stages, Stage
<1>4. ok \in BOOLEAN
  OBVIOUS
<1>5. ok => (Tool(r).confirm => turn[r].confirmed)
  OBVIOUS
<1> HIDE DEF ok
<1>. QED  BY <1>1, <1>2, <1>3, <1>4, <1>5, CheckStep

(* The destination policy has the last word. *)
LEMMA PrepareStep ==
  ASSUME IInv, NEW r \in Requests, NEW built \in BOOLEAN, NEW resolves \in BOOLEAN,
         Prepare(r, built, resolves)
  PROVE  IInv'
<1> DEFINE refusal == Refusal(Tool(r), built, resolves)
           ok == refusal = "none"
<1>1. turn[r].pc = "prepare" /\ Proceed(r, ok, "send", refusal) /\ UNCHANGED <<held, sent>>
  BY DEF Prepare
<1>2. refusal \in {"method_not_allowed", "argument_validation_failed",
                  "destination_not_allowed", "none"}
  BY DEF Refusal
<1>3. /\ turn[r].tool \in DOMAIN Catalog[turn[r].snapshot] /\ turn[r].conform
      /\ Authorized(Tool(r), turn[r].roles)
      /\ Tool(r).confirm => turn[r].confirmed
  BY <1>1 DEF IInv, Stages, Stage
<1>4. ok \in BOOLEAN
  OBVIOUS
<1>5. ok => Tool(r).method /\ Tool(r).reachable
  BY DEF Refusal
<1>6. refusal \in Codes \ AfterSend
      /\ refusal \notin {"role_not_permitted", "unknown_tool"}
  BY <1>2 DEF Codes, AfterSend
<1> HIDE DEF ok, refusal
<1>. QED  BY <1>1, <1>3, <1>4, <1>5, <1>6, CheckStep

(* Another request installs a snapshot: no turn notices. *)
LEMMA RefreshStep ==
  ASSUME IInv, NEW n \in Revisions, Refresh(n)
  PROVE  IInv'
<1>1. held' = n /\ turn' = turn /\ sent' = sent
  BY DEF Refresh
<1>2. TypeOK'
  BY <1>1 DEF IInv, TypeOK
<1>3. CallsGoverned' /\ AtMostOneCall'
  BY <1>1 DEF IInv, CallsGoverned, Governed, AtMostOneCall
<1>4. AnswersHonest' /\ DiscoveryAgrees'
  BY <1>1 DEF IInv, AnswersHonest, Called, Admitted, Told, DiscoveryAgrees, Agrees
<1>5. Stages'
  BY <1>1 DEF IInv, Stages, Stage, Visible, Tool
<1>. QED  BY <1>2, <1>3, <1>4, <1>5 DEF IInv

(* The turn starts, with the snapshot that it stays with. *)
LEMMA AcquireStep ==
  ASSUME IInv, NEW r \in Requests, NEW kind \in {"chat", "execute"}, NEW roles \in SUBSET Roles,
         NEW confirmed \in BOOLEAN, NEW dry \in BOOLEAN, NEW name \in Names,
         Acquire(r, kind, roles, confirmed, dry, name)
  PROVE  IInv'
<1> DEFINE sham == dry /\ kind = "chat"
           tool == IF kind = "execute" THEN name ELSE NoTool
           pc == IF held = 0 THEN "refused" ELSE IF kind = "chat" THEN "discover" ELSE "resolve"
           code == IF held = 0 THEN "snapshot_unavailable" ELSE "none"
           x == [Fresh EXCEPT !.kind = kind, !.roles = roles, !.confirmed = confirmed,
                   !.dry = sham, !.snapshot = held, !.tool = tool, !.pc = pc, !.code = code]
<1>1. turn[r].pc = "new" /\ turn' = [turn EXCEPT ![r] = x] /\ UNCHANGED <<held, sent>>
  BY DEF Acquire
<1>2. TypeOK /\ held \in Revisions \cup {0} /\ turn[r] \in Turns
  BY DEF IInv, TypeOK
<1>3. /\ sham \in BOOLEAN
      /\ tool \in Names \cup {NoTool}
      /\ pc \in {"refused", "discover", "resolve"}
      /\ code \in Codes
  BY DEF Codes
<1>4. /\ held = 0 => pc = "refused" /\ code = "snapshot_unavailable"
      /\ held # 0 => pc \in {"discover", "resolve"} /\ code = "none"
  OBVIOUS
<1> HIDE DEF sham, tool, pc, code
<1>5. Fresh \in Turns /\ Fresh.visible = {} /\ Fresh.result = "none"
  BY FreshType DEF Fresh
<1>6. x.visible = {} /\ x.result = "none" /\ x.snapshot = held /\ x.pc = pc /\ x.code = code
  BY <1>5 DEF Turns
<1>7. x \in Turns
  <2> DEFINE y == [Fresh EXCEPT !.kind = kind, !.roles = roles, !.snapshot = held, !.tool = tool]
             z == [y EXCEPT !.pc = pc, !.code = code]
  <2>1. y \in Turns
    BY <1>2, <1>3, <1>5 DEF Turns
  <2>2. z \in Turns
    <3> HIDE DEF y
    <3>. QED  BY <1>3, <2>1 DEF Turns
  <2>3. [z EXCEPT !.confirmed = confirmed, !.dry = sham] \in Turns
    <3> HIDE DEF z
    <3>. QED  BY <1>3, <2>2 DEF Turns
  <2>4. x = [z EXCEPT !.confirmed = confirmed, !.dry = sham]
    BY <1>5 DEF Turns
  <2>. QED  BY <2>3, <2>4
<1> HIDE DEF x
<1>8. OnlyTurn(r) /\ turn'[r] = x
  BY <1>1, <1>2, <1>7 DEF OnlyTurn, TypeOK
<1>9. ~Admitted(r)
  BY <1>1, Unsent
<1>10. ~Admitted(r)' /\ Agrees(r)'
  BY <1>6, <1>8, <1>4 DEF Admitted, Told, Agrees
<1>11. Stage(r)'
  <2>1. CASE held = 0
    BY <1>6, <1>8, <1>4, <2>1 DEF Stage
  <2>2. CASE held # 0
    BY <1>2, <1>6, <1>8, <1>4, <2>2 DEF Stage
  <2>. QED  BY <2>1, <2>2
<1>. QED  BY <1>1, <1>8, <1>9, <1>10, <1>11, Frame DEF Admitted

(* The caller is shown what the snapshot of the turn admits it to. *)
LEMMA DiscoverStep ==
  ASSUME IInv, NEW r \in Requests, Discover(r)
  PROVE  IInv'
<1> DEFINE none == Visible(r) = {}
           x == [turn[r] EXCEPT !.visible = Visible(r),
                   !.pc = IF none THEN "refused" ELSE "select",
                   !.code = IF none THEN "no_tool_selected" ELSE @]
<1>1. TypeOK /\ turn[r] \in Turns /\ Stage(r)
  BY DEF IInv, TypeOK, Stages
<1>2. turn[r].pc = "discover" /\ UNCHANGED <<held, sent>>
  BY DEF Discover
<1>3. turn' = [turn EXCEPT ![r] = x]
  BY <1>1 DEF Discover, TypeOK, Turns
<1>4. turn[r].snapshot \in Revisions
  BY <1>1, <1>2 DEF Stage
<1>5. Visible(r) \in SUBSET Names
  BY <1>4 DEF Visible, Names
<1>6. x \in Turns
  BY <1>1, <1>5 DEF Turns, Codes
<1>7. x.visible = Visible(r) /\ x.result = turn[r].result /\ SameInputs(x, turn[r])
      /\ x.conform = turn[r].conform
  BY <1>1 DEF Turns, SameInputs
<1>8. /\ none => x.pc = "refused" /\ x.code = "no_tool_selected"
      /\ ~none => x.pc = "select" /\ x.code = turn[r].code
  BY <1>1 DEF Turns
<1> HIDE DEF x, none
<1>9. OnlyTurn(r) /\ turn'[r] = x
  BY <1>1, <1>3, <1>6 DEF OnlyTurn, TypeOK
<1>10. ~Admitted(r) /\ turn[r].code = "none" /\ turn[r].result = "none"
  BY <1>2, Unsent
<1>11. Visible(r)' = Visible(r)
  BY <1>7, <1>9 DEF Visible, SameInputs
<1>12. ~Admitted(r)' /\ Agrees(r)'
  BY <1>7, <1>8, <1>9, <1>10 DEF Admitted, Told, Agrees
<1>13. Stage(r)'
  <2>1. \A name \in turn'[r].visible : name \in Visible(r)'
    BY <1>7, <1>9, <1>11
  <2>2. turn'[r].snapshot \in Revisions
    BY <1>4, <1>7, <1>9 DEF SameInputs
  <2>3. turn'[r].pc = "refused" \/ (turn'[r].pc = "select" /\ turn'[r].code = "none")
    BY <1>8, <1>9, <1>10
  <2>4. turn'[r].result = "none"
    BY <1>7, <1>9, <1>10
  <2>. QED  BY <2>1, <2>2, <2>3, <2>4 DEF Stage
<1>. QED  BY <1>2, <1>9, <1>10, <1>12, <1>13, Frame DEF Admitted

(* The provider answers anything. *)
LEMMA SelectStep ==
  ASSUME IInv, NEW r \in Requests, NEW name \in Names \cup {NoTool}, Select(r, name)
  PROVE  IInv'
<1> DEFINE x == [turn[r] EXCEPT !.tool = name,
                   !.pc = IF name = NoTool THEN "refused" ELSE "resolve",
                   !.code = IF name = NoTool THEN "no_tool_selected" ELSE @]
<1>1. TypeOK /\ turn[r] \in Turns /\ Stage(r)
  BY DEF IInv, TypeOK, Stages
<1>2. turn[r].pc = "select" /\ UNCHANGED <<held, sent>>
  BY DEF Select
<1>3. turn' = [turn EXCEPT ![r] = x]
  BY <1>1 DEF Select, TypeOK, Turns
<1>4. x \in Turns
  BY <1>1 DEF Turns, Codes
<1>5. x.visible = turn[r].visible /\ x.result = turn[r].result /\ SameInputs(x, turn[r])
      /\ x.conform = turn[r].conform
  BY <1>1 DEF Turns, SameInputs
<1>6. \/ x.pc = "refused" /\ x.code = "no_tool_selected"
      \/ x.pc = "resolve" /\ x.code = turn[r].code
  BY <1>1 DEF Turns
<1> HIDE DEF x
<1>7. OnlyTurn(r) /\ turn'[r] = x
  BY <1>1, <1>3, <1>4 DEF OnlyTurn, TypeOK
<1>8. ~Admitted(r) /\ turn[r].code = "none" /\ turn[r].result = "none"
  BY <1>2, Unsent
<1>9. Visible(r)' = Visible(r)
  BY <1>5, <1>7 DEF Visible, SameInputs
<1>10. ~Admitted(r)' /\ Agrees(r)'
  BY <1>5, <1>6, <1>7, <1>8 DEF Admitted, Told, Agrees
<1>11. Stage(r)'
  <2>1. \A shown \in turn'[r].visible : shown \in Visible(r)'
    BY <1>1, <1>5, <1>7, <1>9 DEF Stage
  <2>2. turn'[r].snapshot \in Revisions
    BY <1>1, <1>2, <1>5, <1>7 DEF SameInputs, Stage
  <2>3. turn'[r].pc = "refused" \/ (turn'[r].pc = "resolve" /\ turn'[r].code = "none")
    BY <1>6, <1>7, <1>8
  <2>4. turn'[r].result = "none"
    BY <1>5, <1>7, <1>8
  <2>. QED  BY <2>1, <2>2, <2>3, <2>4 DEF Stage
<1>. QED  BY <1>2, <1>7, <1>8, <1>10, <1>11, Frame DEF Admitted

(* Arguments are judged once per turn; what the turn does next depends on  *)
(* it.                                                                     *)
LEMMA ArgumentsStep ==
  ASSUME IInv, NEW r \in Requests, NEW conform \in BOOLEAN, Arguments(r, conform)
  PROVE  IInv'
<1> DEFINE pc == IF conform THEN "authorize" ELSE "refused"
           code == IF conform THEN turn[r].code ELSE "argument_validation_failed"
           x == [turn[r] EXCEPT !.conform = conform, !.pc = pc, !.code = code]
<1>1. TypeOK /\ turn[r] \in Turns /\ Stage(r)
  BY DEF IInv, TypeOK, Stages
<1>2. turn[r].pc = "arguments" /\ UNCHANGED <<held, sent>>
  BY DEF Arguments
<1>3. turn' = [turn EXCEPT ![r] = x]
  BY <1>1 DEF Arguments, TypeOK, Turns
<1>4. ~Admitted(r) /\ turn[r].code = "none" /\ turn[r].result = "none"
  BY <1>2, Unsent
<1>5. /\ conform => pc = "authorize" /\ code = "none"
      /\ ~conform => pc = "refused" /\ code = "argument_validation_failed"
  BY <1>4
<1>6. pc \in {"authorize", "refused"} /\ code \in {"none", "argument_validation_failed"}
  BY <1>5
<1> HIDE DEF pc, code
<1>7. x \in Turns
  <2>1. code \in Codes
    BY <1>6 DEF Codes
  <2>. QED  BY <1>1, <1>6, <2>1 DEF Turns
<1>8. /\ x.visible = turn[r].visible /\ x.result = turn[r].result /\ SameInputs(x, turn[r])
      /\ x.tool = turn[r].tool /\ x.pc = pc /\ x.code = code /\ x.conform = conform
  BY <1>1 DEF Turns, SameInputs
<1> HIDE DEF x
<1>9. OnlyTurn(r) /\ turn'[r] = x
  BY <1>1, <1>3, <1>7 DEF OnlyTurn, TypeOK
<1>10. Visible(r)' = Visible(r)
  BY <1>8, <1>9 DEF Visible, SameInputs
<1>11. ~Admitted(r)' /\ Agrees(r)'
  BY <1>4, <1>6, <1>8, <1>9 DEF Admitted, Told, Agrees
<1>12. Stage(r)'
  <2>1. \A shown \in turn'[r].visible : shown \in Visible(r)'
    BY <1>1, <1>8, <1>9, <1>10 DEF Stage
  <2>2. turn'[r].snapshot \in Revisions /\ turn'[r].tool \in DOMAIN Catalog[turn'[r].snapshot]
    BY <1>1, <1>2, <1>8, <1>9 DEF SameInputs, Stage
  <2>3. CASE conform
    <3>1. turn'[r].pc = "authorize" /\ turn'[r].code = "none" /\ turn'[r].result = "none"
      BY <1>4, <1>5, <1>8, <1>9, <2>3
    <3>2. turn'[r].conform
      BY <1>8, <1>9, <2>3
    <3>. QED  BY <2>1, <2>2, <3>1, <3>2 DEF Stage
  <2>4. CASE ~conform
    <3>1. turn'[r].pc = "refused"
      BY <1>5, <1>8, <1>9, <2>4
    <3>. QED  BY <2>1, <3>1 DEF Stage
  <2>. QED  BY <2>3, <2>4
<1>. QED  BY <1>2, <1>4, <1>9, <1>11, <1>12, Frame DEF Admitted

(* How a turn ends: with a result or a refusal, which speaks of a call     *)
(* only if one is out, and does not deny one that is.                      *)
LEMMA EndStep ==
  ASSUME IInv, NEW r \in Requests, NEW pc \in {"answered", "refused"}, NEW code \in Codes,
         NEW result \in {"none", "succeeded", "upstream_error", "dry_run"},
         turn[r].pc \in {"send", "waiting"},
         turn' = [turn EXCEPT ![r].pc = pc, ![r].code = code, ![r].result = result],
         UNCHANGED <<held, sent>>,
         code \notin {"role_not_permitted", "unknown_tool"},
         turn[r].pc # "waiting" =>
           /\ result \notin {"succeeded", "upstream_error"}
           /\ code \notin {"redirect_not_allowed", "response_too_large"},
         turn[r].pc = "waiting" =>
           result \in {"succeeded", "upstream_error"} \/ code \in AfterSend
  PROVE  IInv'
<1> DEFINE x == [turn[r] EXCEPT !.pc = pc, !.code = code, !.result = result]
<1>1. TypeOK /\ turn[r] \in Turns /\ Stage(r)
  BY DEF IInv, TypeOK, Stages
<1>2. turn' = [turn EXCEPT ![r] = x]
  BY <1>1 DEF TypeOK, Turns
<1>3. x \in Turns
  BY <1>1 DEF Turns
<1>4. /\ SameInputs(x, turn[r]) /\ x.conform = turn[r].conform /\ x.visible = turn[r].visible
      /\ x.pc = pc /\ x.code = code /\ x.result = result
  BY <1>1 DEF Turns, SameInputs
<1> HIDE DEF x
<1>5. OnlyTurn(r) /\ turn'[r] = x
  BY <1>1, <1>2, <1>3 DEF OnlyTurn, TypeOK
<1>6. turn[r].code = "none" /\ turn[r].result = "none"
  BY <1>1 DEF Stage
<1>7. Admitted(r) => Admitted(r)'
  BY <1>4, <1>5, <1>6 DEF Admitted, Told, AfterSend
<1>10. Told(r)' => Told(r)
  BY <1>4, <1>5, <1>6 DEF Told
<1>8. Visible(r)' = Visible(r)
  BY <1>4, <1>5 DEF Visible, SameInputs
<1>9. Agrees(r)' /\ Stage(r)'
  BY <1>1, <1>4, <1>5, <1>8 DEF Agrees, Stage
<1>. QED  BY <1>4, <1>5, <1>7, <1>9, <1>10, Frame

(* A dry run ends without a call. *)
LEMMA EndDryRunStep ==
  ASSUME IInv, NEW r \in Requests, EndDryRun(r)
  PROVE  IInv'
<1>1. TypeOK /\ turn[r] \in Turns /\ Stage(r)
  BY DEF IInv, TypeOK, Stages
<1>2. turn[r].pc = "send" /\ UNCHANGED <<held, sent>>
  BY DEF EndDryRun
<1>3. turn[r].code = "none"
  BY <1>1, <1>2 DEF Stage
<1>4. turn' = [turn EXCEPT ![r].pc = "answered", ![r].code = "none", ![r].result = "dry_run"]
  BY <1>1, <1>3 DEF EndDryRun, TypeOK, Turns
<1>5. "none" \in Codes
  BY DEF Codes
<1>. QED  BY <1>2, <1>4, <1>5, EndStep

(* A refusal by Proceed from sending or waiting sets only the code. *)
LEMMA Refused ==
  ASSUME IInv, NEW r \in Requests, NEW code \in AfterSend, NEW next \in {"waiting", "answered"},
         turn[r].pc \in {"send", "waiting"}, Proceed(r, FALSE, next, code)
  PROVE  turn' = [turn EXCEPT ![r].pc = "refused", ![r].code = code, ![r].result = "none"]
<1>1. TypeOK /\ turn[r] \in Turns /\ Stage(r)
  BY DEF IInv, TypeOK, Stages
<1>2. turn[r].result = "none"
  BY <1>1 DEF Stage
<1>. QED  BY <1>1, <1>2 DEF Proceed, TypeOK, Turns

(* The connection was not opened: there is no call, and the turn does not  *)
(* claim one.                                                              *)
LEMMA FailConnectStep ==
  ASSUME IInv, NEW r \in Requests,
         NEW code \in {"upstream_timeout", "upstream_unavailable", "internal_error"},
         FailConnect(r, code)
  PROVE  IInv'
<1>1. /\ turn[r].pc = "send" /\ Proceed(r, FALSE, "waiting", code)
      /\ UNCHANGED <<held, sent>>
  BY DEF FailConnect
<1>2. code \in AfterSend /\ code \in Codes
  BY DEF AfterSend, Codes
<1>3. turn' = [turn EXCEPT ![r].pc = "refused", ![r].code = code, ![r].result = "none"]
  BY <1>1, <1>2, Refused
<1>. QED  BY <1>1, <1>2, <1>3, EndStep

(* The call failed after it had left, and the turn does not deny it. *)
LEMMA FailCallStep ==
  ASSUME IInv, NEW r \in Requests,
         NEW code \in {"upstream_timeout", "upstream_unavailable", "response_too_large",
                       "internal_error"},
         FailCall(r, code)
  PROVE  IInv'
<1>1. /\ turn[r].pc = "waiting" /\ Proceed(r, FALSE, "answered", code)
      /\ UNCHANGED <<held, sent>>
  BY DEF FailCall
<1>2. code \in AfterSend /\ code \in Codes
  BY DEF AfterSend, Codes
<1>3. turn' = [turn EXCEPT ![r].pc = "refused", ![r].code = code, ![r].result = "none"]
  BY <1>1, <1>2, Refused
<1>. QED  BY <1>1, <1>2, <1>3, EndStep

(* An answer came back. *)
LEMMA ReceiveStep ==
  ASSUME IInv, NEW r \in Requests, NEW status \in {"2xx", "3xx", "4xx"}, Receive(r, status)
  PROVE  IInv'
<1>1. TypeOK /\ turn[r] \in Turns /\ Stage(r)
  BY DEF IInv, TypeOK, Stages
<1>2. turn[r].pc = "waiting" /\ UNCHANGED <<held, sent>>
  BY DEF Receive
<1>3. turn[r].code = "none" /\ turn[r].result = "none"
  BY <1>1, <1>2 DEF Stage
<1>4. {"none", "redirect_not_allowed"} \subseteq Codes
  BY DEF Codes
<1>5. CASE status = "2xx"
  <2>1. turn' = [turn EXCEPT ![r].pc = "answered", ![r].code = "none", ![r].result = "succeeded"]
    BY <1>1, <1>3, <1>5 DEF Receive, TypeOK, Turns
  <2>. QED  BY <1>2, <1>4, <2>1, EndStep DEF AfterSend
<1>6. CASE status = "3xx"
  <2>1. turn' = [turn EXCEPT ![r].pc = "refused", ![r].code = "redirect_not_allowed",
                             ![r].result = "none"]
    BY <1>1, <1>3, <1>6 DEF Receive, TypeOK, Turns
  <2>. QED  BY <1>2, <1>4, <2>1, EndStep DEF AfterSend
<1>7. CASE status = "4xx"
  <2>1. turn' = [turn EXCEPT ![r].pc = "answered", ![r].code = "none",
                             ![r].result = "upstream_error"]
    BY <1>1, <1>3, <1>7 DEF Receive, TypeOK, Turns
  <2>. QED  BY <1>2, <1>4, <2>1, EndStep DEF AfterSend
<1>. QED  BY <1>5, <1>6, <1>7

(* The call leaves.  Everything that governs it has been established, and  *)
(* no call of this turn has left before.                                   *)
LEMMA SendStep ==
  ASSUME IInv, NEW r \in Requests, Send(r)
  PROVE  IInv'
<1> DEFINE call == [request |-> r, revision |-> turn[r].snapshot, tool |-> turn[r].tool]
           x == [turn[r] EXCEPT !.pc = "waiting"]
<1>1. TypeOK /\ turn[r] \in Turns /\ Stage(r) /\ sent \in Seq(Call)
  BY DEF IInv, TypeOK, Stages
<1>2. turn[r].pc = "send" /\ ~turn[r].dry /\ held' = held /\ sent' = Append(sent, call)
  BY DEF Send
<1>3. turn' = [turn EXCEPT ![r] = x]
  BY <1>1 DEF Send, TypeOK, Turns
<1>4. x \in Turns
  BY <1>1 DEF Turns
<1>5. /\ SameInputs(x, turn[r]) /\ x.visible = turn[r].visible /\ x.tool = turn[r].tool
      /\ x.conform = turn[r].conform /\ x.code = turn[r].code /\ x.result = turn[r].result
      /\ x.pc = "waiting"
  BY <1>1 DEF Turns, SameInputs
<1> HIDE DEF x
<1>6. OnlyTurn(r) /\ turn'[r] = x
  BY <1>1, <1>3, <1>4 DEF OnlyTurn, TypeOK
<1>7. ~Admitted(r) /\ ~Called(r)
  BY <1>2, Unsent DEF IInv, AnswersHonest
<1>8. /\ turn[r].snapshot \in Revisions /\ turn[r].tool \in DOMAIN Catalog[turn[r].snapshot]
      /\ turn[r].conform /\ Authorized(Tool(r), turn[r].roles)
      /\ Tool(r).confirm => turn[r].confirmed
      /\ Tool(r).method /\ Tool(r).reachable
      /\ turn[r].code = "none" /\ turn[r].result = "none"
  BY <1>1, <1>2 DEF Stage
<1>9. Tool(r)' = Tool(r) /\ Visible(r)' = Visible(r)
  BY <1>5, <1>6 DEF Tool, Visible, SameInputs
<1>10. call \in Call
  BY <1>8 DEF Call, Names
<1>11. /\ call.request = r /\ call.revision = turn[r].snapshot /\ call.tool = turn[r].tool
  OBVIOUS
<1> HIDE DEF call
<1>12. /\ DOMAIN sent' = DOMAIN sent \cup {Len(sent) + 1}
       /\ Len(sent) + 1 \notin DOMAIN sent
       /\ sent'[Len(sent) + 1] = call
       /\ \A i \in DOMAIN sent : sent'[i] = sent[i]
  BY <1>1, <1>2, <1>10
<1>13. \A i \in DOMAIN sent : sent[i].request # r
  BY <1>7 DEF Called
<1>14. \A i \in DOMAIN sent : sent[i].request \in Requests
  <2>1. \A i \in DOMAIN sent : sent[i] \in Call
    BY <1>1
  <2>. QED  BY <2>1 DEF Call
<1>15. TypeOK'
  BY <1>1, <1>2, <1>6, <1>10 DEF TypeOK, OnlyTurn
<1>16. CallsGoverned'
  <2> SUFFICES ASSUME NEW i \in DOMAIN sent' PROVE Governed(sent[i])'
    BY DEF CallsGoverned
  <2>1. CASE i \in DOMAIN sent
    <3>1. Governed(sent[i]) /\ turn'[sent[i].request] = turn[sent[i].request]
      BY <2>1, <1>6, <1>13, <1>14 DEF IInv, CallsGoverned, OnlyTurn
    <3>. QED  BY <2>1, <3>1, <1>12 DEF Governed
  <2>2. CASE i = Len(sent) + 1
    <3>1. sent'[i] = call
      BY <2>2, <1>12
    <3>2. Admits(Catalog[turn[r].snapshot][turn[r].tool], turn'[r])
      BY <1>5, <1>6, <1>8 DEF Admits, Authorized, Tool, SameInputs
    <3>3. /\ turn'[r].snapshot = turn[r].snapshot /\ turn'[r].conform /\ ~turn'[r].dry
      BY <1>2, <1>5, <1>6, <1>8 DEF SameInputs
    <3>. QED  BY <3>1, <3>2, <3>3, <1>8, <1>11 DEF Governed
  <2>. QED  BY <2>1, <2>2, <1>12
<1>17. AtMostOneCall'
  <2> SUFFICES ASSUME NEW i \in DOMAIN sent', NEW j \in DOMAIN sent',
                      sent'[i].request = sent'[j].request
               PROVE  i = j
    BY DEF AtMostOneCall
  <2>1. CASE i \in DOMAIN sent /\ j \in DOMAIN sent
    BY <2>1, <1>12 DEF IInv, AtMostOneCall
  <2>2. CASE i \notin DOMAIN sent \/ j \notin DOMAIN sent
    BY <2>2, <1>11, <1>12, <1>13
  <2>. QED  BY <2>1, <2>2
<1>18. AnswersHonest'
  <2> SUFFICES ASSUME NEW q \in Requests
               PROVE  (Told(q)' => Called(q)') /\ (Called(q)' => Admitted(q)')
    BY DEF AnswersHonest
  <2>1. CASE q = r
    <3>1. Called(q)'
      BY <2>1, <1>11, <1>12 DEF Called
    <3>2. Admitted(q)'
      BY <2>1, <1>5, <1>6 DEF Admitted, Told
    <3>. QED  BY <3>1, <3>2
  <2>2. CASE q # r
    <3>1. Called(q)' <=> Called(q)
      BY <2>2, <1>11, <1>12 DEF Called
    <3>2. (Admitted(q)' <=> Admitted(q)) /\ (Told(q)' <=> Told(q))
      BY <2>2, <1>6 DEF Admitted, Told, OnlyTurn
    <3>. QED  BY <3>1, <3>2 DEF IInv, AnswersHonest
  <2>. QED  BY <2>1, <2>2
<1>19. DiscoveryAgrees'
  <2> SUFFICES ASSUME NEW q \in Requests PROVE Agrees(q)'
    BY DEF DiscoveryAgrees
  <2>1. CASE q = r
    <3>1. turn'[q].code = "none"
      BY <2>1, <1>5, <1>6, <1>8
    <3>. QED  BY <3>1 DEF Agrees
  <2>2. CASE q # r
    BY <2>2, <1>6 DEF IInv, DiscoveryAgrees, Agrees, OnlyTurn
  <2>. QED  BY <2>1, <2>2
<1>20. Stages'
  <2> SUFFICES ASSUME NEW q \in Requests PROVE Stage(q)'
    BY DEF Stages
  <2>1. CASE q = r
    <3>1. /\ turn'[r].snapshot = turn[r].snapshot /\ turn'[r].roles = turn[r].roles
          /\ turn'[r].confirmed = turn[r].confirmed
      BY <1>5, <1>6 DEF SameInputs
    <3>. QED  BY <2>1, <3>1, <1>1, <1>5, <1>6, <1>8, <1>9 DEF Stage
  <2>2. CASE q # r
    <3>1. turn'[q] = turn[q] /\ Stage(q)
      BY <2>2, <1>6 DEF IInv, Stages, OnlyTurn
    <3>. QED  BY <3>1 DEF Stage, Visible, Tool
  <2>. QED  BY <2>1, <2>2
<1>. QED  BY <1>15, <1>16, <1>17, <1>18, <1>19, <1>20 DEF IInv

-----------------------------------------------------------------------------
(* Every step of every request, and every refresh, keeps the invariant. *)
LEMMA NextIInv == IInv /\ [Next]_vars => IInv'
<1> SUFFICES ASSUME IInv, [Next]_vars
             PROVE  IInv'
  OBVIOUS
<1>1. ASSUME NEW n \in Revisions, Refresh(n)
      PROVE  IInv'
  BY <1>1, RefreshStep
<1>2. ASSUME NEW r \in Requests, NEW kind \in {"chat", "execute"}, NEW roles \in SUBSET Roles,
             NEW confirmed \in BOOLEAN, NEW dry \in BOOLEAN, NEW name \in Names,
             Acquire(r, kind, roles, confirmed, dry, name)
      PROVE  IInv'
  BY <1>2, AcquireStep
<1>3. ASSUME NEW r \in Requests, Steps(r)
      PROVE  IInv'
  <2>1. CASE RefuseText(r)
    BY <2>1, RefuseTextStep
  <2>2. CASE Discover(r)
    BY <2>2, DiscoverStep
  <2>3. CASE \E name \in Names \cup {NoTool} : Select(r, name)
    BY <2>3, SelectStep
  <2>4. CASE Resolve(r)
    BY <2>4, ResolveStep
  <2>5. CASE \E conform \in BOOLEAN : Arguments(r, conform)
    BY <2>5, ArgumentsStep
  <2>6. CASE Authorize(r)
    BY <2>6, AuthorizeStep
  <2>7. CASE Confirm(r)
    BY <2>7, ConfirmStep
  <2>8. CASE \E built, resolves \in BOOLEAN : Prepare(r, built, resolves)
    BY <2>8, PrepareStep
  <2>9. CASE EndDryRun(r)
    BY <2>9, EndDryRunStep
  <2>10. CASE Send(r)
    BY <2>10, SendStep
  <2>11. CASE \E code \in {"upstream_timeout", "upstream_unavailable", "response_too_large",
                          "internal_error"} : FailCall(r, code)
    BY <2>11, FailCallStep
  <2>13. CASE \E code \in {"upstream_timeout", "upstream_unavailable", "internal_error"} :
                FailConnect(r, code)
    BY <2>13, FailConnectStep
  <2>12. CASE \E status \in {"2xx", "3xx", "4xx"} : Receive(r, status)
    BY <2>12, ReceiveStep
  <2>. QED
    BY <1>3, <2>1, <2>2, <2>3, <2>4, <2>5, <2>6, <2>7, <2>8, <2>9, <2>10, <2>11, <2>12, <2>13
    DEF Steps
<1>4. CASE UNCHANGED vars
  <2>1. held' = held /\ turn' = turn /\ sent' = sent
    BY <1>4 DEF vars
  <2>. QED
    BY <2>1 DEF IInv, TypeOK, CallsGoverned, Governed, AtMostOneCall, AnswersHonest, Called,
                Admitted, Told, DiscoveryAgrees, Agrees, Stages, Stage, Visible, Tool
<1>. QED  BY <1>1, <1>2, <1>3, <1>4 DEF Next

(* IInv is an inductive invariant of the runtime's requests. *)
THEOREM Invariance == Spec => []IInv
BY InitIInv, NextIInv, PTL DEF Spec

(* The held revision, the turns and the calls are always of their types. *)
THEOREM TypeCorrect == Spec => []TypeOK
<1>1. IInv => TypeOK
  BY DEF IInv
<1>. QED  BY <1>1, Invariance, PTL

(* A call that reaches the upstream passed every check of handle or        *)
(* execute_tool in the one revision that its request started with.         *)
THEOREM EveryCallGoverned == Spec => []CallsGoverned
<1>1. IInv => CallsGoverned
  BY DEF IInv
<1>. QED  BY <1>1, Invariance, PTL

(* No request makes a second call, not after a failure either. *)
THEOREM OneCallPerRequest == Spec => []AtMostOneCall
<1>1. IInv => AtMostOneCall
  BY DEF IInv
<1>. QED  BY <1>1, Invariance, PTL

(* A caller is told of a call only if it was made, and a call that was     *)
(* made is never denied: it shows in the answer, or the answer (a timeout, *)
(* an unavailable upstream, an internal error) leaves it open.             *)
THEOREM HonestAnswers == Spec => []AnswersHonest
<1>1. IInv => AnswersHonest
  BY DEF IInv
<1>. QED  BY <1>1, Invariance, PTL

(* Discovery and execution agree on who may use which tool. *)
THEOREM NoDisagreement == Spec => []DiscoveryAgrees
<1>1. IInv => DiscoveryAgrees
  BY DEF IInv
<1>. QED  BY <1>1, Invariance, PTL
=============================================================================
