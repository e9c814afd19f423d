--------------------------- MODULE BoundaryProofs ---------------------------
(***************************************************************************)
(* Proofs about the components of Perimeter: first each of Console,        *)
(* Destinations and Identity by itself, then Trust, whose own proof module *)
(* is used here, then Provider and Adapters, and at the end all of them    *)
(* side by side.  They hold for any number of consoles, runtimes and       *)
(* publications, and any settings, URLs, names, addresses, keys,           *)
(* lifetimes, requests, tools, vocabularies, schemas and values.           *)
(***************************************************************************)
EXTENDS Perimeter, FiniteSetTheorems, NaturalsInduction, WellFoundedInduction, TLAPS

-----------------------------------------------------------------------------
(* Consoles. *)

Steps == {"mount", "list", "document", "deployments", "snapshots", "idle"}

(* A document is only loaded of a version that is listed. *)
Shown ==
  {s \in [step : Steps, draft : [upload : Nat, revision : Nat, version : Nat], versions : Seq(Nat),
          tools : Nat, snapshots : Seq(Nat), mounting : BOOLEAN, error : BOOLEAN, stale : BOOLEAN] :
     s.step = "document" => s.versions # <<>>}

ConsoleTypes ==
  /\ draft \in [upload : Nat, revision : Nat, version : Nat]
  /\ versions \in Seq(Nat)
  /\ snapshots \in Seq(Nat)
  /\ console \in [Consoles -> Shown]
  /\ uploads \in Nat
  /\ failures \in Nat
  /\ unanswered \subseteq Consoles

(* The document is only behind the list while it is being loaded, and a    *)
(* console lists nothing that the server does not.                         *)
ToolsFollow(s, published) ==
  /\ s.step # "document" => s.tools = C!Latest(s.versions)
  /\ s.versions # <<>> => published # <<>>

(* What a console shows after a publication that it does not know of is    *)
(* not newer than what is published.                                       *)
Overtaken(s, published) == \E i \in DOMAIN published : ~(s.draft.version > published[i])

(* The inductive invariant of the consoles. *)
ConsoleInv ==
  /\ ConsoleTypes
  /\ failures = 0 => \A c \in Consoles : ToolsFollow(console[c], versions)
  /\ \A c \in unanswered : Overtaken(console[c], versions)

(* A list that is not empty ends in one of its members. *)
LEMMA LatestType ==
  ASSUME NEW list \in Seq(Nat)
  PROVE  C!Latest(list) \in Nat /\ (list # <<>> => C!Latest(list) = list[Len(list)])
BY DEF C!Latest, C!Last

(* Nothing is shown and nothing published at the start. *)
LEMMA ConsoleInit == C!Init => ConsoleInv
<1> SUFFICES ASSUME C!Init PROVE ConsoleInv
  OBVIOUS
<1>1. C!Opened \in Shown
  BY DEF C!Opened, C!NoDraft, Shown, Steps
<1>2. ConsoleTypes
  BY <1>1 DEF C!Init, C!NoDraft, ConsoleTypes
<1>3. \A c \in Consoles : ToolsFollow(console[c], versions)
  BY DEF C!Init, C!Opened, ToolsFollow, C!Latest
<1>4. unanswered = {}
  BY DEF C!Init
<1>. QED  BY <1>2, <1>3, <1>4 DEF ConsoleInv

(* Publishing adds to what a console is not ahead of. *)
LEMMA PublishedGrows ==
  ASSUME versions \in Seq(Nat), versions' = versions \/ \E v \in Nat : versions' = Append(versions, v),
         NEW s
  PROVE  /\ ToolsFollow(s, versions) => ToolsFollow(s, versions')
         /\ Overtaken(s, versions) => Overtaken(s, versions')
<1>1. CASE versions' = versions
  BY <1>1
<1>2. CASE \E v \in Nat : versions' = Append(versions, v)
  <2>1. PICK v \in Nat : versions' = Append(versions, v)
    BY <1>2
  <2>2. versions' # <<>> /\ \A i \in DOMAIN versions : i \in DOMAIN versions' /\ versions'[i] = versions[i]
    BY <2>1
  <2>3. ToolsFollow(s, versions) => ToolsFollow(s, versions')
    BY <2>2 DEF ToolsFollow
  <2>4. Overtaken(s, versions) => Overtaken(s, versions')
    BY <2>2 DEF Overtaken
  <2>. QED  BY <2>3, <2>4
<1>. QED  BY <1>1, <1>2

(* A step of one console leaves the others, whose claims are about the     *)
(* server only in what publishing keeps.                                   *)
LEMMA ConsoleStep ==
  ASSUME ConsoleInv, NEW c \in Consoles, NEW s \in Shown, console' = [console EXCEPT ![c] = s],
         draft' \in [upload : Nat, revision : Nat, version : Nat],
         versions' = versions \/ \E v \in Nat : versions' = Append(versions, v),
         snapshots' \in Seq(Nat), uploads' \in Nat, failures' \in Nat,
         failures' = failures \/ failures' # 0,
         failures' = 0 => ToolsFollow(s, versions'),
         unanswered' \subseteq unanswered \cup {c}, c \in unanswered' => Overtaken(s, versions')
  PROVE  ConsoleInv'
<1>1. console \in [Consoles -> Shown] /\ versions \in Seq(Nat) /\ unanswered \subseteq Consoles
  BY DEF ConsoleInv, ConsoleTypes
<1>2. versions' \in Seq(Nat)
  <2>1. \A v \in Nat : Append(versions, v) \in Seq(Nat)
    BY <1>1
  <2>. QED  BY <1>1, <2>1
<1>3. console' \in [Consoles -> Shown] /\ console'[c] = s /\ \A b \in Consoles \ {c} : console'[b] = console[b]
  BY <1>1
<1>4. ConsoleTypes'
  BY <1>1, <1>2, <1>3 DEF ConsoleTypes
<1>5. ASSUME failures' = 0, NEW b \in Consoles PROVE ToolsFollow(console'[b], versions')
  <2>1. CASE b = c
    BY <1>3, <1>5, <2>1
  <2>2. CASE b # c
    <3>1. ToolsFollow(console[b], versions)
      BY <1>5 DEF ConsoleInv
    <3>. QED  BY <1>1, <1>3, <2>2, <3>1, PublishedGrows
  <2>. QED  BY <2>1, <2>2
<1>6. ASSUME NEW b \in unanswered' PROVE Overtaken(console'[b], versions')
  <2>1. CASE b = c
    BY <1>3, <1>6, <2>1
  <2>2. CASE b # c
    <3>1. b \in Consoles /\ Overtaken(console[b], versions)
      BY <1>1, <1>6, <2>2 DEF ConsoleInv
    <3>. QED  BY <1>1, <1>3, <2>2, <3>1, PublishedGrows
  <2>. QED  BY <2>1, <2>2
<1>. QED  BY <1>4, <1>5, <1>6 DEF ConsoleInv

(* What is known of one console. *)
LEMMA ConsoleFacts ==
  ASSUME ConsoleInv, NEW c \in Consoles
  PROVE  /\ console[c] \in Shown
         /\ draft \in [upload : Nat, revision : Nat, version : Nat]
         /\ versions \in Seq(Nat) /\ snapshots \in Seq(Nat) /\ uploads \in Nat /\ failures \in Nat
         /\ failures = 0 => ToolsFollow(console[c], versions)
         /\ c \in unanswered => Overtaken(console[c], versions)
BY DEF ConsoleInv, ConsoleTypes

(* A run that ends in an error changes nothing that is listed. *)
Ended(s, conflict) ==
  [s EXCEPT !.step = "idle", !.mounting = FALSE, !.error = TRUE, !.stale = conflict]

(* So it keeps what is known, unless it ends while a document is loaded.   *)
LEMMA EndedFit ==
  ASSUME NEW s \in Shown, NEW conflict \in BOOLEAN, NEW published
  PROVE  /\ Ended(s, conflict) \in Shown
         /\ s.step = "idle" /\ ToolsFollow(s, published) => ToolsFollow(Ended(s, conflict), published)
         /\ Overtaken(s, published) => Overtaken(Ended(s, conflict), published)
         /\ Ended(s, conflict).draft = s.draft
<1> DEFINE t == Ended(s, conflict)
<1>1. /\ t \in Shown /\ t.step = "idle"
      /\ t.draft = s.draft /\ t.versions = s.versions /\ t.tools = s.tools
  BY DEF Ended, Shown, Steps
<1> HIDE DEF t
<1>2. s.step = "idle" /\ ToolsFollow(s, published) => ToolsFollow(t, published)
  BY <1>1 DEF ToolsFollow
<1>3. Overtaken(s, published) => Overtaken(t, published)
  BY <1>1 DEF Overtaken
<1>. QED  BY <1>1, <1>2, <1>3 DEF t

(* A console that was overtaken cannot publish what it shows. *)
LEMMA OvertakenIsRefused ==
  ASSUME NEW c, Overtaken(console[c], versions)
  PROVE  ~C!Publishable(c)
BY DEF Overtaken, C!Publishable, C!Proposed

(* Register, answered or not, puts a new draft on the server. *)
LEMMA RegisterInv ==
  ASSUME ConsoleInv, NEW c \in Consoles, C!Register(c) \/ C!RegisterUnanswered(c)
  PROVE  ConsoleInv'
<1> DEFINE created == [upload |-> uploads + 1, revision |-> 1, version |-> C!Latest(versions) + 1]
           s == [console[c] EXCEPT !.draft = created, !.error = FALSE, !.stale = FALSE]
<1>1. /\ console[c] \in Shown /\ versions \in Seq(Nat) /\ snapshots \in Seq(Nat)
      /\ uploads \in Nat /\ failures \in Nat
      /\ failures = 0 => ToolsFollow(console[c], versions)
      /\ c \in unanswered => Overtaken(console[c], versions)
  BY ConsoleFacts
<1>2. created \in [upload : Nat, revision : Nat, version : Nat]
  BY <1>1, LatestType
<1>3. /\ draft' = created /\ uploads' = uploads + 1 /\ console[c].step = "idle"
      /\ versions' = versions /\ snapshots' = snapshots
  BY DEF C!Register, C!RegisterUnanswered, C!Click
<1> HIDE DEF created
<1>0. uploads' \in Nat /\ draft' \in [upload : Nat, revision : Nat, version : Nat]
  BY <1>1, <1>2, <1>3
<1>4. CASE C!Register(c)
  <2>1. console' = [console EXCEPT ![c] = s] /\ unanswered' = unanswered \ {c} /\ failures' = failures
    BY <1>4 DEF C!Register, C!Shows, created
  <2>2. s \in Shown /\ s.step = console[c].step /\ s.versions = console[c].versions /\ s.tools = console[c].tools
    BY <1>1, <1>2 DEF Shown
  <2> HIDE DEF s
  <2>3. failures' = 0 => ToolsFollow(s, versions')
    BY <1>1, <1>3, <2>1, <2>2 DEF ToolsFollow
  <2>. QED  BY <1>0, <1>1, <1>3, <2>1, <2>2, <2>3, ConsoleStep
<1>5. CASE C!RegisterUnanswered(c)
  <2>1. /\ console' = [console EXCEPT ![c] = Ended(console[c], FALSE)]
        /\ unanswered' = unanswered /\ failures' = failures + 1
    BY <1>5 DEF C!RegisterUnanswered, C!Refused, C!Shows, Ended, C!Fails
  <2>2. /\ Ended(console[c], FALSE) \in Shown
        /\ c \in unanswered' => Overtaken(Ended(console[c], FALSE), versions')
    BY <1>1, <1>3, <2>1, EndedFit
  <2>3. failures' \in Nat /\ failures' # 0
    BY <1>1, <2>1
  <2>. QED  BY <1>0, <1>1, <1>3, <2>1, <2>2, <2>3, ConsoleStep
<1>. QED  BY <1>4, <1>5

(* ApplyReview, answered or not, raises the revision, or is refused. *)
LEMMA ReviewInv ==
  ASSUME ConsoleInv, NEW c \in Consoles, C!ApplyReview(c) \/ C!ReviewUnanswered(c)
  PROVE  ConsoleInv'
<1> DEFINE s == [console[c] EXCEPT !.draft = draft', !.error = FALSE, !.stale = FALSE]
<1>1. /\ console[c] \in Shown /\ versions \in Seq(Nat) /\ snapshots \in Seq(Nat)
      /\ uploads \in Nat /\ failures \in Nat /\ draft \in [upload : Nat, revision : Nat, version : Nat]
      /\ failures = 0 => ToolsFollow(console[c], versions)
      /\ c \in unanswered => Overtaken(console[c], versions)
  BY ConsoleFacts
<1>2. /\ console[c].step = "idle" /\ versions' = versions /\ snapshots' = snapshots /\ uploads' = uploads
      /\ draft' = draft \/ draft' = [draft EXCEPT !.revision = @ + 1]
  BY DEF C!ApplyReview, C!ReviewUnanswered, C!Click
<1>3. draft' \in [upload : Nat, revision : Nat, version : Nat]
  <2>1. \A d \in [upload : Nat, revision : Nat, version : Nat] :
           [d EXCEPT !.revision = @ + 1] \in [upload : Nat, revision : Nat, version : Nat]
    OBVIOUS
  <2>2. draft \in [upload : Nat, revision : Nat, version : Nat]
    BY <1>1
  <2>3. draft' = draft \/ draft' = [draft EXCEPT !.revision = @ + 1]
    BY <1>2
  <2> HIDE DEF s
  <2>. QED  BY <2>1, <2>2, <2>3
<1>4. CASE C!ApplyReview(c) /\ C!Current(c)
  <2>1. console' = [console EXCEPT ![c] = s] /\ unanswered' = unanswered \ {c} /\ failures' = failures
    BY <1>4 DEF C!ApplyReview, C!Shows
  <2>2. s \in Shown /\ s.step = console[c].step /\ s.versions = console[c].versions /\ s.tools = console[c].tools
    BY <1>1, <1>3 DEF Shown
  <2> HIDE DEF s
  <2>3. failures' = 0 => ToolsFollow(s, versions')
    BY <1>1, <1>2, <2>1, <2>2 DEF ToolsFollow
  <2>. QED  BY <1>1, <1>2, <1>3, <2>1, <2>2, <2>3, ConsoleStep
<1>5. CASE C!ApplyReview(c) /\ ~C!Current(c)
  <2> DEFINE conflict == draft # C!NoDraft
             t == Ended(console[c], conflict)
  <2>1. console' = [console EXCEPT ![c] = t] /\ unanswered' = unanswered /\ failures' = failures
    BY <1>5 DEF C!ApplyReview, C!Refused, C!Shows, Ended
  <2>2. conflict \in BOOLEAN
    OBVIOUS
  <2> HIDE DEF conflict
  <2>3. /\ t \in Shown
        /\ failures' = 0 => ToolsFollow(t, versions')
        /\ c \in unanswered' => Overtaken(t, versions')
    BY <1>1, <1>2, <2>1, <2>2, EndedFit
  <2> HIDE DEF t
  <2>. QED  BY <1>1, <1>2, <1>3, <2>1, <2>3, ConsoleStep
<1>6. CASE C!ReviewUnanswered(c)
  <2>1. /\ console' = [console EXCEPT ![c] = Ended(console[c], FALSE)]
        /\ unanswered' = unanswered /\ failures' = failures + 1
    BY <1>6 DEF C!ReviewUnanswered, C!Refused, C!Shows, Ended, C!Fails
  <2>2. /\ Ended(console[c], FALSE) \in Shown
        /\ c \in unanswered' => Overtaken(Ended(console[c], FALSE), versions')
    BY <1>1, <1>2, <2>1, EndedFit
  <2>3. failures' \in Nat /\ failures' # 0
    BY <1>1, <2>1
  <2>. QED  BY <1>1, <1>2, <1>3, <2>1, <2>2, <2>3, ConsoleStep
<1>. QED  BY <1>4, <1>5, <1>6

(* Publish, answered or not, adds the version that is shown, or is refused. *)
LEMMA PublishInv ==
  ASSUME ConsoleInv, NEW c \in Consoles, C!Publish(c) \/ C!PublishUnanswered(c)
  PROVE  ConsoleInv'
<1> DEFINE v == console[c].draft.version
<1>1. /\ console[c] \in Shown /\ versions \in Seq(Nat) /\ snapshots \in Seq(Nat)
      /\ uploads \in Nat /\ failures \in Nat /\ draft \in [upload : Nat, revision : Nat, version : Nat]
      /\ failures = 0 => ToolsFollow(console[c], versions)
      /\ c \in unanswered => Overtaken(console[c], versions)
  BY ConsoleFacts
<1>2. v \in Nat /\ C!NoDraft \in [upload : Nat, revision : Nat, version : Nat]
  BY <1>1 DEF Shown, C!NoDraft
<1>3. console[c].step = "idle" /\ snapshots' = snapshots /\ uploads' = uploads
  BY DEF C!Publish, C!PublishUnanswered, C!Click
<1> HIDE DEF v
<1>4. CASE C!Publish(c) /\ C!Publishable(c)
  <2> DEFINE s == [console[c] EXCEPT !.draft = C!NoDraft, !.step = "list", !.error = FALSE, !.stale = FALSE]
  <2>1. /\ console' = [console EXCEPT ![c] = s] /\ unanswered' = unanswered /\ failures' = failures
        /\ draft' = C!NoDraft /\ versions' = Append(versions, v)
    BY <1>4 DEF C!Publish, C!Shows, C!Proposed, v
  <2>2. c \notin unanswered'
    BY <1>1, <1>4, <2>1, OvertakenIsRefused
  <2>3. s \in Shown /\ s.step = "list" /\ s.versions = console[c].versions /\ s.tools = console[c].tools
    BY <1>1, <1>2 DEF Shown, Steps
  <2> HIDE DEF s
  <2>4. versions' # <<>>
    <3>1. \A list \in Seq(Nat), n \in Nat : Append(list, n) # <<>>
      OBVIOUS
    <3>. QED  BY <1>1, <1>2, <2>1, <3>1, Zenon
  <2>5. failures' = 0 => ToolsFollow(s, versions')
    BY <1>1, <1>3, <2>1, <2>3, <2>4 DEF ToolsFollow
  <2>. QED  BY <1>1, <1>2, <1>3, <2>1, <2>2, <2>3, <2>5, ConsoleStep
<1>5. CASE C!Publish(c) /\ ~C!Publishable(c)
  <2> DEFINE conflict == draft # C!NoDraft /\ ~C!Current(c)
             t == Ended(console[c], conflict)
  <2>1. /\ console' = [console EXCEPT ![c] = t] /\ unanswered' = unanswered /\ failures' = failures
        /\ draft' = draft /\ versions' = versions
    BY <1>5 DEF C!Publish, C!Refused, C!Shows, Ended
  <2>2. conflict \in BOOLEAN
    OBVIOUS
  <2> HIDE DEF conflict
  <2>3. /\ t \in Shown
        /\ failures' = 0 => ToolsFollow(t, versions')
        /\ c \in unanswered' => Overtaken(t, versions')
    BY <1>1, <1>3, <2>1, <2>2, EndedFit
  <2> HIDE DEF t
  <2>. QED  BY <1>1, <1>2, <1>3, <2>1, <2>3, ConsoleStep
<1>6. CASE C!PublishUnanswered(c)
  <2> DEFINE t == Ended(console[c], FALSE)
  <2>1. /\ console' = [console EXCEPT ![c] = t] /\ unanswered' = unanswered \cup {c}
        /\ failures' = failures + 1 /\ draft' = C!NoDraft /\ versions' = Append(versions, v)
    BY <1>6 DEF C!PublishUnanswered, C!Refused, C!Shows, Ended, C!Fails, C!Proposed, v
  <2>2. t \in Shown /\ t.draft = console[c].draft
    BY <1>1, EndedFit
  <2>3. Overtaken(t, versions')
    <3>1. Len(versions) + 1 \in DOMAIN versions' /\ versions'[Len(versions) + 1] = v
      BY <1>1, <1>2, <2>1
    <3>2. ~(v > v)
      BY <1>2
    <3>. QED  BY <2>2, <3>1, <3>2 DEF Overtaken, v
  <2>4. failures' \in Nat /\ failures' # 0
    BY <1>1, <2>1
  <2> HIDE DEF t
  <2>. QED  BY <1>1, <1>2, <1>3, <2>1, <2>2, <2>3, <2>4, ConsoleStep
<1>. QED  BY <1>4, <1>5, <1>6

(* Deploy, answered or not, adds a snapshot of the newest version shown. *)
LEMMA DeployInv ==
  ASSUME ConsoleInv, NEW c \in Consoles, C!Deploy(c) \/ C!DeployUnanswered(c)
  PROVE  ConsoleInv'
<1>1. /\ console[c] \in Shown /\ versions \in Seq(Nat) /\ snapshots \in Seq(Nat)
      /\ uploads \in Nat /\ failures \in Nat /\ draft \in [upload : Nat, revision : Nat, version : Nat]
      /\ failures = 0 => ToolsFollow(console[c], versions)
      /\ c \in unanswered => Overtaken(console[c], versions)
  BY ConsoleFacts
<1>2. /\ console[c].step = "idle" /\ console[c].versions # <<>> /\ versions' = versions /\ uploads' = uploads
      /\ draft' = draft /\ unanswered' = unanswered
      /\ snapshots' = Append(snapshots, C!Last(console[c].versions))
  BY DEF C!Deploy, C!DeployUnanswered, C!Click
<1>3. snapshots' \in Seq(Nat)
  <2>1. console[c].versions \in Seq(Nat)
    BY <1>1 DEF Shown
  <2>2. C!Last(console[c].versions) \in Nat
    BY <1>2, <2>1 DEF C!Last
  <2>. QED  BY <1>1, <1>2, <2>2
<1>4. CASE C!Deploy(c)
  <2> DEFINE s == [console[c] EXCEPT !.step = "deployments", !.error = FALSE]
  <2>1. console' = [console EXCEPT ![c] = s] /\ failures' = failures
    BY <1>4 DEF C!Deploy, C!Shows
  <2>2. /\ s \in Shown /\ s.step = "deployments" /\ s.versions = console[c].versions
        /\ s.tools = console[c].tools /\ s.draft = console[c].draft
    BY <1>1 DEF Shown, Steps
  <2> HIDE DEF s
  <2>3. failures' = 0 => ToolsFollow(s, versions')
    BY <1>1, <1>2, <2>1, <2>2 DEF ToolsFollow
  <2>4. c \in unanswered' => Overtaken(s, versions')
    BY <1>1, <1>2, <2>2 DEF Overtaken
  <2>. QED  BY <1>1, <1>2, <1>3, <2>1, <2>2, <2>3, <2>4, ConsoleStep
<1>5. CASE C!DeployUnanswered(c)
  <2>1. /\ console' = [console EXCEPT ![c] = Ended(console[c], FALSE)] /\ failures' = failures + 1
    BY <1>5 DEF C!DeployUnanswered, C!Refused, C!Shows, Ended, C!Fails
  <2>2. /\ Ended(console[c], FALSE) \in Shown
        /\ c \in unanswered' => Overtaken(Ended(console[c], FALSE), versions')
    BY <1>1, <1>2, EndedFit
  <2>3. failures' \in Nat /\ failures' # 0
    BY <1>1, <2>1
  <2>. QED  BY <1>1, <1>2, <1>3, <2>1, <2>2, <2>3, ConsoleStep
<1>. QED  BY <1>4, <1>5

(* A request that only reads changes what its console shows. *)
LEMMA ReadStep ==
  ASSUME ConsoleInv, NEW c \in Consoles, NEW s \in Shown, console' = [console EXCEPT ![c] = s],
         s.draft = console[c].draft, failures = 0 => ToolsFollow(s, versions),
         UNCHANGED <<draft, versions, snapshots, uploads, failures, unanswered>>
  PROVE  ConsoleInv'
<1>1. /\ console[c] \in Shown /\ versions \in Seq(Nat) /\ snapshots \in Seq(Nat)
      /\ uploads \in Nat /\ failures \in Nat /\ draft \in [upload : Nat, revision : Nat, version : Nat]
      /\ c \in unanswered => Overtaken(console[c], versions)
  BY ConsoleFacts
<1>2. c \in unanswered => Overtaken(s, versions)
  BY <1>1 DEF Overtaken
<1>3. /\ draft' = draft /\ versions' = versions /\ snapshots' = snapshots
      /\ uploads' = uploads /\ failures' = failures /\ unanswered' = unanswered
  OBVIOUS
<1>. QED  BY <1>1, <1>2, <1>3, ConsoleStep

(* The requests of a run that only read, one after the other. *)
LEMMA ReadsInv ==
  ASSUME ConsoleInv, NEW c \in Consoles,
         \/ C!Refresh(c) \/ C!Mount(c) \/ C!LoadList(c) \/ C!LoadDocument(c)
         \/ C!LoadDeployments(c) \/ C!LoadSnapshots(c)
  PROVE  ConsoleInv'
<1>1. /\ console[c] \in Shown /\ versions \in Seq(Nat) /\ snapshots \in Seq(Nat)
      /\ failures = 0 => ToolsFollow(console[c], versions)
  BY ConsoleFacts
<1>2. UNCHANGED <<draft, versions, snapshots, uploads, failures, unanswered>>
  BY DEF C!Refresh, C!Mount, C!LoadList, C!LoadDocument, C!LoadDeployments, C!LoadSnapshots, C!server
<1>3. CASE C!Refresh(c)
  <2> DEFINE s == [console[c] EXCEPT !.step = "list", !.error = FALSE]
  <2>1. console' = [console EXCEPT ![c] = s] /\ console[c].step = "idle"
    BY <1>3 DEF C!Refresh, C!Shows, C!Click
  <2>2. /\ s \in Shown /\ s.step = "list" /\ s.versions = console[c].versions
        /\ s.tools = console[c].tools /\ s.draft = console[c].draft
    BY <1>1 DEF Shown, Steps
  <2> HIDE DEF s
  <2>3. failures = 0 => ToolsFollow(s, versions)
    BY <1>1, <2>1, <2>2 DEF ToolsFollow
  <2>. QED  BY <1>2, <2>1, <2>2, <2>3, ReadStep
<1>4. CASE C!Mount(c)
  <2> DEFINE step == IF versions = <<>> THEN "deployments" ELSE "list"
             s == [console[c] EXCEPT !.step = step]
  <2>1. console' = [console EXCEPT ![c] = s] /\ console[c].step = "mount"
    BY <1>4 DEF C!Mount, C!Shows
  <2>2. step \in Steps /\ step # "document"
    BY DEF Steps
  <2> HIDE DEF step
  <2>3. /\ s \in Shown /\ s.step = step /\ s.versions = console[c].versions
        /\ s.tools = console[c].tools /\ s.draft = console[c].draft
    BY <1>1, <2>2 DEF Shown
  <2> HIDE DEF s
  <2>4. failures = 0 => ToolsFollow(s, versions)
    BY <1>1, <2>1, <2>2, <2>3 DEF ToolsFollow
  <2>. QED  BY <1>2, <2>1, <2>3, <2>4, ReadStep
<1>5. CASE C!LoadList(c)
  <2> DEFINE step == IF versions = <<>> THEN C!AfterVersions(c) ELSE "document"
             s == [console[c] EXCEPT !.versions = versions, !.step = step]
  <2>1. console' = [console EXCEPT ![c] = s] /\ console[c].step = "list"
    BY <1>5 DEF C!LoadList, C!Shows
  <2>2. step \in Steps /\ (step = "document" <=> versions # <<>>)
    BY DEF Steps, C!AfterVersions
  <2> HIDE DEF step
  <2>3. /\ s \in Shown /\ s.step = step /\ s.versions = versions
        /\ s.tools = console[c].tools /\ s.draft = console[c].draft
    BY <1>1, <2>2 DEF Shown
  <2> HIDE DEF s
  <2>4. failures = 0 => ToolsFollow(s, versions)
    <3>1. failures = 0 /\ versions = <<>> => console[c].versions = <<>> /\ console[c].tools = C!Latest(<<>>)
      BY <1>1, <2>1 DEF ToolsFollow
    <3>. QED  BY <2>2, <2>3, <3>1 DEF ToolsFollow
  <2>. QED  BY <1>2, <2>1, <2>3, <2>4, ReadStep
<1>6. CASE C!LoadDocument(c)
  <2> DEFINE step == C!AfterVersions(c)
             tools == C!Last(console[c].versions)
             s == [console[c] EXCEPT !.tools = tools, !.step = step]
  <2>1. console' = [console EXCEPT ![c] = s] /\ console[c].step = "document"
    BY <1>6 DEF C!LoadDocument, C!Shows
  <2>2. step \in Steps /\ step # "document"
    BY DEF Steps, C!AfterVersions
  <2>3. tools = C!Latest(console[c].versions) /\ tools \in Nat
    <3>1. console[c].versions \in Seq(Nat) /\ console[c].versions # <<>>
      BY <1>1, <2>1 DEF Shown
    <3>2. tools = C!Latest(console[c].versions)
      BY <3>1 DEF C!Latest
    <3>. QED  BY <3>1, <3>2, LatestType
  <2> HIDE DEF tools, step
  <2>4. /\ s \in Shown /\ s.step = step /\ s.versions = console[c].versions
        /\ s.tools = tools /\ s.draft = console[c].draft
    BY <1>1, <2>2, <2>3 DEF Shown
  <2> HIDE DEF s
  <2>5. failures = 0 => ToolsFollow(s, versions)
    BY <1>1, <2>1, <2>2, <2>3, <2>4 DEF ToolsFollow
  <2>. QED  BY <1>2, <2>1, <2>4, <2>5, ReadStep
<1>7. CASE C!LoadDeployments(c)
  <2> DEFINE s == [console[c] EXCEPT !.step = "snapshots"]
  <2>1. console' = [console EXCEPT ![c] = s] /\ console[c].step = "deployments"
    BY <1>7 DEF C!LoadDeployments, C!Shows
  <2>2. /\ s \in Shown /\ s.step = "snapshots" /\ s.versions = console[c].versions
        /\ s.tools = console[c].tools /\ s.draft = console[c].draft
    BY <1>1 DEF Shown, Steps
  <2> HIDE DEF s
  <2>3. failures = 0 => ToolsFollow(s, versions)
    BY <1>1, <2>1, <2>2 DEF ToolsFollow
  <2>. QED  BY <1>2, <2>1, <2>2, <2>3, ReadStep
<1>8. CASE C!LoadSnapshots(c)
  <2> DEFINE s == [console[c] EXCEPT !.snapshots = snapshots, !.step = "idle", !.mounting = FALSE]
  <2>1. console' = [console EXCEPT ![c] = s] /\ console[c].step = "snapshots"
    BY <1>8 DEF C!LoadSnapshots, C!Shows
  <2>2. /\ s \in Shown /\ s.step = "idle" /\ s.versions = console[c].versions
        /\ s.tools = console[c].tools /\ s.draft = console[c].draft
    BY <1>1 DEF Shown, Steps
  <2> HIDE DEF s
  <2>3. failures = 0 => ToolsFollow(s, versions)
    BY <1>1, <2>1, <2>2 DEF ToolsFollow
  <2>. QED  BY <1>2, <2>1, <2>2, <2>3, ReadStep
<1>. QED  BY <1>3, <1>4, <1>5, <1>6, <1>7, <1>8

(* A request that goes unanswered ends its run. *)
LEMMA ReadUnansweredInv ==
  ASSUME ConsoleInv, NEW c \in Consoles, C!ReadUnanswered(c)
  PROVE  ConsoleInv'
<1>1. /\ console[c] \in Shown /\ versions \in Seq(Nat) /\ snapshots \in Seq(Nat)
      /\ uploads \in Nat /\ failures \in Nat /\ draft \in [upload : Nat, revision : Nat, version : Nat]
      /\ c \in unanswered => Overtaken(console[c], versions)
  BY ConsoleFacts
<1>2. /\ console' = [console EXCEPT ![c] = Ended(console[c], FALSE)] /\ failures' = failures + 1
      /\ draft' = draft /\ versions' = versions /\ snapshots' = snapshots /\ uploads' = uploads
      /\ unanswered' = unanswered
  BY DEF C!ReadUnanswered, C!Refused, C!Shows, Ended, C!Fails, C!server
<1>3. /\ Ended(console[c], FALSE) \in Shown
      /\ c \in unanswered' => Overtaken(Ended(console[c], FALSE), versions')
  BY <1>1, <1>2, EndedFit
<1>4. failures' \in Nat /\ failures' # 0
  BY <1>1, <1>2
<1>. QED  BY <1>1, <1>2, <1>3, <1>4, ConsoleStep

(* A request of the mount effect that goes unanswered and is caught. *)
LEMMA MountCaughtInv ==
  ASSUME ConsoleInv, NEW c \in Consoles, C!MountCaught(c)
  PROVE  ConsoleInv'
<1>1. /\ console[c] \in Shown /\ versions \in Seq(Nat) /\ snapshots \in Seq(Nat)
      /\ uploads \in Nat /\ failures \in Nat /\ draft \in [upload : Nat, revision : Nat, version : Nat]
      /\ c \in unanswered => Overtaken(console[c], versions)
  BY ConsoleFacts
<1>2. /\ failures' = failures + 1
      /\ draft' = draft /\ versions' = versions /\ snapshots' = snapshots /\ uploads' = uploads
      /\ unanswered' = unanswered
  BY DEF C!MountCaught, C!Fails, C!server
<1>3. failures' \in Nat /\ failures' # 0
  BY <1>1, <1>2
<1>4. PICK s \in {[console[c] EXCEPT !.step = "deployments"],
                  [console[c] EXCEPT !.snapshots = <<>>, !.step = "idle", !.mounting = FALSE]} :
        console' = [console EXCEPT ![c] = s]
  BY DEF C!MountCaught, C!Shows
<1>5. s \in Shown /\ s.draft = console[c].draft
  <2>1. <<>> \in Seq(Nat) /\ {"deployments", "idle"} \subseteq Steps
    BY DEF Steps
  <2>2. CASE s = [console[c] EXCEPT !.step = "deployments"]
    BY <1>1, <2>1, <2>2 DEF Shown
  <2>3. CASE s = [console[c] EXCEPT !.snapshots = <<>>, !.step = "idle", !.mounting = FALSE]
    BY <1>1, <2>1, <2>3 DEF Shown
  <2>. QED  BY <1>4, <2>2, <2>3
<1>6. c \in unanswered' => Overtaken(s, versions')
  BY <1>1, <1>2, <1>5 DEF Overtaken
<1>. QED  BY <1>1, <1>2, <1>3, <1>4, <1>5, <1>6, ConsoleStep

(* Every step keeps the invariant of the consoles. *)
LEMMA ConsoleNext == ConsoleInv /\ [C!Next]_(C!vars) => ConsoleInv'
<1> SUFFICES ASSUME ConsoleInv, [C!Next]_(C!vars) PROVE ConsoleInv'
  OBVIOUS
<1>1. CASE UNCHANGED C!vars
  BY <1>1 DEF C!vars, ConsoleInv, ConsoleTypes
<1>2. ASSUME NEW c \in Consoles,
             \/ C!Register(c) \/ C!ApplyReview(c) \/ C!Publish(c) \/ C!Refresh(c) \/ C!Mount(c)
             \/ C!LoadList(c) \/ C!LoadDocument(c) \/ C!Deploy(c) \/ C!LoadDeployments(c)
             \/ C!LoadSnapshots(c) \/ C!PublishUnanswered(c) \/ C!ReviewUnanswered(c)
             \/ C!RegisterUnanswered(c) \/ C!DeployUnanswered(c) \/ C!ReadUnanswered(c)
             \/ C!MountCaught(c)
      PROVE  ConsoleInv'
  BY <1>2, RegisterInv, ReviewInv, PublishInv, DeployInv, ReadsInv, ReadUnansweredInv,
     MountCaughtInv
<1>. QED  BY <1>1, <1>2 DEF C!Next

(* The invariant of the consoles holds in every reachable state. *)
LEMMA ConsoleInvHolds == C!Spec => []ConsoleInv
BY ConsoleInit, ConsoleNext, PTL DEF C!Spec

(* Whatever other consoles publish between the two requests of             *)
(* loadVersions, an idle console to which no request failed shows the      *)
(* tools of the newest version that it lists (App.tsx:104).                *)
LEMMA NewestShown == C!Spec => []C!ToolsOfNewest
<1>1. ConsoleInv => C!ToolsOfNewest
  BY DEF ConsoleInv, ToolsFollow, C!ToolsOfNewest
<1>. QED  BY <1>1, ConsoleInvHolds, PTL

(* A publication that took effect without an answer is not repeated by the *)
(* console that sends it again, whatever was registered, reviewed or       *)
(* published in between (App.tsx:165).                                     *)
LEMMA RetriesIdle == C!Spec => C!RetryPublishesNothing
<1>1. ConsoleInv /\ [C!Next]_(C!vars) => [C!RetryIsIdle]_(C!vars)
  <2> SUFFICES ASSUME ConsoleInv, [C!Next]_(C!vars), NEW c \in Consoles,
                      c \in unanswered, console'[c] # console[c], c \in unanswered'
               PROVE  versions' = versions
    BY DEF C!RetryIsIdle
  <2>1. ~C!Publishable(c)
    BY OvertakenIsRefused DEF ConsoleInv
  <2>2. console \in [Consoles -> Shown]
    BY DEF ConsoleInv, ConsoleTypes
  <2>3. CASE UNCHANGED C!vars
    BY <2>3 DEF C!vars
  <2>4. CASE C!Next
    <3>1. PICK d \in Consoles :
            \/ C!Register(d) \/ C!ApplyReview(d) \/ C!Publish(d) \/ C!Refresh(d) \/ C!Mount(d)
            \/ C!LoadList(d) \/ C!LoadDocument(d) \/ C!Deploy(d) \/ C!LoadDeployments(d)
            \/ C!LoadSnapshots(d) \/ C!PublishUnanswered(d) \/ C!ReviewUnanswered(d)
            \/ C!RegisterUnanswered(d) \/ C!DeployUnanswered(d) \/ C!ReadUnanswered(d)
            \/ C!MountCaught(d)
      BY <2>4, Zenon DEF C!Next
    <3>2. \E s : console' = [console EXCEPT ![d] = s]
      BY <3>1, Zenon DEF C!Register, C!ApplyReview, C!Publish, C!Refresh, C!Mount, C!LoadList, C!LoadDocument,
            C!Deploy, C!LoadDeployments, C!LoadSnapshots, C!PublishUnanswered, C!ReviewUnanswered,
            C!RegisterUnanswered, C!DeployUnanswered, C!ReadUnanswered, C!MountCaught,
            C!Shows, C!Refused
    <3>3. d = c
      BY <2>2, <3>2
    <3>4. CASE C!Publish(c) \/ C!PublishUnanswered(c)
      BY <2>1, <3>4 DEF C!Publish, C!PublishUnanswered
    <3>5. CASE ~(C!Publish(d) \/ C!PublishUnanswered(d))
      BY <3>1, <3>5 DEF C!Register, C!ApplyReview, C!Refresh, C!Mount, C!LoadList, C!LoadDocument,
            C!Deploy, C!LoadDeployments, C!LoadSnapshots, C!ReviewUnanswered,
            C!RegisterUnanswered, C!DeployUnanswered, C!ReadUnanswered, C!MountCaught, C!server
    <3>. QED  BY <3>3, <3>4, <3>5
  <2>. QED  BY <2>3, <2>4
<1>. QED  BY <1>1, ConsoleInvHolds, PTL DEF C!Spec, C!RetryPublishesNothing

-----------------------------------------------------------------------------
(* Destinations. *)

(* The settings are those of from_origins, for entries that all parse. *)
OriginsListed ==
  \E entries \in SUBSET Entries :
    D!Admitted(entries) /\ policy.origins = {D!NormalizeOrigin(e) : e \in entries}

(* Between the check and the connection the name keeps its addresses, and  *)
(* all of them are admitted.                                               *)
CheckedHolds ==
  request.pc = "checked" =>
    /\ request.url \in Urls
    /\ D!StructurallyAllowed(request.url)
    /\ \A a \in D!Resolved(request.url.host.name) : D!AddressAdmitted(a)

(* What a name resolves to are addresses. *)
DnsTypes == \A name \in DOMAIN dns : dns[name] \subseteq Addresses

(* The inductive invariant of the destinations. *)
DestinationInv ==
  /\ OriginsListed
  /\ DnsTypes
  /\ CheckedHolds
  /\ D!ContactsAllowed
  /\ D!RefusalsJustified
  /\ D!LookupsListed

(* _check_address admits an address if and only if the one that packets go *)
(* to is acceptable.                                                       *)
LEMMA AddressesAgree ==
  ASSUME NEW a, a.inner = {} \/ \E flags \in a.inner : a.inner = {flags}
  PROVE  D!AddressAdmitted(a) <=> D!Acceptable(a)
<1> DEFINE target == UNION (IF a.inner = {} THEN {a.flags} ELSE a.inner)
           others == {"multicast", "reserved", "unspecified", "link_local"}
           ruledOut == {"loopback", "multicast", "reserved", "unspecified", "link_local"}
<1>1. target = D!Unwrapped(a)
  <2>1. CASE a.inner = {}
    BY <2>1 DEF D!Unwrapped
  <2>2. ASSUME NEW flags \in a.inner, a.inner = {flags} PROVE target = D!Unwrapped(a)
    <3>1. (CHOOSE f \in a.inner : TRUE) = flags
      BY <2>2
    <3>2. UNION {flags} = flags
      OBVIOUS
    <3>. QED  BY <2>2, <3>1, <3>2 DEF D!Unwrapped
  <2>. QED  BY <2>1, <2>2
<1> HIDE DEF target
<1>2. "loopback" \notin target => (others \cap target = {} <=> ruledOut \cap target = {})
  OBVIOUS
<1>3. "loopback" \in target => ruledOut \cap target # {}
  OBVIOUS
<1>4. D!AddressAdmitted(a) <=>
        /\ "unparsed" \notin target
        /\ IF "loopback" \in target THEN policy.loopback
           ELSE others \cap target = {} /\ ("global" \in target \/ policy.private)
  BY <1>1, Zenon DEF D!AddressAdmitted
<1>5. D!Acceptable(a) <=>
        /\ "unparsed" \notin target
        /\ \/ "loopback" \in target /\ policy.loopback
           \/ ruledOut \cap target = {} /\ ("global" \in target \/ policy.private)
  BY Zenon DEF D!Acceptable, target
<1> HIDE DEF others, ruledOut
<1>. QED  BY <1>2, <1>3, <1>4, <1>5

(* normalize_origin and the split of a URL give two authorities the same   *)
(* origin if and only if a client would open the same connection for them. *)
LEMMA OriginsAgree ==
  ASSUME NEW e \in D!Authority, NEW u \in D!Authority, e.port >= D!Unwritten, u.port >= D!Unwritten,
         D!Parses(u), D!OriginParses(e)
  PROVE  D!NormalizeOrigin(e) = D!OriginOf(D!SplitAuthority(u)) <=> D!Denotes(e, u)
<1> DEFINE scheme == IF e.scheme = "" THEN "https" ELSE e.scheme
           Own(s) == IF s = "http" THEN 80 ELSE 443
           eport == IF e.port \in {-1, 0} THEN Own(scheme) ELSE e.port
           uport == IF u.port \in {-1, 0} THEN Own(u.scheme) ELSE u.port
           Port(x) == IF x.port > 0 THEN x.port ELSE IF scheme = "https" THEN 443 ELSE 80
<1>1. e.port \in Int /\ e.port >= -1 /\ u.port \in Int /\ u.port >= -1
  BY DEF D!Authority, D!Unwritten
<1>2. /\ D!WithScheme(e).scheme = scheme /\ D!WithScheme(e).host = e.host
      /\ D!WithScheme(e).port = e.port
  BY DEF D!WithScheme, D!Authority
<1>3. scheme \in {"http", "https"} /\ u.scheme \in {"http", "https"}
  BY <1>2 DEF D!Parses, D!OriginParses
<1>4. D!NormalizeOrigin(e) = <<scheme, e.host.name, eport>>
  <2> DEFINE w == D!WithScheme(e)
  <2>1. D!NormalizeOrigin(e) = D!OriginOf(D!SplitAuthority(w))
    BY DEF D!NormalizeOrigin
  <2> HIDE DEF w
  <2>2. D!OriginOf(D!SplitAuthority(w)) =
          <<w.scheme, w.host.name, IF w.port \in {-1, 0} THEN Own(w.scheme) ELSE w.port>>
    BY DEF D!OriginOf, D!SplitAuthority, D!HostName, D!DefaultPort, D!Unwritten
  <2>3. w.scheme = scheme /\ w.host = e.host /\ w.port = e.port
    BY <1>2 DEF w
  <2> HIDE DEF scheme, Own
  <2>. QED  BY <2>1, <2>2, <2>3
<1>5. D!OriginOf(D!SplitAuthority(u)) = <<u.scheme, u.host.name, uport>>
  BY DEF D!OriginOf, D!SplitAuthority, D!HostName, D!DefaultPort, D!Unwritten
<1>6. D!Denotes(e, u) <=> scheme = u.scheme /\ e.host.name = u.host.name /\ Port(e) = Port(u)
  BY DEF D!Denotes
<1>7. eport = Port(e) /\ (scheme = u.scheme => uport = Port(u))
  <2>1. (e.port \in {-1, 0} <=> ~(e.port > 0)) /\ (u.port \in {-1, 0} <=> ~(u.port > 0))
    BY <1>1
  <2>2. \A s \in {"http", "https"} : Own(s) = IF s = "https" THEN 443 ELSE 80
    OBVIOUS
  <2> HIDE DEF Own, scheme
  <2>. QED  BY <1>3, <2>1, <2>2
<1> HIDE DEF scheme, eport, uport, Port
<1>. QED  BY <1>4, <1>5, <1>6, <1>7

(* The allowlist lookup of check is the question whether a URL is listed. *)
LEMMA ListedAgree ==
  ASSUME D!DestinationAssumption, OriginsListed, NEW u \in Urls, D!Parses(u)
  PROVE  D!OriginOf(D!SplitAuthority(u)) \in policy.origins <=> D!Listed(u)
<1>1. \A x \in Urls \cup Entries : x \in D!Authority /\ x.port >= D!Unwritten
  BY DEF D!DestinationAssumption
<1>2. ASSUME D!OriginOf(D!SplitAuthority(u)) \in policy.origins
      PROVE  D!Listed(u)
  <2>1. PICK e \in Entries : D!OriginParses(e) /\ D!NormalizeOrigin(e) = D!OriginOf(D!SplitAuthority(u))
    BY <1>2 DEF OriginsListed, D!Admitted
  <2>2. D!Denotes(e, u)
    BY <1>1, <2>1, OriginsAgree
  <2>. QED  BY <1>2, <2>1, <2>2 DEF D!Listed
<1>3. ASSUME D!Listed(u)
      PROVE  D!OriginOf(D!SplitAuthority(u)) \in policy.origins
  <2>1. PICK e \in Entries : D!Denotes(e, u) /\ D!NormalizeOrigin(e) \in policy.origins /\ D!OriginParses(e)
    BY <1>3 DEF D!Listed
  <2>2. D!NormalizeOrigin(e) = D!OriginOf(D!SplitAuthority(u))
    BY <1>1, <2>1, OriginsAgree
  <2>. QED  BY <2>1, <2>2
<1>. QED  BY <1>2, <1>3

(* What a name or a literal resolves to is an address of one meaning. *)
LEMMA ResolvedAddresses ==
  ASSUME D!DestinationAssumption, DnsTypes, NEW name, NEW a \in D!Resolved(name)
  PROVE  a.inner = {} \/ \E flags \in a.inner : a.inner = {flags}
<1>1. a \in Addresses \cup {Literals[n] : n \in DOMAIN Literals}
  <2>1. CASE name \in DOMAIN Literals
    BY <2>1 DEF D!Resolved
  <2>2. CASE name \notin DOMAIN Literals
    BY <2>2 DEF D!Resolved, DnsTypes
  <2>. QED  BY <2>1, <2>2
<1>. QED  BY <1>1 DEF D!DestinationAssumption

(* The settings are read, nothing has been asked for. *)
LEMMA DestinationInit == D!Init => DestinationInv
<1> SUFFICES ASSUME D!Init PROVE DestinationInv
  OBVIOUS
<1>1. OriginsListed
  <2>1. PICK entries \in SUBSET Entries, methods \in SUBSET Methods,
             http \in BOOLEAN, loopback \in BOOLEAN, private \in BOOLEAN :
          D!Admitted(entries) /\ policy = D!FromOrigins(entries, methods, http, loopback, private)
    BY Zenon DEF D!Init
  <2>2. policy.origins = {D!NormalizeOrigin(e) : e \in entries}
    BY <2>1 DEF D!FromOrigins
  <2>. QED  BY <2>1, <2>2 DEF OriginsListed
<1>2. DnsTypes
  <2> DEFINE hosts == Names \ ({""} \cup DOMAIN Literals)
             some == {{}} \cup {{a} : a \in Addresses}
  <2>1. dns \in [hosts -> some]
    BY DEF D!Init
  <2>2. \A set \in some : set \subseteq Addresses
    OBVIOUS
  <2> HIDE DEF hosts, some
  <2>. QED  BY <2>1, <2>2 DEF DnsTypes
<1>3. request.pc = "idle" /\ lookups = {}
  BY DEF D!Init, D!NoRequest
<1>. QED  BY <1>1, <1>2, <1>3 DEF DestinationInv, CheckedHolds, D!ContactsAllowed, D!RefusalsJustified,
                                  D!LookupsListed

(* Check decides a request, and asks for a name only if it is listed. *)
LEMMA CheckInv ==
  ASSUME D!DestinationAssumption, DestinationInv, NEW u \in Urls, NEW m \in Methods, D!Check(u, m)
  PROVE  DestinationInv'
<1> DEFINE name == u.host.name
           asked == m \in policy.methods /\ D!StructurallyAllowed(u) /\ name \notin DOMAIN Literals
           passed == /\ m \in policy.methods
                     /\ D!StructurallyAllowed(u)
                     /\ D!Resolved(name) # {}
                     /\ \A a \in D!Resolved(name) : D!AddressAdmitted(a)
           pc == IF passed THEN "checked" ELSE "refused"
<1>1. /\ lookups' = IF asked THEN lookups \cup {name} ELSE lookups
      /\ request' = [pc |-> pc, url |-> u, method |-> m, there |-> D!Resolved(name)]
      /\ policy' = policy /\ dns' = dns
  BY DEF D!Check, D!HostName, D!LookedUp
<1>2. OriginsListed' /\ DnsTypes'
  BY <1>1 DEF DestinationInv, OriginsListed, DnsTypes
<1>3. pc = "checked" <=> passed
  OBVIOUS
<1>4. pc \in {"checked", "refused"}
  OBVIOUS
<1>5. asked => D!OriginOf(D!SplitAuthority(u)) \in policy.origins
  BY DEF D!StructurallyAllowed
<1> HIDE DEF pc, passed, asked
<1>6. request'.pc = pc /\ request'.url = u /\ request'.method = m /\ request'.there = D!Resolved(name)
  BY <1>1
<1>7. CheckedHolds'
  <2> SUFFICES ASSUME pc = "checked"
               PROVE  D!StructurallyAllowed(u)' /\ \A a \in D!Resolved(name)' : D!AddressAdmitted(a)'
    BY <1>6 DEF CheckedHolds
  <2>1. D!StructurallyAllowed(u) /\ \A a \in D!Resolved(name) : D!AddressAdmitted(a)
    BY <1>3 DEF passed
  <2>2. D!StructurallyAllowed(u)' /\ D!Resolved(name)' = D!Resolved(name)
    BY <1>1, <2>1 DEF D!StructurallyAllowed, D!Resolved
  <2>. QED  BY <1>1, <2>1, <2>2 DEF D!AddressAdmitted
<1>8. D!ContactsAllowed'
  BY <1>4, <1>6 DEF D!ContactsAllowed
<1>9. D!RefusalsJustified'
  <2> SUFFICES ASSUME pc = "refused"
               PROVE  \/ m \notin policy.methods
                      \/ ~D!Parses(u) \/ u.userinfo \/ ~D!Listed(u)
                      \/ u.scheme = "http" /\ ~policy.http
                      \/ D!Resolved(name) = {}
                      \/ \E a \in D!Resolved(name) : ~D!Acceptable(a)
    BY <1>1, <1>6 DEF D!RefusalsJustified, D!Listed, D!Acceptable
  <2>1. ~passed
    BY <1>3
  <2>2. CASE ~D!StructurallyAllowed(u)
    <3>1. D!Parses(u) => (D!OriginOf(D!SplitAuthority(u)) \in policy.origins <=> D!Listed(u))
      BY ListedAgree DEF DestinationInv
    <3>. QED  BY <2>2, <3>1 DEF D!StructurallyAllowed
  <2>3. CASE \E a \in D!Resolved(name) : ~D!AddressAdmitted(a)
    <3>1. \A a \in D!Resolved(name) : D!AddressAdmitted(a) <=> D!Acceptable(a)
      BY AddressesAgree, ResolvedAddresses DEF DestinationInv
    <3>. QED  BY <2>3, <3>1
  <2>. QED  BY <2>1, <2>2, <2>3 DEF passed
<1>10. D!LookupsListed'
  <2>1. D!OriginOf(D!SplitAuthority(u))[2] = name
    BY DEF D!OriginOf, D!SplitAuthority, D!HostName
  <2>2. asked => \E o \in policy.origins : o[2] = name
    BY <1>5, <2>1
  <2>. QED  BY <1>1, <2>2 DEF DestinationInv, D!LookupsListed
<1>. QED  BY <1>2, <1>7, <1>8, <1>9, <1>10 DEF DestinationInv

(* The connection takes one of the addresses that were checked. *)
LEMMA ConnectInv ==
  ASSUME D!DestinationAssumption, DestinationInv, D!Connect
  PROVE  DestinationInv'
<1> DEFINE u == request.url
<1>1. PICK a \in D!Resolved(u.host.name) : request' = [pc |-> "sent", url |-> u, to |-> a]
  BY DEF D!Connect
<1>2. request.pc = "checked" /\ policy' = policy /\ dns' = dns /\ lookups' = lookups
  BY DEF D!Connect
<1>3. request'.pc = "sent" /\ request'.url = u /\ request'.to = a
  BY <1>1
<1>4. u \in Urls /\ D!StructurallyAllowed(u) /\ D!AddressAdmitted(a)
  BY <1>1, <1>2 DEF DestinationInv, CheckedHolds
<1> HIDE DEF u
<1>5. D!Listed(u) /\ (u.scheme = "http" => policy.http)
  <2>1. D!Parses(u) /\ D!OriginOf(D!SplitAuthority(u)) \in policy.origins
    BY <1>4 DEF D!StructurallyAllowed
  <2>. QED  BY <1>4, <2>1, ListedAgree DEF DestinationInv, D!StructurallyAllowed
<1>6. D!Acceptable(a)
  BY <1>1, <1>4, AddressesAgree, ResolvedAddresses DEF DestinationInv
<1>7. D!ContactsAllowed'
  BY <1>2, <1>3, <1>5, <1>6 DEF D!ContactsAllowed, D!Listed, D!Acceptable
<1>8. CheckedHolds' /\ D!RefusalsJustified'
  BY <1>3 DEF CheckedHolds, D!RefusalsJustified
<1>9. OriginsListed' /\ DnsTypes' /\ D!LookupsListed'
  BY <1>2 DEF DestinationInv, OriginsListed, DnsTypes, D!LookupsListed
<1>. QED  BY <1>7, <1>8, <1>9 DEF DestinationInv

(* The answer is in, and names change while no check is pending. *)
LEMMA OtherInv ==
  ASSUME DestinationInv,
         \/ D!Finish
         \/ request.pc # "checked" /\ \E name \in DOMAIN dns, addresses \in SUBSET Addresses :
              D!Rebind(name, addresses)
         \/ UNCHANGED D!vars
  PROVE  DestinationInv'
<1>1. policy' = policy /\ lookups' = lookups
  BY DEF D!Finish, D!Rebind, D!vars
<1>2. OriginsListed' /\ D!LookupsListed'
  BY <1>1 DEF DestinationInv, OriginsListed, D!LookupsListed
<1>3. CASE D!Finish
  <2>1. request'.pc = "idle" /\ dns' = dns
    BY <1>3 DEF D!Finish, D!NoRequest
  <2>2. DnsTypes'
    BY <2>1 DEF DestinationInv, DnsTypes
  <2>. QED  BY <1>2, <2>1, <2>2 DEF DestinationInv, CheckedHolds, D!ContactsAllowed, D!RefusalsJustified
<1>4. CASE request.pc # "checked" /\ request' = request /\ DnsTypes'
  <2>1. CheckedHolds'
    BY <1>4 DEF CheckedHolds
  <2>2. D!ContactsAllowed'
    BY <1>1, <1>4 DEF DestinationInv, D!ContactsAllowed, D!Listed, D!Acceptable
  <2>3. D!RefusalsJustified'
    BY <1>1, <1>4 DEF DestinationInv, D!RefusalsJustified, D!Listed, D!Acceptable
  <2>. QED  BY <1>2, <1>4, <2>1, <2>2, <2>3 DEF DestinationInv
<1>5. ASSUME request.pc # "checked", NEW name \in DOMAIN dns, NEW addresses \in SUBSET Addresses,
             D!Rebind(name, addresses)
      PROVE  DestinationInv'
  <2>1. request' = request /\ dns' = [dns EXCEPT ![name] = addresses]
    BY <1>5 DEF D!Rebind
  <2>2. DnsTypes'
    BY <2>1 DEF DestinationInv, DnsTypes
  <2>. QED  BY <1>4, <1>5, <2>1, <2>2
<1>6. CASE UNCHANGED D!vars
  <2>1. request' = request /\ dns' = dns
    BY <1>6 DEF D!vars
  <2>2. DnsTypes'
    BY <2>1 DEF DestinationInv, DnsTypes
  <2>3. CheckedHolds'
    BY <1>1, <2>1 DEF DestinationInv, CheckedHolds, D!StructurallyAllowed, D!Resolved, D!AddressAdmitted
  <2>4. D!ContactsAllowed' /\ D!RefusalsJustified'
    BY <1>1, <2>1 DEF DestinationInv, D!ContactsAllowed, D!RefusalsJustified, D!Listed, D!Acceptable
  <2>. QED  BY <1>2, <2>2, <2>3, <2>4 DEF DestinationInv
<1>. QED  BY <1>3, <1>5, <1>6

(* For every allowlist, setting, URL and history of the name service: a    *)
(* request leaves only for a listed origin and an acceptable address, is   *)
(* refused only for a reason, and no name is looked up that is not listed  *)
(* (DestinationPolicy.check and the connection after it).                  *)
LEMMA RequestsAdmitted ==
  ASSUME D!DestinationAssumption PROVE D!Spec => []D!DestinationsAdmitted
<1>1. DestinationInv /\ [D!Next]_(D!vars) => DestinationInv'
  BY CheckInv, ConnectInv, OtherInv DEF D!Next
<1>2. DestinationInv => D!DestinationsAdmitted
  BY DEF DestinationInv, D!DestinationsAdmitted
<1>. QED  BY <1>1, <1>2, DestinationInit, PTL DEF D!Spec

-----------------------------------------------------------------------------
(* Callers. *)

(* A sequence that is one of these and then the other. *)
IsJoin(ab, a, b) ==
  /\ Len(ab) = Len(a) + Len(b)
  /\ \A i \in 1 .. Len(a) : ab[i] = a[i]
  /\ \A i \in Len(a) + 1 .. Len(a) + Len(b) : ab[i] = b[i - Len(a)]

(* What the concatenation of two sequences is. *)
LEMMA Joined ==
  ASSUME NEW S, NEW a \in Seq(S), NEW b \in Seq(S)
  PROVE  a \o b \in Seq(S) /\ IsJoin(a \o b, a, b)
<1>1. a \o b \in Seq(S)
  OBVIOUS
<1>2. Len(a \o b) = Len(a) + Len(b)
  OBVIOUS
<1>3. \A i \in 1 .. Len(a) : (a \o b)[i] = a[i]
  OBVIOUS
<1>4. \A i \in Len(a) + 1 .. Len(a) + Len(b) : (a \o b)[i] = b[i - Len(a)]
  OBVIOUS
<1>. QED  BY <1>1, <1>2, <1>3, <1>4, Zenon DEF IsJoin

(* The sequence that is first four checks, then five, then nine. *)
Eighteen(abc, a, b, c) ==
  /\ DOMAIN abc = 1 .. 18
  /\ \A i \in 1 .. 4 : abc[i] = a[i]
  /\ \A i \in 5 .. 9 : abc[i] = b[i - 4]
  /\ \A i \in 10 .. 18 : abc[i] = c[i - 9]

(* What the concatenation of three sequences of these lengths is. *)
LEMMA JoinedThree ==
  ASSUME NEW S, NEW a \in Seq(S), NEW b \in Seq(S), NEW c \in Seq(S),
         Len(a) = 4, Len(b) = 5, Len(c) = 9
  PROVE  Eighteen(a \o b \o c, a, b, c)
<1>1. PICK ab \in Seq(S) : ab = a \o b /\ IsJoin(ab, a, b)
  BY Joined, Zenon
<1>2. PICK abc \in Seq(S) : abc = ab \o c /\ IsJoin(abc, ab, c)
  BY Joined, Zenon
<1>3. IsJoin(ab, a, b) /\ IsJoin(abc, ab, c)
  BY <1>1, <1>2, Zenon
<1>4. Eighteen(abc, a, b, c)
  BY <1>3 DEF Eighteen, IsJoin
<1>5. abc = a \o b \o c
  BY <1>1, <1>2, Zenon
<1>. QED  BY <1>4, <1>5, Zenon

(* The checks on a token, one after the other. *)
LEMMA ChecksInOrder ==
  ASSUME NEW t
  PROVE  /\ Eighteen(I!Checks(t), I!ShapeChecks(t), I!SignatureChecks(t), I!ClaimChecks(t))
         /\ DOMAIN I!ClaimChecks(t) = 1 .. 9
<1>1. PICK a1, a2, a3, a4 : I!ShapeChecks(t) = <<a1, a2, a3, a4>>
  BY Zenon DEF I!ShapeChecks
<1>2. PICK b1, b2, b3, b4, b5 : I!SignatureChecks(t) = <<b1, b2, b3, b4, b5>>
  BY Zenon DEF I!SignatureChecks
<1>3. PICK c1, c2, c3, c4, c5, c6, c7, c8, c9 :
           I!ClaimChecks(t) = <<c1, c2, c3, c4, c5, c6, c7, c8, c9>>
  <2> DEFINE p1 == I!Check(t.payload.shape = "garbled", "payload_malformed")
             p2 == I!Check(t.payload.shape = "list", "payload_not_object")
             p3 == I!Check(t.payload.iss # Issuer, "issuer")
             p4 == I!Check(~I!AudienceMatches(t.payload.aud), "audience")
             p5 == I!Check(t.payload.exp = I!Absent, "no_expiry")
             p6 == I!Check(I!Expired(t.payload.exp), "expired")
             p7 == I!Check(I!NotYet(t.payload.nbf), "not_yet")
             p8 == I!Check(t.payload.sub = "", "no_subject")
             p9 == I!Check(~t.payload.listed, "roles")
  <2>1. I!ClaimChecks(t) = <<p1, p2, p3, p4, p5, p6, p7, p8, p9>>
    BY Zenon DEF I!ClaimChecks
  <2> HIDE DEF p1, p2, p3, p4, p5, p6, p7, p8, p9
  <2>. QED  BY <2>1
<1> DEFINE S == {a1, a2, a3, a4} \cup {b1, b2, b3, b4, b5} \cup {c1, c2, c3, c4, c5, c6, c7, c8, c9}
<1>4. I!ShapeChecks(t) \in Seq(S) /\ Len(I!ShapeChecks(t)) = 4
  BY <1>1
<1>5. I!SignatureChecks(t) \in Seq(S) /\ Len(I!SignatureChecks(t)) = 5
  BY <1>2
<1>6. I!ClaimChecks(t) \in Seq(S) /\ Len(I!ClaimChecks(t)) = 9
  BY <1>3
<1> HIDE DEF S
<1>7. DOMAIN I!ClaimChecks(t) = 1 .. 9
  BY <1>6
<1>. QED  BY <1>4, <1>5, <1>6, <1>7, JoinedThree, Zenon DEF I!Checks

(* A check that fails under a condition, for a reason. *)
Is(check, condition, reason) == (check.fails <=> condition) /\ check.why = reason

(* What makes a check. *)
LEMMA CheckIs ==
  ASSUME NEW check, NEW condition, NEW reason, check = I!Check(condition, reason)
  PROVE  Is(check, condition, reason)
<1>1. check.why = reason /\ (check.fails <=> condition)
  BY Zenon DEF I!Check
<1>. QED  BY <1>1, Zenon DEF Is

(* When each check fails, and the reason that it gives. *)
LEMMA CheckValues ==
  ASSUME NEW t
  PROVE  /\ Is(I!Checks(t)[1], t.form = "oversized", "too_large")
         /\ Is(I!Checks(t)[2], t.form # "compact", "not_compact")
         /\ Is(I!Checks(t)[3], t.header.shape = "garbled", "malformed")
         /\ Is(I!Checks(t)[4], t.header.shape = "list", "header_not_object")
         /\ Is(I!Checks(t)[5], t.header.alg # "EdDSA", "algorithm")
         /\ Is(I!Checks(t)[6], t.header.kid = "", "no_key")
         /\ Is(I!Checks(t)[7], I!Find(t.header.kid) = {}, "untrusted")
         /\ Is(I!Checks(t)[8], t.signature.shape = "garbled", "signature_malformed")
         /\ Is(I!Checks(t)[9], ~I!Verify(t), "signature_invalid")
         /\ Is(I!Checks(t)[10], t.payload.shape = "garbled", "payload_malformed")
         /\ Is(I!Checks(t)[11], t.payload.shape = "list", "payload_not_object")
         /\ Is(I!Checks(t)[12], t.payload.iss # Issuer, "issuer")
         /\ Is(I!Checks(t)[13], ~I!AudienceMatches(t.payload.aud), "audience")
         /\ Is(I!Checks(t)[14], t.payload.exp = I!Absent, "no_expiry")
         /\ Is(I!Checks(t)[15], I!Expired(t.payload.exp), "expired")
         /\ Is(I!Checks(t)[16], I!NotYet(t.payload.nbf), "not_yet")
         /\ Is(I!Checks(t)[17], t.payload.sub = "", "no_subject")
         /\ Is(I!Checks(t)[18], ~t.payload.listed, "roles")
<1>1. /\ I!Checks(t)[1] = I!ShapeChecks(t)[1]
      /\ I!Checks(t)[2] = I!ShapeChecks(t)[2]
      /\ I!Checks(t)[3] = I!ShapeChecks(t)[3]
      /\ I!Checks(t)[4] = I!ShapeChecks(t)[4]
  BY ChecksInOrder DEF Eighteen
<1>2. /\ I!Checks(t)[5] = I!SignatureChecks(t)[1]
      /\ I!Checks(t)[6] = I!SignatureChecks(t)[2]
      /\ I!Checks(t)[7] = I!SignatureChecks(t)[3]
      /\ I!Checks(t)[8] = I!SignatureChecks(t)[4]
      /\ I!Checks(t)[9] = I!SignatureChecks(t)[5]
  BY ChecksInOrder DEF Eighteen
<1>3. /\ I!Checks(t)[10] = I!ClaimChecks(t)[1]
      /\ I!Checks(t)[11] = I!ClaimChecks(t)[2]
      /\ I!Checks(t)[12] = I!ClaimChecks(t)[3]
      /\ I!Checks(t)[13] = I!ClaimChecks(t)[4]
      /\ I!Checks(t)[14] = I!ClaimChecks(t)[5]
      /\ I!Checks(t)[15] = I!ClaimChecks(t)[6]
      /\ I!Checks(t)[16] = I!ClaimChecks(t)[7]
      /\ I!Checks(t)[17] = I!ClaimChecks(t)[8]
      /\ I!Checks(t)[18] = I!ClaimChecks(t)[9]
  BY ChecksInOrder DEF Eighteen
<1>4. I!Checks(t)[1] = I!Check(t.form = "oversized", "too_large")
  BY <1>1 DEF I!ShapeChecks
<1>5. I!Checks(t)[2] = I!Check(t.form # "compact", "not_compact")
  BY <1>1 DEF I!ShapeChecks
<1>6. I!Checks(t)[3] = I!Check(t.header.shape = "garbled", "malformed")
  BY <1>1 DEF I!ShapeChecks
<1>7. I!Checks(t)[4] = I!Check(t.header.shape = "list", "header_not_object")
  BY <1>1 DEF I!ShapeChecks
<1>8. I!Checks(t)[5] = I!Check(t.header.alg # "EdDSA", "algorithm")
  BY <1>2 DEF I!SignatureChecks
<1>9. I!Checks(t)[6] = I!Check(t.header.kid = "", "no_key")
  BY <1>2 DEF I!SignatureChecks
<1>10. I!Checks(t)[7] = I!Check(I!Find(t.header.kid) = {}, "untrusted")
  BY <1>2 DEF I!SignatureChecks
<1>11. I!Checks(t)[8] = I!Check(t.signature.shape = "garbled", "signature_malformed")
  BY <1>2 DEF I!SignatureChecks
<1>12. I!Checks(t)[9] = I!Check(~I!Verify(t), "signature_invalid")
  BY <1>2 DEF I!SignatureChecks
<1>13. I!Checks(t)[10] = I!Check(t.payload.shape = "garbled", "payload_malformed")
  BY <1>3 DEF I!ClaimChecks
<1>14. I!Checks(t)[11] = I!Check(t.payload.shape = "list", "payload_not_object")
  BY <1>3 DEF I!ClaimChecks
<1>15. I!Checks(t)[12] = I!Check(t.payload.iss # Issuer, "issuer")
  BY <1>3 DEF I!ClaimChecks
<1>16. I!Checks(t)[13] = I!Check(~I!AudienceMatches(t.payload.aud), "audience")
  BY <1>3 DEF I!ClaimChecks
<1>17. I!Checks(t)[14] = I!Check(t.payload.exp = I!Absent, "no_expiry")
  BY <1>3 DEF I!ClaimChecks
<1>18. I!Checks(t)[15] = I!Check(I!Expired(t.payload.exp), "expired")
  BY <1>3 DEF I!ClaimChecks
<1>19. I!Checks(t)[16] = I!Check(I!NotYet(t.payload.nbf), "not_yet")
  BY <1>3 DEF I!ClaimChecks
<1>20. I!Checks(t)[17] = I!Check(t.payload.sub = "", "no_subject")
  BY <1>3 DEF I!ClaimChecks
<1>21. I!Checks(t)[18] = I!Check(~t.payload.listed, "roles")
  BY <1>3 DEF I!ClaimChecks
<1>. QED
  BY <1>4, <1>5, <1>6, <1>7, <1>8, <1>9, <1>10, <1>11, <1>12,
     <1>13, <1>14, <1>15, <1>16, <1>17, <1>18, <1>19, <1>20, <1>21, CheckIs, Zenon

(* A nonempty set of numbers has a least member. *)
LEMMA LeastOf ==
  ASSUME NEW S \in SUBSET Nat, S # {}
  PROVE  I!Min(S) \in S /\ \A k \in S : I!Min(S) <= k
<1> DEFINE Less == {ss \in Nat \X Nat : ss[1] < ss[2]}
<1>1. Less = OpToRel(<, Nat)
  BY Zenon DEF OpToRel
<1>2. IsWellFoundedOn(Less, Nat)
  BY <1>1, NatLessThanWellFounded, Zenon
<1> HIDE DEF Less
<1>3. \E m \in S : \A k \in S : <<k, m>> \notin Less
  BY <1>2, WFMin
<1>4. \A k, m \in Nat : k < m => <<k, m>> \in Less
  BY DEF Less
<1>5. \A k, m \in Nat : ~(k < m) => m <= k
  OBVIOUS
<1>6. \E m \in S : \A k \in S : m <= k
  BY <1>3, <1>4, <1>5
<1>. QED  BY <1>6, Zenon DEF I!Min

(* The verdict is that of the first check that fails. *)
LEMMA VerdictIsFirst ==
  ASSUME NEW t
  PROVE  \/ /\ \A i \in 1 .. 18 : ~I!Checks(t)[i].fails
            /\ I!Verdict(t) = "accepted"
         \/ \E i \in 1 .. 18 :
               /\ I!Checks(t)[i].fails
               /\ \A j \in 1 .. 18 : I!Checks(t)[j].fails => i <= j
               /\ I!Verdict(t) = I!Checks(t)[i].why
<1> DEFINE failing == {i \in DOMAIN I!Checks(t) : I!Checks(t)[i].fails}
<1>1. DOMAIN I!Checks(t) = 1 .. 18
  BY ChecksInOrder DEF Eighteen
<1>2. I!Verdict(t) = IF failing = {} THEN "accepted" ELSE I!Checks(t)[I!Min(failing)].why
  BY Zenon DEF I!Verdict
<1>3. failing \subseteq 1 .. 18 /\ \A i \in 1 .. 18 : i \in failing <=> I!Checks(t)[i].fails
  BY <1>1, Zenon
<1> HIDE DEF failing
<1>4. CASE failing = {}
  BY <1>2, <1>3, <1>4, Zenon
<1>5. CASE failing # {}
  <2>1. I!Min(failing) \in failing /\ \A k \in failing : I!Min(failing) <= k
    <3>1. failing \in SUBSET Nat
      BY <1>3
    <3>. QED  BY <1>5, <3>1, LeastOf, Zenon
  <2>. QED  BY <1>2, <1>3, <1>5, <2>1, Zenon
<1>. QED  BY <1>4, <1>5

(* The places of the checks. *)
LEMMA Places ==
  /\ \A i \in 1 .. 14 : i = 1 \/ i = 2 \/ i = 3 \/ i = 4 \/ i = 5 \/ i = 6 \/ i = 7 \/ i = 8 \/ i = 9 \/
                       i = 10 \/ i = 11 \/ i = 12 \/ i = 13 \/ i = 14
  /\ \A i \in 1 .. 18 : i \in 1 .. 14 \/ i = 15 \/ i = 16 \/ i = 17 \/ i = 18
  /\ \A i \in 1 .. 18 : i <= 15 /\ i \notin 1 .. 14 => i = 15
  /\ 15 \in 1 .. 18
OBVIOUS

(* The reasons for which the claims of a token are refused. *)
ClaimReasons ==
  {"payload_malformed", "payload_not_object", "issuer", "audience", "no_expiry", "expired",
   "not_yet", "no_subject", "roles"}

(* Only the checks on the claims give those reasons. *)
LEMMA ReasonsApart ==
  ASSUME NEW t
  PROVE  /\ \A i \in 1 .. 18 : I!Checks(t)[i].why # "accepted"
         /\ \A i \in 1 .. 9 : I!Checks(t)[i].why \notin ClaimReasons
         /\ \A i \in 10 .. 18 : I!Checks(t)[i].why \in ClaimReasons
<1>1. /\ I!Checks(t)[1].why = "too_large" /\ I!Checks(t)[2].why = "not_compact"
      /\ I!Checks(t)[3].why = "malformed" /\ I!Checks(t)[4].why = "header_not_object"
      /\ I!Checks(t)[5].why = "algorithm" /\ I!Checks(t)[6].why = "no_key"
      /\ I!Checks(t)[7].why = "untrusted" /\ I!Checks(t)[8].why = "signature_malformed"
      /\ I!Checks(t)[9].why = "signature_invalid"
  BY CheckValues, Zenon DEF Is
<1>2. /\ I!Checks(t)[10].why = "payload_malformed" /\ I!Checks(t)[11].why = "payload_not_object"
      /\ I!Checks(t)[12].why = "issuer" /\ I!Checks(t)[13].why = "audience"
      /\ I!Checks(t)[14].why = "no_expiry" /\ I!Checks(t)[15].why = "expired"
  BY CheckValues, Zenon DEF Is
<1>6. /\ I!Checks(t)[16].why = "not_yet" /\ I!Checks(t)[17].why = "no_subject"
      /\ I!Checks(t)[18].why = "roles"
  BY CheckValues, Zenon DEF Is
<1>3. \A i \in 1 .. 9 : I!Checks(t)[i].why \notin ClaimReasons \cup {"accepted"}
  BY <1>1 DEF ClaimReasons
<1>4. \A i \in 10 .. 18 : I!Checks(t)[i].why \in ClaimReasons
  BY <1>2, <1>6 DEF ClaimReasons
<1>5. "accepted" \notin ClaimReasons
  BY DEF ClaimReasons
<1>. QED  BY <1>3, <1>4, <1>5

(* A token that is accepted passed every check. *)
LEMMA AcceptedPasses ==
  ASSUME NEW t, I!Verdict(t) = "accepted"
  PROVE  /\ I!Verify(t)
         /\ t.payload.iss = Issuer
         /\ I!AudienceMatches(t.payload.aud)
         /\ t.payload.exp # I!Absent
<1>1. \A i \in 1 .. 18 : ~I!Checks(t)[i].fails
  BY VerdictIsFirst, ReasonsApart, Zenon
<1>2. /\ ~I!Checks(t)[9].fails /\ ~I!Checks(t)[12].fails
      /\ ~I!Checks(t)[13].fails /\ ~I!Checks(t)[14].fails
  BY <1>1
<1>. QED  BY <1>2, CheckValues, Zenon DEF Is

(* A token that is refused for its claims had a good signature. *)
LEMMA ClaimsAfterSignature ==
  ASSUME NEW t, I!Verdict(t) \in ClaimReasons
  PROVE  I!Verify(t)
<1>0. "accepted" \notin ClaimReasons
  BY DEF ClaimReasons
<1>1. PICK i \in 1 .. 18 :
         /\ I!Checks(t)[i].fails
         /\ \A j \in 1 .. 18 : I!Checks(t)[j].fails => i <= j
         /\ I!Verdict(t) = I!Checks(t)[i].why
  BY <1>0, VerdictIsFirst, Zenon
<1>2. i \notin 1 .. 9
  BY <1>1, ReasonsApart, Zenon
<1>3. ~(i <= 9) /\ 9 \in 1 .. 18
  BY <1>2
<1>4. ~I!Checks(t)[9].fails
  BY <1>1, <1>3, Zenon
<1>. QED  BY <1>4, CheckValues, Zenon DEF Is

(* What is left to decide of a token that is signed and for this runtime. *)
LEMMA VerdictOnTime ==
  ASSUME NEW t,
         t.form = "compact", t.header.shape = "ok", t.header.alg = "EdDSA", t.header.kid # "",
         I!Find(t.header.kid) # {}, t.signature.shape = "ok", I!Verify(t), t.payload.shape = "ok",
         t.payload.iss = Issuer, I!AudienceMatches(t.payload.aud), t.payload.exp # I!Absent
  PROVE  /\ I!Expired(t.payload.exp) => I!Verdict(t) = "expired"
         /\ /\ ~I!Expired(t.payload.exp) /\ ~I!NotYet(t.payload.nbf)
            /\ t.payload.sub # "" /\ t.payload.listed
            => I!Verdict(t) = "accepted"
<1>0. "compact" # "oversized" /\ "ok" # "garbled" /\ "ok" # "list"
  OBVIOUS
<1>1. /\ ~I!Checks(t)[1].fails /\ ~I!Checks(t)[2].fails
      /\ ~I!Checks(t)[3].fails /\ ~I!Checks(t)[4].fails
  <2>1. /\ I!Checks(t)[1].fails <=> t.form = "oversized"
        /\ I!Checks(t)[2].fails <=> t.form # "compact"
        /\ I!Checks(t)[3].fails <=> t.header.shape = "garbled"
        /\ I!Checks(t)[4].fails <=> t.header.shape = "list"
    BY CheckValues, Zenon DEF Is
  <2>. QED  BY <1>0, <2>1, Zenon
<1>8. /\ ~I!Checks(t)[5].fails /\ ~I!Checks(t)[6].fails /\ ~I!Checks(t)[7].fails
      /\ ~I!Checks(t)[8].fails /\ ~I!Checks(t)[9].fails
  <2>1. /\ I!Checks(t)[5].fails <=> t.header.alg # "EdDSA"
        /\ I!Checks(t)[6].fails <=> t.header.kid = ""
        /\ I!Checks(t)[7].fails <=> I!Find(t.header.kid) = {}
        /\ I!Checks(t)[8].fails <=> t.signature.shape = "garbled"
        /\ I!Checks(t)[9].fails <=> ~I!Verify(t)
    BY CheckValues, Zenon DEF Is
  <2>. QED  BY <1>0, <2>1, Zenon
<1>9. /\ ~I!Checks(t)[10].fails /\ ~I!Checks(t)[11].fails /\ ~I!Checks(t)[12].fails
      /\ ~I!Checks(t)[13].fails /\ ~I!Checks(t)[14].fails
  <2>1. /\ I!Checks(t)[10].fails <=> t.payload.shape = "garbled"
        /\ I!Checks(t)[11].fails <=> t.payload.shape = "list"
        /\ I!Checks(t)[12].fails <=> t.payload.iss # Issuer
        /\ I!Checks(t)[13].fails <=> ~I!AudienceMatches(t.payload.aud)
        /\ I!Checks(t)[14].fails <=> t.payload.exp = I!Absent
    BY CheckValues, Zenon DEF Is
  <2>. QED  BY <1>0, <2>1, Zenon
<1>2. I!Checks(t)[15].fails <=> I!Expired(t.payload.exp)
  BY CheckValues, Zenon DEF Is
<1>3. I!Checks(t)[15].why = "expired"
  BY CheckValues, Zenon DEF Is
<1>4. /\ I!Checks(t)[16].fails <=> I!NotYet(t.payload.nbf)
      /\ I!Checks(t)[17].fails <=> t.payload.sub = ""
      /\ I!Checks(t)[18].fails <=> ~t.payload.listed
  BY CheckValues, Zenon DEF Is
<1>5. \A i \in 1 .. 14 : ~I!Checks(t)[i].fails
  BY <1>1, <1>8, <1>9, Places, Zenon
<1>6. ASSUME I!Expired(t.payload.exp) PROVE I!Verdict(t) = "expired"
  <2>1. I!Checks(t)[15].fails /\ 15 \in 1 .. 18
    BY <1>2, <1>6, Places, Zenon
  <2>2. PICK i \in 1 .. 18 :
           /\ I!Checks(t)[i].fails
           /\ \A j \in 1 .. 18 : I!Checks(t)[j].fails => i <= j
           /\ I!Verdict(t) = I!Checks(t)[i].why
    BY <2>1, VerdictIsFirst, Zenon
  <2>3. i <= 15 /\ i \notin 1 .. 14
    BY <1>5, <2>1, <2>2, Zenon
  <2>4. i = 15
    BY <2>3, Places, Zenon
  <2>. QED  BY <1>3, <2>2, <2>4, Zenon
<1>7. ASSUME ~I!Expired(t.payload.exp), ~I!NotYet(t.payload.nbf), t.payload.sub # "", t.payload.listed
      PROVE  I!Verdict(t) = "accepted"
  <2>1. /\ ~I!Checks(t)[15].fails /\ ~I!Checks(t)[16].fails
        /\ ~I!Checks(t)[17].fails /\ ~I!Checks(t)[18].fails
    BY <1>2, <1>4, <1>7, Zenon
  <2>2. \A i \in 1 .. 18 : ~I!Checks(t)[i].fails
    BY <1>5, <2>1, Places, Zenon
  <2>. QED  BY <2>2, VerdictIsFirst, Zenon
<1>. QED  BY <1>6, <1>7, Zenon

(* A moment and the whole seconds before it. *)
LEMMA WholeSeconds ==
  ASSUME NEW at \in Nat, NEW s \in Nat \ {0}
  PROVE  /\ (at \div s) \in Nat
         /\ (at \div s) * s <= at
         /\ at <= (at \div s) * s + (s - 1)
OBVIOUS

(* The lifetime of a token by the clock of its issuer. *)
LEMMA LifetimeBounds ==
  ASSUME NEW now \in Int, NEW off \in Int, NEW at \in Nat, NEW q \in Nat, NEW s \in Nat \ {0},
         NEW l \in Nat, NEW k \in Nat,
         off <= k * s, -(k * s) <= off, q * s <= at, at <= q * s + (s - 1)
  PROVE  /\ now <= at + l * s - (s - 1) => ~(now + off > (q + l + k) * s)
         /\ now > at + (l + 2 * k) * s => now + off > (q + l + k) * s
         /\ at <= now => ~(now + off + k * s < q * s)
<1>1. (q + l + k) * s = q * s + l * s + k * s
  OBVIOUS
<1>2. (l + 2 * k) * s = l * s + k * s + k * s
  OBVIOUS
<1>3. q * s \in Nat /\ l * s \in Nat /\ k * s \in Nat
  OBVIOUS
<1>4. \A a, b, c \in Nat :
         off <= c /\ -c <= off /\ a <= at /\ at <= a + (s - 1) =>
           /\ now <= at + b - (s - 1) => ~(now + off > a + b + c)
           /\ now > at + (b + c + c) => now + off > a + b + c
           /\ at <= now => ~(now + off + c < a)
  OBVIOUS
<1>. QED  BY <1>1, <1>2, <1>3, <1>4

(* What identify makes of a request, mode by mode. *)
LEMMA Identities ==
  ASSUME NEW tokens, NEW asserted
  PROVE  /\ mode = "verified_token" /\ asserted # {} =>
              I!Identify(tokens, asserted) = I!Refused("asserted")
         /\ mode = "verified_token" /\ asserted = {} /\ tokens = {} =>
              I!Identify(tokens, asserted) = I!Refused("no_token")
         /\ \A t : mode = "verified_token" /\ asserted = {} /\ tokens = {t} =>
              I!Identify(tokens, asserted) =
                IF I!Verdict(t) = "accepted" THEN I!Identified(t.payload.sub, t.payload.roles)
                ELSE I!Refused(I!Verdict(t))
         /\ mode # "verified_token" => I!Identify(tokens, asserted).outcome \in {"none", "accepted"}
<1>1. mode = "verified_token" /\ asserted # {} =>
        I!Identify(tokens, asserted) = I!Refused("asserted")
  BY Zenon DEF I!Identify
<1>2. mode = "verified_token" /\ asserted = {} /\ tokens = {} =>
        I!Identify(tokens, asserted) = I!Refused("no_token")
  BY Zenon DEF I!Identify
<1>3. ASSUME NEW t, mode = "verified_token", asserted = {}, tokens = {t}
      PROVE  I!Identify(tokens, asserted) =
               IF I!Verdict(t) = "accepted" THEN I!Identified(t.payload.sub, t.payload.roles)
               ELSE I!Refused(I!Verdict(t))
  <2>1. (CHOOSE u \in tokens : TRUE) = t
    BY <1>3
  <2>2. tokens # {}
    BY <1>3
  <2>. QED  BY <1>3, <2>1, <2>2, Zenon DEF I!Identify
<1>4. ASSUME mode # "verified_token"
      PROVE  I!Identify(tokens, asserted).outcome \in {"none", "accepted"}
  <2>1. CASE asserted = {}
    <3>1. I!Identify(tokens, asserted) = I!Anonymous
      BY <1>4, <2>1, Zenon DEF I!Identify
    <3>2. I!Anonymous.outcome = "none"
      BY DEF I!Anonymous
    <3>. QED  BY <3>1, <3>2, Zenon
  <2>2. CASE asserted # {}
    <3>1. PICK sub, roles : I!Identify(tokens, asserted) = I!Identified(sub, roles)
      BY <1>4, <2>2, Zenon DEF I!Identify
    <3>2. I!Identified(sub, roles).outcome = "accepted"
      BY DEF I!Identified
    <3>. QED  BY <3>1, <3>2, Zenon
  <2>. QED  BY <2>1, <2>2
<1>. QED  BY <1>1, <1>2, <1>3, <1>4, Zenon

-----------------------------------------------------------------------------
(* A token as an issuer makes one, at this moment or before. *)
IssuedBy(i) ==
  \E key \in HostKeys, claims \in Claims, at \in 0 .. clock :
    \E exp \in {I!Absent, (at \div Second) + Lifetime}, nbf \in {I!Absent, at \div Second} :
      i = [token |-> I!Signed(key, I!Header("EdDSA", key.id), I!Payload(claims, exp, nbf)),
           at |-> at]

(* SignatureFirst, by the reasons themselves. *)
SignedFirst ==
  \A t \in answer.tokens :
    answer.identity.outcome \in ClaimReasons =>
      \E k \in Ring : t.signature.pair = k.pair /\ t.signature.over = <<t.header, t.payload>>

(* The inductive invariant of the callers. *)
IdentityInv ==
  /\ clock \in Nat
  /\ offset \in Int /\ offset <= Skew * Second /\ -(Skew * Second) <= offset
  /\ \A i \in issued : IssuedBy(i)
  /\ I!IdentityProven /\ I!LifetimeHonoured /\ SignedFirst

(* The invariant implies the promises. *)
LEMMA CallersHold == IdentityInv => I!CallersProven
<1> SUFFICES ASSUME IdentityInv PROVE I!SignatureFirst
  BY Zenon DEF IdentityInv, I!CallersProven
<1> SUFFICES ASSUME NEW t \in answer.tokens, NEW i \in DOMAIN I!ClaimChecks(t),
                    answer.identity.outcome = I!ClaimChecks(t)[i].why
             PROVE  \E k \in Ring : /\ t.signature.pair = k.pair
                                    /\ t.signature.over = <<t.header, t.payload>>
  BY Zenon DEF I!SignatureFirst
<1>1. I!ClaimChecks(t)[i].why \in ClaimReasons
  <2>1. DOMAIN I!ClaimChecks(t) = 1 .. 9
    BY ChecksInOrder, Zenon
  <2>2. i + 9 \in 10 .. 18 /\ (i + 9) - 9 = i
    BY <2>1
  <2>3. I!Checks(t)[i + 9] = I!ClaimChecks(t)[(i + 9) - 9]
    BY <2>2, ChecksInOrder, Zenon DEF Eighteen
  <2>. QED  BY <2>2, <2>3, ReasonsApart, Zenon
<1>. QED  BY <1>1, Zenon DEF IdentityInv, SignedFirst

(* Nothing is said of a caller before there is a request. *)
LEMMA QuietWithoutRequest ==
  ASSUME answer = I!NoRequest
  PROVE  I!IdentityProven /\ I!LifetimeHonoured /\ SignedFirst
<1>1. answer.identity.outcome = "none" /\ answer.tokens = {}
  BY DEF I!NoRequest, I!Anonymous
<1>2. I!IdentityProven
  BY <1>1 DEF I!IdentityProven
<1>3. I!LifetimeHonoured
  BY <1>1 DEF I!LifetimeHonoured, I!Plain
<1>4. SignedFirst
  BY <1>1 DEF SignedFirst
<1>. QED  BY <1>2, <1>3, <1>4

(* The same of the next state. *)
LEMMA QuietNext ==
  ASSUME answer' = I!NoRequest
  PROVE  (I!IdentityProven /\ I!LifetimeHonoured /\ SignedFirst)'
<1>1. answer'.identity.outcome = "none" /\ answer'.tokens = {}
  BY DEF I!NoRequest, I!Anonymous
<1>2. I!IdentityProven'
  BY <1>1 DEF I!IdentityProven
<1>3. I!LifetimeHonoured'
  BY <1>1 DEF I!LifetimeHonoured, I!Plain
<1>4. SignedFirst'
  BY <1>1 DEF SignedFirst
<1>. QED  BY <1>2, <1>3, <1>4

(* A request is answered as promised. *)
LEMMA RequestProven ==
  ASSUME I!IdentityAssumption, IdentityInv, NEW tokens, NEW asserted,
         tokens = {} \/ \E t : tokens = {t},
         I!Request(tokens, asserted)
  PROVE  (I!IdentityProven /\ I!LifetimeHonoured /\ SignedFirst)'
<1> DEFINE identity == I!Identify(tokens, asserted)
           Judged(t) == /\ tokens = {t}
                        /\ identity.outcome = I!Verdict(t)
                        /\ identity.outcome = "accepted" =>
                             identity.sub = t.payload.sub /\ identity.roles \subseteq t.payload.roles
<1>1. /\ answer' = [tokens |-> tokens, asserted |-> asserted, at |-> clock, identity |-> identity]
      /\ mode' = mode /\ clock' = clock /\ offset' = offset /\ issued' = issued
  BY Zenon DEF I!Request
<1> HIDE DEF identity
<1>2. /\ answer'.tokens = tokens /\ answer'.asserted = asserted /\ answer'.at = clock
      /\ answer'.identity = identity
  BY <1>1
<1>3. \A why : I!Refused(why).outcome = why
  BY DEF I!Refused
<1>4. \A sub, roles : /\ I!Identified(sub, roles).outcome = "accepted"
                      /\ I!Identified(sub, roles).sub = sub
                      /\ I!Identified(sub, roles).roles \subseteq roles
  BY DEF I!Identified
<1>5. "accepted" \notin ClaimReasons /\ "none" \notin ClaimReasons
      /\ "asserted" \notin ClaimReasons /\ "no_token" \notin ClaimReasons
      /\ "asserted" # "accepted" /\ "no_token" # "accepted"
  BY DEF ClaimReasons
<1>6. ASSUME mode = "verified_token", identity.outcome \in ClaimReasons \cup {"accepted"}
      PROVE  /\ asserted = {}
             /\ \E t : Judged(t)
  <2>1. asserted = {}
    <3> SUFFICES ASSUME asserted # {} PROVE FALSE
      OBVIOUS
    <3>1. identity = I!Refused("asserted")
      BY <1>6, Identities, Zenon DEF identity
    <3>2. identity.outcome = "asserted"
      BY <1>3, <3>1, Zenon
    <3>. QED  BY <1>5, <1>6, <3>2, Zenon
  <2>2. tokens # {}
    <3> SUFFICES ASSUME tokens = {} PROVE FALSE
      OBVIOUS
    <3>1. identity = I!Refused("no_token")
      BY <1>6, <2>1, Identities, Zenon DEF identity
    <3>2. identity.outcome = "no_token"
      BY <1>3, <3>1, Zenon
    <3>. QED  BY <1>5, <1>6, <3>2, Zenon
  <2>3. PICK t : tokens = {t}
    BY <2>2
  <2>4. identity = IF I!Verdict(t) = "accepted" THEN I!Identified(t.payload.sub, t.payload.roles)
                   ELSE I!Refused(I!Verdict(t))
    BY <1>6, <2>1, <2>3, Identities, Zenon DEF identity
  <2>5. identity.outcome = I!Verdict(t)
    <3>1. CASE I!Verdict(t) = "accepted"
      BY <1>4, <2>4, <3>1, Zenon
    <3>2. CASE I!Verdict(t) # "accepted"
      BY <1>3, <2>4, <3>2, Zenon
    <3>. QED  BY <3>1, <3>2
  <2>6. identity.outcome = "accepted" =>
           identity.sub = t.payload.sub /\ identity.roles \subseteq t.payload.roles
    BY <1>4, <2>4, <2>5, Zenon
  <2>. QED  BY <2>1, <2>3, <2>5, <2>6, Zenon
<1> HIDE DEF Judged
<1>7. I!IdentityProven'
  <2> SUFFICES ASSUME mode' = "verified_token", answer'.identity.outcome = "accepted"
               PROVE  \E t \in answer'.tokens, k \in Ring :
                        /\ t.signature.pair = k.pair /\ t.signature.over[2] = t.payload
                        /\ t.payload.iss = Issuer /\ Audience \in t.payload.aud
                        /\ t.payload.exp # I!Absent
                        /\ answer'.identity.sub = t.payload.sub
                        /\ answer'.identity.roles \subseteq t.payload.roles
    BY Zenon DEF I!IdentityProven
  <2>0. mode = "verified_token" /\ identity.outcome \in ClaimReasons \cup {"accepted"}
    BY <1>1, <1>2, Zenon
  <2>1. PICK t : Judged(t)
    BY <1>6, <2>0, Zenon
  <2>2. I!Verdict(t) = "accepted"
    BY <1>2, <2>1, Zenon DEF Judged
  <2>3. /\ I!Verify(t) /\ t.payload.iss = Issuer /\ I!AudienceMatches(t.payload.aud)
        /\ t.payload.exp # I!Absent
    BY <2>2, AcceptedPasses, Zenon
  <2>4. PICK k \in Ring : t.signature.pair = k.pair /\ t.signature.over = <<t.header, t.payload>>
    BY <2>3, Zenon DEF I!Verify, I!Find
  <2>5. t.signature.over[2] = t.payload
    BY <2>4
  <2>6. Audience \in t.payload.aud
    BY <2>3, Zenon DEF I!AudienceMatches
  <2>7. t \in answer'.tokens
    BY <1>2, <2>1, Zenon DEF Judged
  <2>8. answer'.identity.sub = t.payload.sub /\ answer'.identity.roles \subseteq t.payload.roles
    BY <1>2, <2>1, <2>2, Zenon DEF Judged
  <2>. QED  BY <2>3, <2>4, <2>5, <2>6, <2>7, <2>8, Zenon
<1>8. SignedFirst'
  <2> SUFFICES ASSUME NEW u \in answer'.tokens, answer'.identity.outcome \in ClaimReasons
               PROVE  \E k \in Ring : /\ u.signature.pair = k.pair
                                      /\ u.signature.over = <<u.header, u.payload>>
    BY Zenon DEF SignedFirst
  <2>1. mode = "verified_token"
    <3> SUFFICES ASSUME mode # "verified_token" PROVE FALSE
      OBVIOUS
    <3>1. identity.outcome \in {"none", "accepted"}
      BY Identities, Zenon DEF identity
    <3>2. identity.outcome \in ClaimReasons
      BY <1>2, Zenon
    <3>. QED  BY <1>5, <3>1, <3>2, Zenon
  <2>2. PICK t : Judged(t)
    <3>1. identity.outcome \in ClaimReasons \cup {"accepted"}
      BY <1>2, Zenon
    <3>. QED  BY <1>6, <2>1, <3>1, Zenon
  <2>3. u = t /\ I!Verdict(t) \in ClaimReasons
    BY <1>2, <2>2, Zenon DEF Judged
  <2>4. I!Verify(u)
    BY <2>3, ClaimsAfterSignature, Zenon
  <2>. QED  BY <2>4, Zenon DEF I!Verify, I!Find
<1>9. I!LifetimeHonoured'
  <2> SUFFICES ASSUME mode' = "verified_token", NEW i \in issued', I!Plain(i)',
                      I!ForThisRuntime(i.token)'
               PROVE  /\ answer'.at <= i.at + Lifetime * Second - (Second - 1)
                            => answer'.identity.outcome = "accepted"
                      /\ answer'.at > i.at + (Lifetime + 2 * Skew) * Second
                            => answer'.identity.outcome = "expired"
    BY Zenon DEF I!LifetimeHonoured
  <2> DEFINE t == i.token
  <2>1. tokens = {t} /\ asserted = {} /\ mode = "verified_token" /\ i \in issued
    BY <1>1, <1>2, Zenon DEF I!Plain
  <2>2. PICK key, claims, at, exp, nbf :
           /\ at \in 0 .. clock
           /\ exp \in {I!Absent, (at \div Second) + Lifetime}
           /\ nbf \in {I!Absent, at \div Second}
           /\ i = [token |-> I!Signed(key, I!Header("EdDSA", key.id), I!Payload(claims, exp, nbf)),
                   at |-> at]
    BY <2>1, Zenon DEF IdentityInv, IssuedBy
  <2>3. i.at = at /\ t = I!Signed(key, I!Header("EdDSA", key.id), I!Payload(claims, exp, nbf))
    BY <2>2
  <2>4. /\ t.form = "compact" /\ t.header.shape = "ok" /\ t.header.alg = "EdDSA"
        /\ t.signature.shape = "ok" /\ t.signature.over = <<t.header, t.payload>>
        /\ t.payload.shape = "ok" /\ t.payload.exp = exp /\ t.payload.nbf = nbf
    BY <2>3 DEF I!Signed, I!Header, I!Payload
  <2> HIDE DEF t
  <2>5. /\ \E k \in Ring : t.header.kid = k.id /\ t.signature.pair = k.pair
        /\ t.payload.iss = Issuer /\ Audience \in t.payload.aud
        /\ t.payload.sub # "" /\ t.payload.listed /\ t.payload.exp # I!Absent
    BY Zenon DEF I!ForThisRuntime, t
  <2>6. PICK k \in Ring : t.header.kid = k.id /\ t.signature.pair = k.pair
    BY <2>5, Zenon
  <2>7. k \in I!Find(t.header.kid)
    BY <2>6, Zenon DEF I!Find
  <2>8. I!Verify(t)
    BY <2>4, <2>6, <2>7, Zenon DEF I!Verify
  <2>9. t.header.kid # "" /\ I!Find(t.header.kid) # {}
    BY <2>6, <2>7, Zenon DEF I!IdentityAssumption
  <2>10. I!AudienceMatches(t.payload.aud)
    BY <2>5, Zenon DEF I!AudienceMatches
  <2>11. /\ I!Expired(exp) => I!Verdict(t) = "expired"
         /\ ~I!Expired(exp) /\ ~I!NotYet(nbf) => I!Verdict(t) = "accepted"
    BY <2>4, <2>5, <2>8, <2>9, <2>10, VerdictOnTime, Zenon
  <2>12. identity.outcome = I!Verdict(t)
    <3>1. identity = IF I!Verdict(t) = "accepted" THEN I!Identified(t.payload.sub, t.payload.roles)
                     ELSE I!Refused(I!Verdict(t))
      BY <2>1, Identities, Zenon DEF identity
    <3>2. CASE I!Verdict(t) = "accepted"
      BY <1>4, <3>1, <3>2, Zenon
    <3>3. CASE I!Verdict(t) # "accepted"
      BY <1>3, <3>1, <3>3, Zenon
    <3>. QED  BY <3>2, <3>3
  <2>13. answer'.identity.outcome = I!Verdict(t) /\ answer'.at = clock
    BY <1>2, <2>12, Zenon
  <2> DEFINE q == at \div Second
  <2>14. /\ exp = q + Lifetime /\ nbf \in {I!Absent, q}
    BY <2>2, <2>4, <2>5, Zenon
  <2>15. /\ at \in Nat /\ at <= clock /\ clock \in Int /\ offset \in Int
         /\ offset <= Skew * Second /\ -(Skew * Second) <= offset
         /\ Second \in Nat \ {0} /\ Lifetime \in Nat /\ Skew \in Nat
    <3>1. /\ clock \in Nat /\ offset \in Int
          /\ offset <= Skew * Second /\ -(Skew * Second) <= offset
          /\ Second \in Nat \ {0} /\ Lifetime \in Nat \ {0} /\ Skew \in Nat
      BY Zenon DEF IdentityInv, I!IdentityAssumption
    <3>2. at \in 0 .. clock
      BY <2>2, Zenon
    <3>. QED  BY <3>1, <3>2
  <2>16. q \in Nat /\ q * Second <= at /\ at <= q * Second + (Second - 1)
    BY <2>15, WholeSeconds
  <2> HIDE DEF q
  <2>17. /\ clock <= at + Lifetime * Second - (Second - 1) =>
              ~(clock + offset > (q + Lifetime + Skew) * Second)
         /\ clock > at + (Lifetime + 2 * Skew) * Second =>
              clock + offset > (q + Lifetime + Skew) * Second
         /\ ~(clock + offset + Skew * Second < q * Second)
    BY <2>15, <2>16, LifetimeBounds
  <2>18. I!Expired(exp) <=> clock + offset > (q + Lifetime + Skew) * Second
    BY <2>14, Zenon DEF I!Expired, I!Now
  <2>19. ~I!NotYet(nbf)
    BY <2>14, <2>17, Zenon DEF I!NotYet, I!Now
  <2>. QED  BY <2>3, <2>11, <2>13, <2>17, <2>18, <2>19, Zenon
<1>. QED  BY <1>7, <1>8, <1>9

(* No token and no request at the start. *)
LEMMA IdentityInit == ASSUME I!IdentityAssumption, I!Init PROVE IdentityInv
<1>1. clock = 0 /\ issued = {} /\ answer = I!NoRequest
  BY Zenon DEF I!Init
<1>2. Skew * Second \in Nat
  <2>1. Skew \in Nat /\ Second \in Nat \ {0}
    BY Zenon DEF I!IdentityAssumption
  <2>. QED  BY <2>1
<1>3. offset \in -(Skew * Second) .. Skew * Second
  BY Zenon DEF I!Init
<1>4. offset \in Int /\ offset <= Skew * Second /\ -(Skew * Second) <= offset
  BY <1>2, <1>3
<1>5. clock \in Nat
  BY <1>1
<1>6. I!IdentityProven /\ I!LifetimeHonoured /\ SignedFirst
  BY <1>1, QuietWithoutRequest, Zenon
<1>. QED  BY <1>1, <1>4, <1>5, <1>6, Zenon DEF IdentityInv

(* What an issuer made stays what it made. *)
LEMMA IssuedStays ==
  ASSUME clock \in Nat, clock' = clock \/ clock' = clock + 1, NEW i, IssuedBy(i)
  PROVE  IssuedBy(i)'
<1>1. 0 .. clock \subseteq 0 .. clock'
  OBVIOUS
<1>. QED  BY <1>1, Zenon DEF IssuedBy

(* A token that is issued now. *)
LEMMA IssuedNow ==
  ASSUME clock \in Nat, clock' = clock, NEW key \in HostKeys, NEW claims \in Claims,
         NEW exp \in {I!Absent, (clock \div Second) + Lifetime},
         NEW nbf \in {I!Absent, clock \div Second},
         NEW r, r = I!Record(I!Signed(key, I!Header("EdDSA", key.id), I!Payload(claims, exp, nbf)))
  PROVE  IssuedBy(r)'
<1>1. clock \in 0 .. clock
  OBVIOUS
<1>. QED  BY <1>1, Zenon DEF IssuedBy, I!Record

(* Every step keeps the invariant. *)
LEMMA IdentityStep ==
  ASSUME I!IdentityAssumption, IdentityInv, [I!Next]_I!vars
  PROVE  IdentityInv'
<1>0. /\ clock \in Nat /\ offset \in Int /\ offset <= Skew * Second /\ -(Skew * Second) <= offset
      /\ \A i \in issued : IssuedBy(i)
  BY Zenon DEF IdentityInv
<1>1. CASE I!Tick
  <2>1. clock' = clock + 1 /\ answer' = I!NoRequest /\ offset' = offset /\ issued' = issued
    BY <1>1, Zenon DEF I!Tick
  <2>2. clock' \in Nat
    BY <1>0, <2>1
  <2>3. \A i \in issued' : IssuedBy(i)'
    BY <1>0, <2>1, IssuedStays, Zenon
  <2>. QED  BY <1>0, <2>1, <2>2, <2>3, QuietNext, Zenon DEF IdentityInv
<1>2. ASSUME NEW key \in HostKeys, NEW claims \in Claims, I!Issue(key, claims)
      PROVE  IdentityInv'
  <2>0. PICK r : r = I!Record(I!IssueCallerToken(key, claims, clock))
    BY Zenon
  <2>1. /\ issued' = issued \cup {r}
        /\ answer' = I!NoRequest /\ clock' = clock /\ offset' = offset
    BY <1>2, <2>0, Zenon DEF I!Issue
  <2>2. IssuedBy(r)'
    BY <1>0, <2>0, <2>1, IssuedNow, Zenon DEF I!IssueCallerToken
  <2>3. \A i \in issued : IssuedBy(i)'
    BY <1>0, <2>1, IssuedStays, Zenon
  <2>4. \A i \in issued' : IssuedBy(i)'
    BY <2>1, <2>2, <2>3, Zenon
  <2>. QED  BY <1>0, <2>1, <2>4, QuietNext, Zenon DEF IdentityInv
<1>3. ASSUME NEW key \in HostKeys, NEW claims \in Claims, I!IssueElsewhere(key, claims)
      PROVE  IdentityInv'
  <2>0. PICK exp \in {I!Absent, (clock \div Second) + Lifetime} :
           issued' = issued \cup {I!Record(I!Signed(key, I!Header("EdDSA", key.id),
                                                   I!Payload(claims, exp, clock \div Second)))}
    BY <1>3, Zenon DEF I!IssueElsewhere
  <2>1. PICK r : /\ r = I!Record(I!Signed(key, I!Header("EdDSA", key.id),
                                          I!Payload(claims, exp, clock \div Second)))
                 /\ issued' = issued \cup {r}
    BY <2>0, Zenon
  <2>2. answer' = I!NoRequest /\ clock' = clock /\ offset' = offset
    BY <1>3, Zenon DEF I!IssueElsewhere
  <2>3. IssuedBy(r)'
    BY <1>0, <2>1, <2>2, IssuedNow, Zenon
  <2>4. \A i \in issued : IssuedBy(i)'
    BY <1>0, <2>2, IssuedStays, Zenon
  <2>5. \A i \in issued' : IssuedBy(i)'
    BY <2>1, <2>3, <2>4, Zenon
  <2>. QED  BY <1>0, <2>2, <2>5, QuietNext, Zenon DEF IdentityInv
<1>4. ASSUME NEW tokens, NEW asserted, tokens = {} \/ \E t : tokens = {t}, I!Request(tokens, asserted)
      PROVE  IdentityInv'
  <2>1. clock' = clock /\ offset' = offset /\ issued' = issued
    BY <1>4, Zenon DEF I!Request
  <2>2. \A i \in issued' : IssuedBy(i)'
    BY <1>0, <2>1, IssuedStays, Zenon
  <2>3. (I!IdentityProven /\ I!LifetimeHonoured /\ SignedFirst)'
    BY <1>4, RequestProven, Zenon
  <2>. QED  BY <1>0, <2>1, <2>2, <2>3, Zenon DEF IdentityInv
<1>5. CASE UNCHANGED I!vars
  <2>1. mode' = mode /\ clock' = clock /\ offset' = offset /\ issued' = issued /\ answer' = answer
    BY <1>5, Zenon DEF I!vars
  <2>2. \A i \in issued' : IssuedBy(i)'
    BY <1>0, <2>1, IssuedStays, Zenon
  <2>3. I!IdentityProven'
    BY <2>1, Zenon DEF IdentityInv, I!IdentityProven
  <2>4. I!LifetimeHonoured'
    BY <2>1, Zenon DEF IdentityInv, I!LifetimeHonoured, I!Plain, I!ForThisRuntime
  <2>5. SignedFirst'
    BY <2>1, Zenon DEF IdentityInv, SignedFirst
  <2>. QED  BY <1>0, <2>1, <2>2, <2>3, <2>4, <2>5, Zenon DEF IdentityInv
<1>. QED  BY <1>1, <1>2, <1>3, <1>4, <1>5, Zenon DEF I!Next

(***************************************************************************)
(* CallerAuthenticator keeps its three promises, for every ring, setting,  *)
(* lifetime and allowance, whatever tokens are issued and altered: a       *)
(* verified caller is who a token signed by a trusted key says; a token is *)
(* good for its lifetime and no longer than the allowance on both sides;   *)
(* and no refusal tells what an unsigned token claims (_verified_claims).  *)
(***************************************************************************)
LEMMA CallersAlwaysProven ==
  ASSUME I!IdentityAssumption
  PROVE  I!Spec => []I!CallersProven
<1>1. I!Init => IdentityInv
  BY IdentityInit
<1>2. IdentityInv /\ [I!Next]_I!vars => IdentityInv'
  BY IdentityStep
<1>3. IdentityInv => I!CallersProven
  BY CallersHold
<1>. QED  BY <1>1, <1>2, <1>3, PTL DEF I!Spec

-----------------------------------------------------------------------------
(* Trust, whose proofs are in a module of their own.  An instance of that  *)
(* module names the definitions of the component anew, so each name is     *)
(* first shown to stand for what Perimeter calls it.                       *)

FP == INSTANCE TrustProofs WITH
        published <- sealed, Runtimes <- FreeRuntimes, Minors <- FreeMinors, MaxRevision <- MaxSealed
TP == INSTANCE TrustProofs WITH published <- sealed, MaxRevision <- MaxSealed

(* The steps under settings that change freely are those of TrustProofs. *)
LEMMA FreeStepsAgree == F!FreeNext <=> FP!FreeNext
<1>1. F!Publish <=> FP!Publish
  BY Zenon DEF F!Publish, F!Unsealed, F!DigestOf, F!SignDocument, F!SigningInput,
               FP!Publish, FP!Unsealed, FP!DigestOf, FP!SignDocument, FP!SigningInput
<1>2. ASSUME NEW r
      PROVE  F!FetchUnreliably(r) <=> FP!FetchUnreliably(r)
  <2>1. F!Active = FP!Active
    BY Zenon DEF F!Active, FP!Active
  <2>2. ASSUME NEW d
        PROVE  F!Deliveries(d) = FP!Deliveries(d)
    BY Zenon DEF F!Deliveries, F!DigestOf, FP!Deliveries, FP!DigestOf
  <2>3. ASSUME NEW d
        PROVE  F!Loads(r, d) <=> FP!Loads(r, d)
    BY Zenon DEF F!Loads, F!Supported, F!IntactDigest, F!DigestOf, F!Check, F!Verifies, F!Find,
                 F!SigningInput, FP!Loads, FP!Supported, FP!IntactDigest, FP!DigestOf, FP!Check,
                 FP!Verifies, FP!Find, FP!SigningInput
  <2>4. ASSUME NEW d
        PROVE  F!Receive(r, d) <=> FP!Receive(r, d)
    BY <2>3, Zenon DEF F!Receive, FP!Receive
  <2>. QED  BY <2>1, <2>2, <2>4, Zenon DEF F!FetchUnreliably, FP!FetchUnreliably
<1>3. ASSUME NEW r
      PROVE  F!Crash(r) <=> FP!Crash(r)
  BY Zenon DEF F!Crash, FP!Crash
<1>4. ASSUME NEW r, NEW m, NEW ring
      PROVE  F!Configure(r, m, ring) <=> FP!Configure(r, m, ring)
  BY Zenon DEF F!Configure, F!Configurations, F!RingAdmitted,
               FP!Configure, FP!Configurations, FP!RingAdmitted
<1>5. ASSUME NEW keys
      PROVE  F!ConfigureProducer(keys) <=> FP!ConfigureProducer(keys)
  BY Zenon DEF F!ConfigureProducer, FP!ConfigureProducer
<1>. QED  BY <1>1, <1>2, <1>3, <1>4, <1>5, Zenon DEF F!FreeNext, FP!FreeNext

(* What TrustProofs shows of held snapshots, in the names of Perimeter. *)
LEMMA FreeAuthentic ==
  ASSUME F!TrustAssumption PROVE F!FreeSpec => []F!HeldAuthentic
<1>1. FP!TrustAssumption
  BY Zenon DEF F!TrustAssumption, FP!TrustAssumption
<1>2. FP!FreeSpec => []FP!HeldAuthentic
  BY <1>1, FP!HeldSnapshotsAuthentic
<1>3. F!Init => FP!Init
  BY Zenon DEF F!Init, F!Builds, FP!Init, FP!Builds
<1>4. [F!FreeNext]_(F!vars) => [FP!FreeNext]_(FP!vars)
  BY FreeStepsAgree, Zenon DEF F!vars, FP!vars
<1>5. FP!HeldAuthentic => F!HeldAuthentic
  BY Zenon DEF F!HeldAuthentic, FP!HeldAuthentic
<1>. QED  BY <1>2, <1>3, <1>4, <1>5, PTL DEF F!FreeSpec, FP!FreeSpec

(* The documents that load in a rotation are those of TrustProofs. *)
LEMMA LoadsAgree == ASSUME NEW r, NEW d PROVE T!Loads(r, d) <=> TP!Loads(r, d)
BY Zenon DEF T!Loads, T!Supported, T!IntactDigest, T!DigestOf, T!Check, T!Verifies, T!Find,
             T!SigningInput, TP!Loads, TP!Supported, TP!IntactDigest, TP!DigestOf, TP!Check,
             TP!Verifies, TP!Find, TP!SigningInput

(* The steps of a rotation are those of TrustProofs. *)
LEMMA RotationStepsAgree == T!RotationNext <=> TP!RotationNext
<1>1. T!Publish <=> TP!Publish
  BY Zenon DEF T!Publish, T!Unsealed, T!DigestOf, T!SignDocument, T!SigningInput,
               TP!Publish, TP!Unsealed, TP!DigestOf, TP!SignDocument, TP!SigningInput
<1>2. ASSUME NEW r
      PROVE  T!Fetch(r) <=> TP!Fetch(r)
  BY LoadsAgree, Zenon DEF T!Fetch, T!Active, T!Receive, TP!Fetch, TP!Active, TP!Receive
<1>3. ASSUME NEW r
      PROVE  T!Crash(r) <=> TP!Crash(r)
  BY Zenon DEF T!Crash, TP!Crash
<1>4. ASSUME NEW r, NEW m, NEW ring
      PROVE  T!Configure(r, m, ring) <=> TP!Configure(r, m, ring)
  BY Zenon DEF T!Configure, T!Configurations, T!RingAdmitted,
               TP!Configure, TP!Configurations, TP!RingAdmitted
<1>5. ASSUME NEW r
      PROVE  (T!AddKey(r) <=> TP!AddKey(r)) /\ (T!RetireKey(r) <=> TP!RetireKey(r))
  BY <1>4, Zenon DEF T!AddKey, T!RetireKey, T!ServesOld, TP!AddKey, TP!RetireKey, TP!ServesOld
<1>6. ASSUME NEW b
      PROVE  T!Newer(b) = TP!Newer(b)
  BY Zenon DEF T!Newer, T!Builds, TP!Newer, TP!Builds
<1>7. ASSUME NEW r
      PROVE  T!UpgradeRuntime(r) <=> TP!UpgradeRuntime(r)
  BY <1>6, Zenon DEF T!UpgradeRuntime, TP!UpgradeRuntime
<1>8. T!UpgradeProducer <=> TP!UpgradeProducer
  BY <1>6, Zenon DEF T!UpgradeProducer, TP!UpgradeProducer
<1>9. T!SwitchKey <=> TP!SwitchKey
  BY Zenon DEF T!SwitchKey, T!ConfigureProducer, TP!SwitchKey, TP!ConfigureProducer
<1>. QED  BY <1>1, <1>2, <1>3, <1>5, <1>7, <1>8, <1>9, Zenon DEF T!RotationNext, TP!RotationNext

(* What a step takes from a runtime is what TrustProofs says. *)
LEMMA LossesAgree == T!LossExplained <=> TP!LossExplained
<1>1. ASSUME NEW r
      PROVE  (T!CanLoad(r) <=> TP!CanLoad(r)) /\ (T!CanLoad(r)' <=> TP!CanLoad(r)')
  BY Zenon DEF T!CanLoad, T!Active, T!Loads, T!Supported, T!IntactDigest, T!DigestOf, T!Check,
               T!Verifies, T!Find, T!SigningInput, TP!CanLoad, TP!Active, TP!Loads, TP!Supported,
               TP!IntactDigest, TP!DigestOf, TP!Check, TP!Verifies, TP!Find, TP!SigningInput
<1>. QED  BY <1>1, Zenon DEF T!LossExplained, T!Active, TP!LossExplained, TP!Active

(* What TrustProofs shows of rotations, in the names of Perimeter. *)
LEMMA RotationLosses ==
  ASSUME T!TrustAssumption PROVE T!RotationSpec => T!LossesExplained
<1>1. TP!TrustAssumption
  BY Zenon DEF T!TrustAssumption, TP!TrustAssumption
<1>2. TP!RotationSpec => TP!LossesExplained
  BY <1>1, TP!RotationLossesExplained
<1>3. T!Init => TP!Init
  BY Zenon DEF T!Init, T!Builds, TP!Init, TP!Builds
<1>4. [T!RotationNext]_(T!vars) => [TP!RotationNext]_(TP!vars)
  BY RotationStepsAgree, Zenon DEF T!vars, TP!vars
<1>5. [TP!LossExplained]_(TP!vars) => [T!LossExplained]_(T!vars)
  BY LossesAgree, Zenon DEF T!vars, TP!vars
<1>. QED
  BY <1>2, <1>3, <1>4, <1>5, PTL
  DEF T!RotationSpec, TP!RotationSpec, T!LossesExplained, TP!LossesExplained

-----------------------------------------------------------------------------
(* The provider. *)

(* A loop that returns at the first place which will do returns at one. *)
LEMMA FirstWillDo ==
  ASSUME NEW S \in SUBSET Nat, S # {}
  PROVE  P!First(S) \in S
<1>1. \E m \in S : \A k \in S : m <= k
  BY LeastOf
<1>. QED  BY <1>1, Zenon DEF P!First

(* A set of numbers that is not empty has a least member. *)
LEMMA LeastExists ==
  ASSUME NEW S \in SUBSET Nat, S # {}
  PROVE  \E m \in S : \A k \in S : m <= k
BY LeastOf

(* f is what comes of the first n sequences, one after the other. *)
FlatRun(f, s, n) ==
  f = [i \in 1 .. n |-> IF i = 1 THEN s[i] ELSE f[i - 1] \o s[i]]

(* The recursion of FlattenSeq defines a function. *)
LEMMA FlatRunExists ==
  ASSUME NEW s
  PROVE  \A n \in Nat : \E f : FlatRun(f, s, n)
<1> DEFINE bad == {n \in Nat : ~ \E f : FlatRun(f, s, n)}
<1> SUFFICES ASSUME bad # {} PROVE FALSE
  OBVIOUS
<1>1. PICK n \in bad : \A k \in bad : n <= k
  <2>1. bad \in SUBSET Nat
    OBVIOUS
  <2> HIDE DEF bad
  <2>. QED  BY <2>1, LeastExists
<1>2. n \in Nat /\ ~ \E f : FlatRun(f, s, n)
  OBVIOUS
<1>3. n # 0
  <2> DEFINE e == [i \in 1 .. 0 |-> s[i]]
  <2>1. FlatRun(e, s, 0)
    BY DEF FlatRun
  <2>. QED  BY <1>2, <2>1
<1>4. n - 1 \in Nat /\ n - 1 \notin bad
  BY <1>1, <1>2, <1>3
<1>5. PICK f : FlatRun(f, s, n - 1)
  BY <1>4
<1> DEFINE g == [i \in 1 .. n |-> IF i = n THEN (IF n = 1 THEN s[n] ELSE f[n - 1] \o s[n]) ELSE f[i]]
<1>6. FlatRun(g, s, n)
  <2>1. ASSUME NEW i \in 1 .. n
        PROVE  g[i] = IF i = 1 THEN s[i] ELSE g[i - 1] \o s[i]
    <3>1. i # 1 => i - 1 \in 1 .. n /\ g[i - 1] = f[i - 1]
      BY <1>2
    <3>2. CASE i = n
      BY <1>3, <3>1, <3>2
    <3>3. CASE i # n
      <4>1. i \in 1 .. (n - 1) /\ g[i] = f[i]
        BY <1>2, <3>3
      <4>2. f[i] = IF i = 1 THEN s[i] ELSE f[i - 1] \o s[i]
        BY <1>5, <4>1 DEF FlatRun
      <4>. QED  BY <3>1, <4>1, <4>2
    <3>. QED  BY <3>2, <3>3
  <2>2. g = [i \in 1 .. n |-> g[i]]
    OBVIOUS
  <2> HIDE DEF g
  <2>. QED  BY <2>1, <2>2 DEF FlatRun
<1>. QED  BY <1>2, <1>6

(* Sequences over a set make a sequence over it. *)
LEMMA FlattenedIsSequence ==
  ASSUME NEW S, NEW s \in Seq(Seq(S))
  PROVE  P!FlattenSeq(s) \in Seq(S)
<1>1. Len(s) \in Nat /\ \A i \in 1 .. Len(s) : s[i] \in Seq(S)
  OBVIOUS
<1>2. CASE Len(s) = 0
  <2>1. s = <<>>
    BY <1>2
  <2>2. P!FlattenSeq(s) = s
    BY <1>2 DEF P!FlattenSeq
  <2>3. <<>> \in Seq(S)
    OBVIOUS
  <2>. QED  BY <2>1, <2>2, <2>3, Zenon
<1>3. CASE ~(Len(s) = 0)
  <2> DEFINE run == CHOOSE f : FlatRun(f, s, Len(s))
  <2>1. FlatRun(run, s, Len(s))
    BY <1>1, FlatRunExists
  <2>2. P!FlattenSeq(s) = run[Len(s)]
    BY <1>3 DEF P!FlattenSeq, FlatRun
  <2> HIDE DEF run
  <2> DEFINE bad == {i \in 1 .. Len(s) : run[i] \notin Seq(S)}
  <2>3. bad = {}
    <3> SUFFICES ASSUME bad # {} PROVE FALSE
      OBVIOUS
    <3>1. PICK n \in bad : \A k \in bad : n <= k
      <4>1. bad \in SUBSET Nat
        BY <1>1
      <4> HIDE DEF bad
      <4>. QED  BY <4>1, LeastExists
    <3>2. n \in 1 .. Len(s) /\ run[n] \notin Seq(S)
      OBVIOUS
    <3>3. run[n] = IF n = 1 THEN s[n] ELSE run[n - 1] \o s[n]
      BY <2>1, <3>2 DEF FlatRun
    <3>4. n # 1
      BY <1>1, <3>2, <3>3
    <3>5. n - 1 \in 1 .. Len(s) /\ n - 1 \notin bad
      BY <1>1, <3>1, <3>2, <3>4
    <3>6. run[n - 1] \in Seq(S) /\ s[n] \in Seq(S)
      BY <1>1, <3>2, <3>5
    <3>7. run[n - 1] \o s[n] \in Seq(S)
      BY <3>6
    <3>. QED  BY <3>2, <3>3, <3>4, <3>7
  <2>4. Len(s) \in 1 .. Len(s)
    BY <1>1, <1>3
  <2>. QED  BY <2>2, <2>3, <2>4
<1>. QED  BY <1>2, <1>3

(* The tokens of a request are a sequence. *)
LEMMA TokensAreSequence ==
  ASSUME NEW r, P!Listed(r)
  PROVE  \E S : P!Tokens(r) \in Seq(S)
<1> DEFINE S == UNION {{r[i].prefix, r[i].rest, r[i].word} : i \in DOMAIN r}
           s == [i \in DOMAIN r |-> P!TokensOf(r[i])]
<1>1. ASSUME NEW i \in DOMAIN r PROVE P!TokensOf(r[i]) \in Seq(S)
  <2>1. r[i].prefix \in S /\ r[i].rest \in S /\ r[i].word \in S
    OBVIOUS
  <2> HIDE DEF S
  <2>2. <<r[i].prefix, r[i].rest>> \in Seq(S) /\ <<r[i].word>> \in Seq(S)
    BY <2>1
  <2>. QED  BY <2>2, Zenon DEF P!TokensOf
<1>2. s \in Seq(Seq(S))
  <2>1. DOMAIN r = 1 .. Len(r) /\ Len(r) \in Nat
    BY DEF P!Listed
  <2>2. s \in [1 .. Len(r) -> Seq(S)]
    BY <1>1, <2>1
  <2> HIDE DEF s, S
  <2>. QED  BY <2>1, <2>2
<1>3. P!Tokens(r) = P!FlattenSeq(s)
  BY DEF P!Tokens
<1> HIDE DEF s, S
<1>. QED  BY <1>2, <1>3, FlattenedIsSequence

(* So they have places from 1 on, and finitely many words are told. *)
LEMMA TokenPlaces ==
  ASSUME NEW r, P!Listed(r)
  PROVE  /\ Len(P!Tokens(r)) \in Nat
         /\ DOMAIN P!Tokens(r) = 1 .. Len(P!Tokens(r))
         /\ IsFiniteSet(P!ContentWords(r))
<1> DEFINE t == P!Tokens(r)
<1>1. PICK S : t \in Seq(S)
  BY TokensAreSequence
<1> HIDE DEF t
<1>2. Len(t) \in Nat /\ DOMAIN t = 1 .. Len(t)
  BY <1>1
<1>3. IsFiniteSet(1 .. Len(t))
  BY <1>2, FS_Interval
<1>4. IsFiniteSet({t[i] : i \in 1 .. Len(t)})
  <2> DEFINE image == {t[i] : i \in 1 .. Len(t)}
             f == [i \in 1 .. Len(t) |-> t[i]]
  <2>1. f \in [1 .. Len(t) -> image] /\ \A x \in image : \E i \in 1 .. Len(t) : f[i] = x
    OBVIOUS
  <2>2. f \in Surjection(1 .. Len(t), image)
    <3> HIDE DEF f, image
    <3>. QED  BY <2>1 DEF Surjection
  <2>. QED  BY <1>3, <2>2, FS_Surjection
<1>5. P!ContentWords(r) \subseteq {t[i] : i \in 1 .. Len(t)}
  BY <1>2 DEF P!ContentWords, P!ToSet, t
<1>6. IsFiniteSet(P!ContentWords(r))
  BY <1>4, <1>5, FS_Subset
<1>. QED  BY <1>2, <1>6 DEF t

(* A score is a whole number of half points. *)
LEMMA ScoreType ==
  ASSUME NEW words, IsFiniteSet(words), NEW tool
  PROVE  P!Score(words, tool) \in Int
<1>1. \A S : P!Cardinality(S) = Cardinality(S)
  BY DEF P!Cardinality, Cardinality
<1>2. ASSUME NEW S PROVE P!Cardinality(words \cap S) \in Nat
  <2>1. words \cap S \subseteq words
    OBVIOUS
  <2>2. Cardinality(words \cap S) \in Nat
    BY <2>1, FS_Subset, FS_CardinalityType
  <2>. QED  BY <1>1, <2>2
<1>3. P!Penalty(words, tool) \in Nat
  BY DEF P!Penalty
<1> DEFINE names == P!Cardinality(words \cap P!ToSet(tool.name))
           tags == P!Cardinality(words \cap tool.tags)
           args == P!Cardinality(words \cap UNION {P!ToSet(a.name) : a \in tool.arguments})
           told == P!Cardinality(words \cap (tool.description \ Stopwords))
<1>4. names \in Nat /\ tags \in Nat /\ args \in Nat /\ told \in Nat
  BY <1>2
<1>5. P!Score(words, tool) = 4 * names + 3 * tags + 2 * args + told - P!Penalty(words, tool)
  BY DEF P!Score
<1> HIDE DEF names, tags, args, told
<1>. QED  BY <1>3, <1>4, <1>5

(* The sort puts every two tools in an order. *)
Ordered(words, list) ==
  /\ \A i \in DOMAIN list : P!Score(words, list[i]) \in Int /\ list[i].rank \in Nat

(* Of the tools of a list one comes before all. *)
LEMMA BestExists ==
  ASSUME NEW words, NEW list, Len(list) \in Nat, Len(list) > 0, DOMAIN list = 1 .. Len(list),
         Ordered(words, list)
  PROVE  \E i \in DOMAIN list : \A j \in DOMAIN list : P!Before(words, list, i, j)
<1>1. \A i, j \in DOMAIN list : P!Before(words, list, i, j) \/ P!Before(words, list, j, i)
  BY DEF P!Before, Ordered
<1>2. \A i, j, k \in DOMAIN list :
        P!Before(words, list, i, j) /\ P!Before(words, list, j, k) => P!Before(words, list, i, k)
  BY DEF P!Before, Ordered
<1> DEFINE best(n) == \E i \in 1 .. n : \A j \in 1 .. n : P!Before(words, list, i, j)
           bad == {n \in 1 .. Len(list) : ~best(n)}
<1>3. bad = {}
  <2> SUFFICES ASSUME bad # {} PROVE FALSE
    OBVIOUS
  <2>1. PICK n \in bad : \A k \in bad : n <= k
    <3>1. bad \in SUBSET Nat
      OBVIOUS
    <3> HIDE DEF bad
    <3>. QED  BY <3>1, LeastExists
  <2>2. n \in 1 .. Len(list) /\ ~best(n)
    OBVIOUS
  <2>3. P!Before(words, list, n, n)
    BY <1>1, <2>2
  <2>4. n # 1
    <3>1. n = 1 => best(n)
      BY <2>3
    <3>. QED  BY <2>2, <3>1
  <2>5. n - 1 \in 1 .. Len(list) /\ best(n - 1)
    <3>1. n \in 1 .. Len(list)
      BY <2>2
    <3>2. n - 1 \in 1 .. Len(list) /\ ~(n <= n - 1)
      BY <2>4, <3>1
    <3>3. n - 1 \notin bad
      BY <2>1, <3>2, Zenon
    <3> HIDE DEF best
    <3>. QED  BY <3>2, <3>3
  <2>6. PICK i \in 1 .. n - 1 : \A j \in 1 .. n - 1 : P!Before(words, list, i, j)
    BY <2>5
  <2>7. i \in 1 .. n /\ n \in 1 .. n /\ i \in DOMAIN list /\ n \in DOMAIN list
    BY <2>2, <2>6
  <2>8. ASSUME NEW j \in 1 .. n PROVE j \in DOMAIN list /\ (j = n \/ j \in 1 .. n - 1)
    <3>1. n \in Nat /\ n <= Len(list)
      BY <2>7
    <3> HIDE DEF bad, best
    <3>2. j \in 1 .. Len(list)
      BY <3>1
    <3>3. j = n \/ j \in 1 .. n - 1
      BY <3>1
    <3>. QED  BY <3>2, <3>3
  <2>9. CASE P!Before(words, list, i, n)
    <3>1. \A j \in 1 .. n : P!Before(words, list, i, j)
      BY <2>6, <2>8, <2>9
    <3>. QED  BY <2>2, <2>7, <3>1
  <2>10. CASE P!Before(words, list, n, i)
    <3>1. \A j \in 1 .. n : P!Before(words, list, n, j)
      BY <1>2, <2>3, <2>6, <2>7, <2>8, <2>10
    <3>. QED  BY <2>2, <2>7, <3>1
  <2>. QED  BY <1>1, <2>7, <2>9, <2>10
<1>4. Len(list) \in 1 .. Len(list)
  OBVIOUS
<1>5. best(Len(list))
  BY <1>3, <1>4
<1>. QED  BY <1>5

(* The tool that select_tool looks at. *)
Best(words, list) ==
  CHOOSE i \in DOMAIN list : \A j \in DOMAIN list : P!Before(words, list, i, j)

(* Two lists of the same tools have the same best tool. *)
LEMMA BestIsOne ==
  ASSUME NEW words, NEW l, NEW m,
         \E i \in DOMAIN l : \A j \in DOMAIN l : P!Before(words, l, i, j),
         \E i \in DOMAIN m : \A j \in DOMAIN m : P!Before(words, m, i, j),
         Ordered(words, l), Ordered(words, m),
         \A i, j \in DOMAIN l : l[i].rank = l[j].rank => l[i] = l[j],
         P!ToSet(l) = P!ToSet(m)
  PROVE  l[Best(words, l)] = m[Best(words, m)]
<1> DEFINE a == Best(words, l)
           b == Best(words, m)
<1>1. a \in DOMAIN l /\ \A j \in DOMAIN l : P!Before(words, l, a, j)
  BY Zenon DEF Best
<1>2. b \in DOMAIN m /\ \A j \in DOMAIN m : P!Before(words, m, b, j)
  BY Zenon DEF Best
<1> HIDE DEF a, b
<1>3. PICK c \in DOMAIN l : l[c] = m[b]
  BY <1>2 DEF P!ToSet
<1>4. PICK d \in DOMAIN m : m[d] = l[a]
  BY <1>1 DEF P!ToSet
<1>5. P!Before(words, l, a, c) /\ P!Before(words, m, b, d)
  BY <1>1, <1>2, <1>3, <1>4
<1>6. l[a].rank = l[c].rank
  BY <1>1, <1>2, <1>3, <1>4, <1>5 DEF P!Before, Ordered
<1>7. l[a] = l[c]
  BY <1>1, <1>6
<1>. QED  BY <1>3, <1>7 DEF a, b

(* What the assumption says of one list. *)
LEMMA ListsOrdered ==
  ASSUME P!ProviderAssumption, NEW words, IsFiniteSet(words), NEW list \in ToolLists
  PROVE  /\ Ordered(words, list)
         /\ \E i \in DOMAIN list : \A j \in DOMAIN list : P!Before(words, list, i, j)
         /\ \A i, j \in DOMAIN list : list[i].rank = list[j].rank => list[i] = list[j]
<1>1. /\ Len(list) \in Nat /\ DOMAIN list = 1 .. Len(list) /\ Len(list) > 0
      /\ \A i \in DOMAIN list : list[i].rank \in Nat
      /\ \A i, j \in DOMAIN list : list[i].rank = list[j].rank => list[i] = list[j]
  BY DEF P!ProviderAssumption, P!Listed
<1>2. Ordered(words, list)
  BY <1>1, ScoreType DEF Ordered
<1>. QED  BY <1>1, <1>2, BestExists

(* select_tool gives the best tool of the list, or none. *)
LEMMA SelectedIs ==
  ASSUME NEW r, NEW list
  PROVE  P!SelectTool(r, list) =
           IF \/ P!ContentWords(r) = {}
              \/ P!Score(P!ContentWords(r), list[Best(P!ContentWords(r), list)]) < P!Threshold
           THEN <<>> ELSE <<list[Best(P!ContentWords(r), list)]>>
BY Zenon DEF P!SelectTool, Best

(* So the order of the list does not matter. *)
LEMMA OrderIsNothing ==
  ASSUME P!ProviderAssumption, NEW r \in Utterances, NEW l \in ToolLists, NEW m \in ToolLists,
         P!ToSet(l) = P!ToSet(m)
  PROVE  P!SelectTool(r, l) = P!SelectTool(r, m)
<1> DEFINE words == P!ContentWords(r)
<1>1. IsFiniteSet(words)
  BY TokenPlaces DEF P!ProviderAssumption
<1>2. P!SelectTool(r, l) = IF words = {} \/ P!Score(words, l[Best(words, l)]) < P!Threshold
                           THEN <<>> ELSE <<l[Best(words, l)]>>
  BY SelectedIs
<1>3. P!SelectTool(r, m) = IF words = {} \/ P!Score(words, m[Best(words, m)]) < P!Threshold
                           THEN <<>> ELSE <<m[Best(words, m)]>>
  BY SelectedIs
<1> HIDE DEF words
<1>4. l[Best(words, l)] = m[Best(words, m)]
  BY <1>1, ListsOrdered, BestIsOne
<1>. QED  BY <1>2, <1>3, <1>4

(* What is selected is a tool of the list. *)
LEMMA SelectedIsListed ==
  ASSUME P!ProviderAssumption, NEW r \in Utterances, NEW list \in ToolLists
  PROVE  P!SelectTool(r, list) = <<>> \/ \E i \in DOMAIN list : P!SelectTool(r, list) = <<list[i]>>
<1> DEFINE words == P!ContentWords(r)
<1>1. IsFiniteSet(words)
  BY TokenPlaces DEF P!ProviderAssumption
<1>2. P!SelectTool(r, list) = <<>> \/ P!SelectTool(r, list) = <<list[Best(words, list)]>>
  BY SelectedIs, Zenon
<1> HIDE DEF words
<1>3. \E i \in DOMAIN list : \A j \in DOMAIN list : P!Before(words, list, i, j)
  BY <1>1, ListsOrdered
<1>4. Best(words, list) \in DOMAIN list
  BY <1>3, Zenon DEF Best
<1>. QED  BY <1>2, <1>4, Zenon

(* What describes an entity is a word of the request near its prefix. *)
LEMMA DescribedIsNear ==
  ASSUME NEW t, Len(t) \in Nat, DOMAIN t = 1 .. Len(t), NEW prefixes, P!Listed(prefixes),
         P!Described(t, prefixes) # <<>>
  PROVE  \E i, j \in DOMAIN t :
           /\ j - i \in {-2, -1, 1, 2}
           /\ P!Described(t, prefixes)[1] = [prefix |-> t[i], rest |-> t[j]]
<1> DEFINE usable == {k \in DOMAIN prefixes : P!Places(t, prefixes[k]) # {}}
           prefix == prefixes[P!First(usable)]
           i == P!First(P!Places(t, prefix))
           o == P!First(P!Describing(t, prefix, i))
<1>1. P!Described(t, prefixes) =
        IF usable = {} THEN <<>> ELSE <<[prefix |-> prefix, rest |-> t[i + P!Offsets[o]]]>>
  BY Zenon DEF P!Described
<1>2. usable # {}
  BY <1>1, Zenon
<1>3. usable \in SUBSET Nat
  BY DEF P!Listed
<1>4. P!First(usable) \in usable
  <2> HIDE DEF usable
  <2>. QED  BY <1>2, <1>3, FirstWillDo
<1>5. P!Places(t, prefix) # {}
  BY <1>4
<1> HIDE DEF usable, prefix
<1>6. P!Places(t, prefix) \in SUBSET Nat
  BY DEF P!Places
<1>7. i \in P!Places(t, prefix)
  BY <1>5, <1>6, FirstWillDo
<1>8. i \in DOMAIN t /\ t[i] = prefix /\ P!Describing(t, prefix, i) # {}
  BY <1>7 DEF P!Places
<1> HIDE DEF i
<1>9. P!Describing(t, prefix, i) \in SUBSET Nat
  BY DEF P!Describing
<1>10. o \in P!Describing(t, prefix, i)
  BY <1>8, <1>9, FirstWillDo
<1>11. o \in 1 .. 4 /\ i + P!Offsets[o] \in DOMAIN t
  BY <1>10 DEF P!Describing
<1> HIDE DEF o
<1>12. P!Offsets[o] \in {-2, -1, 1, 2}
  BY <1>11 DEF P!Offsets
<1>13. i \in Int
  BY <1>8
<1>14. (i + P!Offsets[o]) - i \in {-2, -1, 1, 2}
  BY <1>12, <1>13
<1>15. P!Described(t, prefixes)[1] = [prefix |-> t[i], rest |-> t[i + P!Offsets[o]]]
  BY <1>1, <1>2, <1>8
<1>. QED  BY <1>8, <1>11, <1>14, <1>15, Zenon

(* An identifier is one of the request or two near words of it. *)
LEMMA IdentifierIsSpoken ==
  ASSUME P!ProviderAssumption, utterance \in Utterances, NEW entity,
         P!Identifier(utterance, entity) # <<>>
  PROVE  P!Spoken(P!Identifier(utterance, entity)[1])
<1> DEFINE r == utterance
           known == P!EntityPrefixes(entity)
           named == {i \in DOMAIN r : r[i].kind \in {"kebab", "upper"} /\ r[i].prefix \in known}
           bare == {i \in DOMAIN r : r[i].kind = "upper"}
           id(i) == [prefix |-> r[i].prefix, rest |-> r[i].rest]
           found == P!Identifier(r, entity)
           near == P!Described(P!Tokens(r), P!SortedPrefixes(entity))
<1>1. found = IF named # {} THEN <<id(P!First(named))>>
              ELSE IF bare # {} /\ known \cap P!ToSet(P!Tokens(r)) # {} THEN <<id(P!First(bare))>>
              ELSE near
  BY Zenon DEF P!Identifier
<1>2. P!Listed(r)
  BY DEF P!ProviderAssumption
<1>3. named \in SUBSET Nat /\ bare \in SUBSET Nat
  BY <1>2 DEF P!Listed
<1>4. ASSUME NEW i \in DOMAIN r, r[i].kind \in {"kebab", "upper"}, found = <<id(i)>>
      PROVE  P!Spoken(found[1])
  <2>1. r[i] \in P!ToSet(r)
    BY DEF P!ToSet
  <2>2. found[1] = [prefix |-> r[i].prefix, rest |-> r[i].rest]
    BY <1>4
  <2> HIDE DEF found
  <2>3. found[1].prefix = r[i].prefix /\ found[1].rest = r[i].rest
    BY <2>2
  <2>. QED  BY <1>4, <2>1, <2>3 DEF P!Spoken
<1>5. CASE named # {}
  <2>1. P!First(named) \in named
    <3> HIDE DEF named
    <3>. QED  BY <1>3, <1>5, FirstWillDo
  <2>2. P!First(named) \in DOMAIN r /\ r[P!First(named)].kind \in {"kebab", "upper"}
    BY <2>1
  <2>3. found = <<id(P!First(named))>>
    BY <1>1, <1>5, Zenon
  <2>. QED  BY <1>4, <2>2, <2>3, Zenon
<1>6. CASE named = {} /\ bare # {} /\ known \cap P!ToSet(P!Tokens(r)) # {}
  <2>1. P!First(bare) \in bare
    <3> HIDE DEF bare
    <3>. QED  BY <1>3, <1>6, FirstWillDo
  <2>2. P!First(bare) \in DOMAIN r /\ r[P!First(bare)].kind \in {"kebab", "upper"}
    BY <2>1
  <2>3. found = <<id(P!First(bare))>>
    BY <1>1, <1>6, Zenon
  <2>. QED  BY <1>4, <2>2, <2>3, Zenon
<1>7. CASE named = {} /\ ~(bare # {} /\ known \cap P!ToSet(P!Tokens(r)) # {})
  <2>1. found = near
    BY <1>1, <1>7, Zenon
  <2>2. Len(P!Tokens(r)) \in Nat /\ DOMAIN P!Tokens(r) = 1 .. Len(P!Tokens(r))
    BY <1>2, TokenPlaces
  <2>3. P!Listed(P!SortedPrefixes(entity))
    <3>1. CASE entity \in DOMAIN Aliases
      BY <3>1 DEF P!ProviderAssumption, P!SortedPrefixes
    <3>2. CASE entity \notin DOMAIN Aliases
      <4>1. P!SortedPrefixes(entity) = <<entity>>
        BY <3>2 DEF P!SortedPrefixes
      <4>2. Len(<<entity>>) = 1 /\ DOMAIN <<entity>> = 1 .. 1
        OBVIOUS
      <4>. QED  BY <4>1, <4>2 DEF P!Listed
    <3>. QED  BY <3>1, <3>2
  <2>4. near # <<>>
    BY <2>1
  <2> DEFINE t == P!Tokens(r)
             prefixes == P!SortedPrefixes(entity)
  <2>5. \E i, j \in DOMAIN t : /\ j - i \in {-2, -1, 1, 2}
                               /\ near[1] = [prefix |-> t[i], rest |-> t[j]]
    <3>1. Len(t) \in Nat /\ DOMAIN t = 1 .. Len(t) /\ P!Listed(prefixes)
      BY <2>2, <2>3
    <3>2. near = P!Described(t, prefixes)
      OBVIOUS
    <3> HIDE DEF t, prefixes, near
    <3>3. P!Described(t, prefixes) # <<>>
      BY <2>4, <3>2
    <3>. QED  BY <3>1, <3>2, <3>3, DescribedIsNear
  <2> HIDE DEF near, found, t
  <2>6. \E i, j \in DOMAIN t : /\ j - i \in {-2, -1, 1, 2}
                               /\ t[i] = found[1].prefix /\ t[j] = found[1].rest
    BY <2>1, <2>5
  <2>7. \E i, j \in DOMAIN P!Tokens(utterance) :
          /\ j - i \in {-2, -1, 1, 2}
          /\ P!Tokens(utterance)[i] = found[1].prefix /\ P!Tokens(utterance)[j] = found[1].rest
    BY <2>6 DEF t
  <2>8. P!Spoken(found[1])
    BY <2>7, Zenon DEF P!Spoken
  <2>. QED  BY <2>8 DEF found
<1>. QED  BY <1>5, <1>6, <1>7

(* What _extract finds is said by the request and admitted by the schema. *)
LEMMA FoundIsGrounded ==
  ASSUME P!ProviderAssumption, utterance \in Utterances, NEW leaf, P!Listed(leaf.enum),
         P!Extract(utterance, leaf) # <<>>
  PROVE  P!Grounded(leaf, P!Extract(utterance, leaf)[1])
<1> DEFINE r == utterance
           found == P!Extract(r, leaf)
<1>1. P!Listed(r)
  BY DEF P!ProviderAssumption
<1>2. CASE leaf.type = "enum"
  <2> DEFINE said == {i \in DOMAIN leaf.enum : P!Mentions(r, leaf.enum[i])}
  <2>1. found = IF said = {} THEN <<>> ELSE <<[choice |-> leaf.enum[P!First(said)]]>>
    BY <1>2 DEF P!Extract
  <2>2. said # {}
    BY <2>1
  <2>3. said \in SUBSET Nat
    BY DEF P!Listed
  <2>4. P!First(said) \in said
    <3> HIDE DEF said
    <3>. QED  BY <2>2, <2>3, FirstWillDo
  <2>5. found[1].choice = leaf.enum[P!First(said)]
    BY <2>1, <2>2
  <2>6. found[1].choice \in P!ToSet(leaf.enum) /\ P!Mentions(r, found[1].choice)
    BY <2>4, <2>5 DEF P!ToSet
  <2> HIDE DEF found
  <2>. QED  BY <1>2, <2>6 DEF P!Grounded, found
<1>3. CASE leaf.type = "boolean"
  <2>1. found = IF P!FlagWords(leaf.name) # {} /\ P!FlagWords(leaf.name) \subseteq P!ContentWords(r)
                THEN <<[flag |-> TRUE]>> ELSE <<>>
    BY <1>3 DEF P!Extract
  <2>2. P!FlagWords(leaf.name) \subseteq P!ContentWords(r)
    BY <2>1
  <2>3. P!FlagWords(leaf.name) \subseteq P!ToSet(P!Tokens(r))
    BY <2>2 DEF P!ContentWords
  <2> HIDE DEF found
  <2>. QED  BY <1>3, <2>3 DEF P!Grounded
<1>4. CASE leaf.type = "integer"
  <2> DEFINE usable == {i \in DOMAIN r : r[i].number >= 0 /\ P!InRange(leaf, r[i].number)}
  <2>1. found = IF usable = {} THEN <<>> ELSE <<[number |-> r[P!First(usable)].number]>>
    BY <1>4 DEF P!Extract
  <2>2. usable # {}
    BY <2>1
  <2>3. usable \in SUBSET Nat
    BY <1>1 DEF P!Listed
  <2>4. P!First(usable) \in usable
    <3> HIDE DEF usable
    <3>. QED  BY <2>2, <2>3, FirstWillDo
  <2>5. found[1].number = r[P!First(usable)].number
    BY <2>1, <2>2
  <2>6. r[P!First(usable)] \in P!ToSet(r) /\ P!InRange(leaf, found[1].number)
    BY <2>4, <2>5 DEF P!ToSet
  <2>7. found[1].number \in {x.number : x \in P!ToSet(r)}
    BY <2>5, <2>6
  <2> HIDE DEF found
  <2>. QED  BY <1>4, <2>6, <2>7 DEF P!Grounded, P!InRange, found
<1>5. CASE leaf.type = "string"
  <2> DEFINE id == P!Identifier(r, leaf.name[1])
  <2>1. found = IF Len(leaf.name) # 2 \/ leaf.name[2] # "id" THEN <<>>
                ELSE IF id = <<>> THEN <<>> ELSE <<[id |-> id[1]]>>
    BY <1>5 DEF P!Extract
  <2>2. id # <<>> /\ found = <<[id |-> id[1]]>>
    BY <2>1
  <2>3. P!Spoken(id[1])
    BY <2>2, IdentifierIsSpoken
  <2> HIDE DEF id
  <2>4. found[1].id = id[1]
    BY <2>2
  <2> HIDE DEF found
  <2>. QED  BY <1>5, <2>3, <2>4 DEF P!Grounded, found
<1>6. CASE leaf.type \notin {"enum", "boolean", "integer", "string"}
  BY <1>6 DEF P!Extract
<1>. QED  BY <1>2, <1>3, <1>4, <1>5, <1>6

(* The inductive invariant of the provider. *)
ProviderInv ==
  /\ utterance \in Utterances
  /\ offered \in ToolLists
  /\ selection = <<>> \/ \E i \in DOMAIN offered : selection = <<offered[i]>>
  /\ proposal # <<>> =>
       selection # <<>> /\ proposal = <<P!Proposal(utterance, selection[1])>>

(* It holds at first, and every step keeps it. *)
LEMMA ProviderInvHolds == ASSUME P!ProviderAssumption PROVE P!Spec => []ProviderInv
<1>1. P!Init => ProviderInv
  BY DEF P!Init, ProviderInv
<1>2. ProviderInv /\ [P!Next]_(P!vars) => ProviderInv'
  <2> SUFFICES ASSUME ProviderInv, [P!Next]_(P!vars) PROVE ProviderInv'
    OBVIOUS
  <2>1. CASE P!Select
    <3>1. /\ selection = <<>> /\ selection' = P!SelectTool(utterance, offered)
          /\ utterance' = utterance /\ offered' = offered /\ proposal' = proposal
      BY <2>1 DEF P!Select
    <3>2. utterance \in Utterances /\ offered \in ToolLists /\ proposal = <<>>
      BY <3>1 DEF ProviderInv
    <3>3. selection' = <<>> \/ \E i \in DOMAIN offered : selection' = <<offered[i]>>
      BY <3>1, <3>2, SelectedIsListed
    <3>. QED  BY <3>1, <3>2, <3>3 DEF ProviderInv
  <2>2. CASE P!Propose
    <3>1. /\ selection # <<>> /\ proposal' = <<P!Proposal(utterance, selection[1])>>
          /\ utterance' = utterance /\ offered' = offered /\ selection' = selection
      BY <2>2, Zenon DEF P!Propose
    <3>. QED  BY <3>1 DEF ProviderInv
  <2>3. CASE UNCHANGED P!vars
    BY <2>3 DEF ProviderInv, P!vars
  <2>. QED  BY <2>1, <2>2, <2>3 DEF P!Next
<1>. QED  BY <1>1, <1>2, PTL DEF P!Spec

(* What generate_arguments proposes is grounded, argument by argument. *)
LEMMA ProposedIsGrounded ==
  ASSUME P!ProviderAssumption, ProviderInv
  PROVE  P!ProposalGrounded
<1> SUFFICES ASSUME proposal # <<>> PROVE P!ProposalGrounded
  BY DEF P!ProposalGrounded
<1>1. selection # <<>> /\ proposal = <<P!Proposal(utterance, selection[1])>>
  BY DEF ProviderInv
<1>2. PICK i \in DOMAIN offered : selection = <<offered[i]>>
  BY <1>1 DEF ProviderInv
<1> DEFINE tool == selection[1]
           given == {[name |-> a.name, leaves |-> P!Found(utterance, a)] :
                       a \in {b \in tool.arguments : P!Found(utterance, b) # {}}}
           required == {a.name : a \in {b \in tool.arguments : b.required}}
<1>3. P!Proposal(utterance, tool) =
        [arguments |-> given, missing |-> required \ {p.name : p \in given}]
  BY Zenon DEF P!Proposal
<1>4. proposal[1].arguments = given /\ proposal[1].missing = required \ {p.name : p \in given}
  <2> HIDE DEF given, required, tool
  <2>1. proposal[1] = P!Proposal(utterance, tool)
    BY <1>1 DEF tool
  <2>. QED  BY <1>3, <2>1
<1>5. ASSUME NEW p \in given
      PROVE  \E a \in tool.arguments :
               /\ p.name = a.name
               /\ \A v \in p.leaves : \E l \in a.leaves : l.path = v.path /\ P!Grounded(l, v.value)
  <2>1. PICK a \in tool.arguments : p = [name |-> a.name, leaves |-> P!Found(utterance, a)]
    OBVIOUS
  <2>2. p.name = a.name /\ p.leaves = P!Found(utterance, a)
    BY <2>1
  <2>3. ASSUME NEW v \in P!Found(utterance, a)
        PROVE  \E l \in a.leaves : l.path = v.path /\ P!Grounded(l, v.value)
    <3>1. PICK l \in a.leaves : /\ P!Extract(utterance, l) # <<>>
                                /\ v = [path |-> l.path, value |-> P!Extract(utterance, l)[1]]
      BY <2>3, Zenon DEF P!Found
    <3>2. v.path = l.path /\ v.value = P!Extract(utterance, l)[1]
      BY <3>1
    <3>3. tool = offered[i]
      BY <1>2
    <3>4. P!Listed(l.enum) /\ utterance \in Utterances
      <4>1. utterance \in Utterances /\ offered \in ToolLists
        BY DEF ProviderInv
      <4>2. \A j \in DOMAIN offered : \A b \in offered[j].arguments : \A k \in b.leaves : P!Listed(k.enum)
        BY <4>1, Zenon DEF P!ProviderAssumption
      <4>. QED  BY <3>3, <4>1, <4>2
    <3>5. P!Grounded(l, P!Extract(utterance, l)[1])
      BY <3>1, <3>4, FoundIsGrounded
    <3>. QED  BY <3>2, <3>5, Zenon
  <2>. QED  BY <2>2, <2>3, Zenon
<1>. QED  BY <1>4, <1>5, Zenon DEF P!ProposalGrounded

(* The provider keeps its two promises. *)
LEMMA ProposalsAlwaysGrounded ==
  ASSUME P!ProviderAssumption PROVE P!Spec => [](P!SelectionStable /\ P!ProposalGrounded)
<1>1. ProviderInv => P!SelectionStable
  BY OrderIsNothing DEF ProviderInv, P!SelectionStable
<1>2. ProviderInv => P!ProposalGrounded
  BY ProposedIsGrounded
<1>. QED  BY <1>1, <1>2, ProviderInvHolds, PTL

-----------------------------------------------------------------------------
(* The adapters. *)

ValueSteps == [name : STRING, index : Nat]

(* A path is its front and its last step. *)
LEMMA PathEnds ==
  ASSUME NEW S, NEW q \in Seq(S), q # <<>>
  PROVE  /\ A!Front(q) \in Seq(S)
         /\ Len(q) \in Nat /\ Len(q) > 0
         /\ Len(A!Front(q)) = Len(q) - 1
         /\ \A i \in 1 .. Len(q) - 1 : A!Front(q)[i] = q[i]
         /\ A!Last(q) = q[Len(q)] /\ A!Last(q) \in S
<1>1. Len(q) \in Nat /\ Len(q) # 0
  OBVIOUS
<1>2. A!Front(q) = [i \in 1 .. Len(q) - 1 |-> q[i]]
  BY <1>1 DEF A!Front
<1>3. /\ A!Front(q) \in Seq(S)
      /\ Len(A!Front(q)) = Len(q) - 1
      /\ \A i \in 1 .. Len(q) - 1 : A!Front(q)[i] = q[i]
  BY <1>1, <1>2
<1>. QED  BY <1>1, <1>3 DEF A!Last

(* One path begins with another. *)
LEMMA PrefixIs ==
  ASSUME NEW S, NEW q \in Seq(S), NEW z \in Seq(S)
  PROVE  A!IsPrefix(q, z) <=> Len(q) <= Len(z) /\ \A i \in 1 .. Len(q) : q[i] = z[i]
<1>1. Len(q) \in Nat /\ Len(z) \in Nat
  OBVIOUS
<1>2. SubSeq(q, 1, Len(q)) = [i \in 1 .. Len(q) |-> q[i]]
  BY <1>1
<1>3. Len(q) <= Len(z) => SubSeq(z, 1, Len(q)) = [i \in 1 .. Len(q) |-> z[i]]
  BY <1>1
<1> DEFINE f == [i \in 1 .. Len(q) |-> q[i]]
           g == [i \in 1 .. Len(q) |-> z[i]]
<1>4. f = g <=> \A i \in 1 .. Len(q) : q[i] = z[i]
  <2>1. ASSUME f = g, NEW i \in 1 .. Len(q) PROVE q[i] = z[i]
    <3>1. f[i] = q[i] /\ g[i] = z[i]
      OBVIOUS
    <3>. QED  BY <2>1, <3>1
  <2>. QED  BY <2>1
<1> HIDE DEF f, g
<1>. QED  BY <1>2, <1>3, <1>4 DEF A!IsPrefix, f, g

(* A path that begins with another is the other and the rest. *)
LEMMA PrefixAndRest ==
  ASSUME NEW S, NEW q \in Seq(S), NEW z \in Seq(S), A!IsPrefix(q, z)
  PROVE  /\ SubSeq(z, Len(q) + 1, Len(z)) \in Seq(S)
         /\ q \o SubSeq(z, Len(q) + 1, Len(z)) = z
<1>1. /\ Len(q) \in Nat /\ Len(z) \in Nat /\ Len(q) <= Len(z)
      /\ \A i \in 1 .. Len(q) : q[i] = z[i]
  BY PrefixIs
<1> DEFINE r == SubSeq(z, Len(q) + 1, Len(z))
<1>2. r \in Seq(S) /\ Len(r) = Len(z) - Len(q) /\ \A i \in 1 .. Len(z) - Len(q) : r[i] = z[Len(q) + i]
  BY <1>1
<1> HIDE DEF r
<1>3. q \o r \in Seq(S) /\ Len(q \o r) = Len(z)
  BY <1>1, <1>2
<1>4. ASSUME NEW i \in 1 .. Len(z) PROVE (q \o r)[i] = z[i]
  <2>1. CASE i <= Len(q)
    BY <1>1, <1>2, <2>1
  <2>2. CASE i > Len(q)
    <3>1. i - Len(q) \in 1 .. Len(z) - Len(q) /\ Len(q) + (i - Len(q)) = i
      BY <1>1, <2>2
    <3>2. (q \o r)[i] = r[i - Len(q)]
      BY <1>1, <1>2, <2>2
    <3>. QED  BY <1>2, <3>1, <3>2
  <2>3. i <= Len(q) \/ i > Len(q)
    BY <1>1
  <2>. QED  BY <2>1, <2>2, <2>3
<1>. QED  BY <1>2, <1>3, <1>4 DEF r

(* What a value is made of. *)
LEMMA ValuePaths ==
  ASSUME A!AdaptersAssumption, NEW x \in ArgumentObjects
  PROVE  /\ DOMAIN x \subseteq Seq(ValueSteps) /\ <<>> \in DOMAIN x
         /\ x[<<>>].t = "object"
         /\ \A q \in DOMAIN x : x[q].t = "null" => x[q] = A!NullNode
         /\ \A q \in DOMAIN x \ {<<>>} :
              /\ A!Front(q) \in DOMAIN x
              /\ x[A!Front(q)].t \in {"array", "object"}
              /\ A!Last(q).name = ArrayStep => x[A!Front(q)].t = "array"
              /\ A!Last(q).name # ArrayStep => A!Last(q).index = 0
<1>1. A!ValueTree(x) /\ x[<<>>].t = "object" /\ \A q \in DOMAIN x : x[q].t = "null" => x[q] = A!NullNode
  BY Zenon DEF A!AdaptersAssumption
<1>. QED  BY <1>1 DEF A!ValueTree, ValueSteps

(* What a part is in lies above it. *)
LEMMA PartsHaveStems ==
  ASSUME A!AdaptersAssumption, NEW x \in ArgumentObjects, NEW q \in Seq(ValueSteps),
         NEW z \in DOMAIN x, A!IsPrefix(q, z), z # q
  PROVE  q \in DOMAIN x /\ x[q].t \in {"array", "object"}
<1> DEFINE longer == {k \in Nat : \E y \in DOMAIN x : A!IsPrefix(q, y) /\ y # q /\ Len(y) = k}
<1>1. DOMAIN x \subseteq Seq(ValueSteps)
  BY ValuePaths
<1>2. longer # {} /\ longer \in SUBSET Nat
  <2>1. Len(z) \in longer
    BY <1>1
  <2>. QED  BY <2>1
<1>3. PICK k \in longer : \A j \in longer : k <= j
  <2> HIDE DEF longer
  <2>. QED  BY <1>2, LeastExists
<1>4. PICK y \in DOMAIN x : A!IsPrefix(q, y) /\ y # q /\ Len(y) = k
  BY <1>3
<1>5. y \in Seq(ValueSteps) /\ Len(q) \in Nat /\ Len(y) \in Nat
  BY <1>1
<1>6. Len(q) <= Len(y) /\ \A i \in 1 .. Len(q) : q[i] = y[i]
  BY <1>4, <1>5, PrefixIs
<1>7. Len(q) < Len(y)
  <2>1. Len(q) = Len(y) => q = y
    BY <1>5, <1>6
  <2>. QED  BY <1>4, <1>5, <1>6, <2>1
<1>8. y # <<>>
  BY <1>5, <1>7
<1> DEFINE f == A!Front(y)
<1>9. /\ f \in DOMAIN x /\ x[f].t \in {"array", "object"}
      /\ f \in Seq(ValueSteps) /\ Len(f) = Len(y) - 1
      /\ \A i \in 1 .. Len(y) - 1 : f[i] = y[i]
  BY <1>5, <1>8, ValuePaths, PathEnds
<1> HIDE DEF f
<1>10. A!IsPrefix(q, f)
  <2>1. Len(q) <= Len(f) /\ \A i \in 1 .. Len(q) : q[i] = f[i]
    BY <1>5, <1>6, <1>7, <1>9
  <2>. QED  BY <1>9, <2>1, PrefixIs
<1>11. f = q
  <2>1. SUFFICES ASSUME f # q PROVE FALSE
    OBVIOUS
  <2>2. Len(f) \in longer
    BY <1>5, <1>7, <1>9, <1>10, <2>1
  <2> HIDE DEF longer
  <2>. QED  BY <1>3, <1>4, <1>5, <1>9, <2>2
<1>. QED  BY <1>9, <1>11

(* A null has nothing below it, and neither has what is not there. *)
LEMMA PartOfNull ==
  ASSUME NEW y, DOMAIN y \subseteq Seq(ValueSteps), NEW q \in DOMAIN y, y[q] = A!NullNode,
         \A z \in DOMAIN y : A!IsPrefix(q, z) => z = q
  PROVE  A!Part(y, q) = A!Null
<1>1. q \in Seq(ValueSteps) /\ Len(q) \in Nat
  OBVIOUS
<1>2. {z \in DOMAIN y : A!IsPrefix(q, z)} = {q}
  <2>1. A!IsPrefix(q, q)
    BY <1>1, PrefixIs
  <2>. QED  BY <2>1
<1>3. SubSeq(q, Len(q) + 1, Len(q)) = <<>>
  BY <1>1
<1>4. {SubSeq(z, Len(q) + 1, Len(z)) : z \in {q}} = {<<>>}
  BY <1>3
<1>5. q \o <<>> = q
  BY <1>1
<1>6. A!Part(y, q) = [r \in {<<>>} |-> y[q \o r]]
  BY <1>2, <1>4 DEF A!Part
<1>7. A!Part(y, q) = [r \in {<<>>} |-> A!NullNode]
  BY <1>5, <1>6
<1>. QED  BY <1>7 DEF A!Null

(* At its own root a part is what is at the path. *)
LEMMA PartAtRoot ==
  ASSUME NEW y, DOMAIN y \subseteq Seq(ValueSteps), NEW q \in DOMAIN y
  PROVE  A!Part(y, q)[<<>>] = y[q]
<1>1. q \in Seq(ValueSteps) /\ Len(q) \in Nat /\ A!IsPrefix(q, q)
  <2>1. q \in Seq(ValueSteps)
    OBVIOUS
  <2>. QED  BY <2>1, PrefixIs
<1>2. SubSeq(q, Len(q) + 1, Len(q)) = <<>> /\ q \o <<>> = q
  BY <1>1
<1>3. <<>> \in {SubSeq(z, Len(q) + 1, Len(z)) : z \in {w \in DOMAIN y : A!IsPrefix(q, w)}}
  BY <1>1, <1>2
<1> DEFINE rests == {SubSeq(z, Len(q) + 1, Len(z)) : z \in {w \in DOMAIN y : A!IsPrefix(q, w)}}
<1> HIDE DEF rests
<1>4. [r \in rests |-> y[q \o r]][<<>>] = y[q]
  BY <1>2, <1>3 DEF rests
<1>. QED  BY <1>4 DEF A!Part, rests

(* Values that agree below a path have the same part there. *)
LEMMA SamePart ==
  ASSUME NEW x, NEW y, DOMAIN x \subseteq Seq(ValueSteps), DOMAIN y \subseteq Seq(ValueSteps),
         NEW q \in Seq(ValueSteps),
         \A z \in Seq(ValueSteps) : A!IsPrefix(q, z) =>
           (z \in DOMAIN x <=> z \in DOMAIN y) /\ (z \in DOMAIN x => x[z] = y[z])
  PROVE  A!Part(x, q) = A!Part(y, q)
<1> DEFINE X == {z \in DOMAIN x : A!IsPrefix(q, z)}
           Y == {z \in DOMAIN y : A!IsPrefix(q, z)}
           rests == {SubSeq(z, Len(q) + 1, Len(z)) : z \in X}
<1>1. X = Y
  OBVIOUS
<1>2. \A z \in X : q \o SubSeq(z, Len(q) + 1, Len(z)) = z /\ x[z] = y[z]
  BY PrefixAndRest
<1>3. \A r \in rests : x[q \o r] = y[q \o r]
  <2> HIDE DEF X
  <2>. QED  BY <1>2
<1>4. A!Part(x, q) = [r \in rests |-> x[q \o r]]
  BY DEF A!Part
<1>5. A!Part(y, q) = [r \in rests |-> y[q \o r]]
  BY <1>1 DEF A!Part
<1> HIDE DEF rests, X, Y
<1>. QED  BY <1>3, <1>4, <1>5

(* A null is a null. *)
LEMMA NullNodeIsNull == A!NullNode.t = "null"
BY DEF A!NullNode

(* The strict form of a schema that _strictify does not refuse. *)
Strict(s) == [p \in DOMAIN s |-> A!StrictNode(s, p)]

(* A schema that is closed and lists what it requires. *)
Tightened(s, p) == A!Entered(s, p) /\ s[p].types = {"object"}

(* What _strictify and _allow_null make of one schema. *)
LEMMA StrictNodeIs ==
  ASSUME NEW s, A!CanonicalSchema(s), NEW p \in DOMAIN s
  PROVE  /\ Strict(s)[p].types = IF A!Optional(s, p) THEN s[p].types \cup {"null"} ELSE s[p].types
         /\ A!ToSet(Strict(s)[p].enum) =
              IF A!Optional(s, p) THEN {e \cup {A!Null} : e \in A!ToSet(s[p].enum)}
              ELSE A!ToSet(s[p].enum)
         /\ Tightened(s, p) => Strict(s)[p].required = A!Properties(s, p) /\ Strict(s)[p].open = FALSE
         /\ ~Tightened(s, p) => Strict(s)[p].required = s[p].required /\ Strict(s)[p].open = s[p].open
<1> DEFINE n == s[p]
           o == A!StrictObject(s, p)
           w == A!AllowNull(o)
<1>1. DOMAIN n = {"types", "enum", "required", "open", "stray"}
  BY DEF A!CanonicalSchema
<1>2. /\ DOMAIN o = {"types", "enum", "required", "open", "stray"}
      /\ o.types = n.types /\ o.enum = n.enum
      /\ Tightened(s, p) => o.required = A!Properties(s, p) /\ o.open = FALSE
      /\ ~Tightened(s, p) => o.required = n.required /\ o.open = n.open
  <2>1. CASE Tightened(s, p)
    <3>1. o = [n EXCEPT !.required = A!Properties(s, p), !.open = FALSE]
      BY <2>1 DEF A!StrictObject, Tightened
    <3> HIDE DEF o, n
    <3>. QED  BY <1>1, <2>1, <3>1
  <2>2. CASE ~Tightened(s, p)
    <3>1. o = n
      BY <2>2 DEF A!StrictObject, Tightened
    <3> HIDE DEF o, n
    <3>. QED  BY <1>1, <2>2, <3>1
  <2>. QED  BY <2>1, <2>2
<1> HIDE DEF o
<1>3. /\ w.types = o.types \cup {"null"} /\ w.enum = [i \in DOMAIN o.enum |-> o.enum[i] \cup {A!Null}]
      /\ w.required = o.required /\ w.open = o.open
  BY <1>2 DEF A!AllowNull
<1> HIDE DEF w, n
<1>4. A!ToSet(w.enum) = {e \cup {A!Null} : e \in A!ToSet(o.enum)}
  <2> DEFINE f == [i \in DOMAIN o.enum |-> o.enum[i] \cup {A!Null}]
  <2>1. {f[i] : i \in DOMAIN f} = {e \cup {A!Null} : e \in {o.enum[i] : i \in DOMAIN o.enum}}
    OBVIOUS
  <2>2. w.enum = f
    BY <1>3
  <2>3. A!ToSet(f) = {f[i] : i \in DOMAIN f} /\ A!ToSet(o.enum) = {o.enum[i] : i \in DOMAIN o.enum}
    BY Zenon DEF A!ToSet
  <2> HIDE DEF f
  <2>. QED  BY <2>1, <2>2, <2>3
<1>5. Strict(s)[p] = IF A!Optional(s, p) THEN w ELSE o
  BY DEF Strict, A!StrictNode, w, o
<1>. QED  BY <1>2, <1>3, <1>4, <1>5, Zenon DEF n

(* What a canonical schema is made of. *)
LEMMA SchemaPaths ==
  ASSUME NEW s, A!CanonicalSchema(s)
  PROVE  /\ <<>> \in DOMAIN s /\ DOMAIN s \subseteq Seq(STRING)
         /\ s[<<>>].types = {"object"} /\ A!ToSet(s[<<>>].enum) = {}
         /\ \A p \in DOMAIN s : s[p].required \subseteq A!Properties(s, p)
         /\ DOMAIN Strict(s) = DOMAIN s
<1>1. A!SchemaTree(s) /\ s[<<>>].types = {"object"} /\ s[<<>>].enum = <<>>
      /\ \A p \in DOMAIN s : s[p].required \subseteq A!Properties(s, p)
  BY DEF A!CanonicalSchema
<1>2. A!ToSet(<<>>) = {}
  BY DEF A!ToSet
<1>. QED  BY <1>1, <1>2 DEF A!SchemaTree, Strict

(* Of a schema that can be projected, a type that admits null is null. *)
LEMMA NullTypes ==
  ASSUME NEW s, A!CanonicalSchema(s), A!Projectable(s), NEW p \in DOMAIN s, "null" \in s[p].types
  PROVE  \A e \in A!ToSet(s[p].enum) : A!Null \in e
<1>1. IsFiniteSet(s[p].types) /\ Cardinality(s[p].types) <= 1
  <2>1. A!IsFiniteSet(s[p].types) /\ A!Cardinality(s[p].types) <= 1
    BY DEF A!CanonicalSchema, A!Projectable, A!NodeProjectable
  <2>2. \A S : A!Cardinality(S) = Cardinality(S) /\ (A!IsFiniteSet(S) <=> IsFiniteSet(S))
    BY DEF A!Cardinality, Cardinality, A!IsFiniteSet, IsFiniteSet
  <2>. QED  BY <2>1, <2>2
<1>2. Cardinality(s[p].types) \in Nat /\ Cardinality(s[p].types) # 0
  BY <1>1, FS_CardinalityType, FS_EmptySet
<1>3. Cardinality(s[p].types) = 1
  BY <1>1, <1>2
<1>4. \E t : s[p].types = {t}
  BY <1>1, <1>3, FS_Singleton
<1>5. s[p].types = {"null"}
  BY <1>4
<1>. QED  BY <1>5 DEF A!CanonicalSchema

(* A path of one step is that step. *)
LEMMA SingleStep ==
  ASSUME NEW S, NEW q \in Seq(S), Len(q) = 1
  PROVE  q = <<q[1]>>
OBVIOUS

(* The paths of arguments. *)
LEMMA TopPath ==
  ASSUME NEW q \in Seq(ValueSteps), Len(q) = 1
  PROVE  /\ q # <<>> /\ A!Front(q) = <<>> /\ A!Last(q) = q[1] /\ q = <<q[1]>>
         /\ A!Last(q).name \in STRING /\ A!SchemaPath(q) = <<A!Last(q).name>>
<1>1. q[1] \in ValueSteps /\ q # <<>> /\ q = <<q[1]>> /\ DOMAIN q = {1}
  BY SingleStep
<1>2. A!Front(q) = <<>> /\ A!Last(q) = q[1]
  BY DEF A!Front, A!Last
<1>3. A!SchemaPath(q) = [i \in {1} |-> q[i].name]
  BY <1>1 DEF A!SchemaPath
<1>4. [i \in {1} |-> q[i].name] = <<q[1].name>>
  OBVIOUS
<1>. QED  BY <1>1, <1>2, <1>3, <1>4 DEF ValueSteps

(* An argument is optional where it is not required. *)
LEMMA TopOptional ==
  ASSUME NEW s, A!CanonicalSchema(s), NEW n \in STRING, n # ArrayStep
  PROVE  A!Optional(s, <<n>>) <=> n \notin s[<<>>].required
<1> DEFINE p == <<n>>
<1>1. p # <<>> /\ DOMAIN p = {1} /\ p[1] = n /\ Len(p) = 1
  OBVIOUS
<1>2. A!Front(p) = <<>> /\ A!Last(p) = n /\ SubSeq(p, 1, 0) = <<>>
  BY DEF A!Front, A!Last
<1>3. A!Entered(s, p)
  <2>1. s[<<>>].types = {"object"}
    BY DEF A!CanonicalSchema
  <2> HIDE DEF p
  <2>2. ASSUME NEW i \in DOMAIN p
        PROVE  p[i] # ArrayStep /\ s[SubSeq(p, 1, i - 1)].types = {"object"}
    <3>1. i = 1 /\ i - 1 = 0
      BY <1>1
    <3>. QED  BY <1>1, <1>2, <2>1, <3>1
  <2>. QED  BY <2>2 DEF A!Entered
<1> HIDE DEF p
<1>4. A!Optional(s, p) <=> n \notin s[<<>>].required
  BY <1>1, <1>2, <1>3 DEF A!Optional
<1>. QED  BY <1>4 DEF p

(* The tool itself is not optional, and it is tightened. *)
LEMMA TopTightened ==
  ASSUME NEW s, A!CanonicalSchema(s)
  PROVE  ~A!Optional(s, <<>>) /\ Tightened(s, <<>>)
BY DEF A!Optional, Tightened, A!Entered, A!CanonicalSchema

(* normalize_provider_arguments takes no member away except at the top,    *)
(* and there none that is required.                                        *)
LEMMA MembersStay ==
  ASSUME A!AdaptersAssumption, NEW x \in ArgumentObjects, NEW s, NEW q, NEW r \in A!Members(x, q),
         q # <<>> \/ r \in s[<<>>].required
  PROVE  r \in A!Members(A!Normalized(s, x), q)
<1>1. PICK z \in DOMAIN x : z # <<>> /\ A!Front(z) = q /\ A!Last(z).name = r
  BY Zenon DEF A!Members, A!Below
<1>2. z \in Seq(ValueSteps)
  BY ValuePaths
<1>3. z \notin A!Placeholders(s, x)
  <2>1. Len(z) = 1 => A!Front(z) = <<>>
    BY <1>2, TopPath
  <2>. QED  BY <1>1, <2>1 DEF A!Placeholders
<1>4. z \in DOMAIN A!Normalized(s, x)
  BY <1>3 DEF A!Normalized
<1> HIDE DEF A!Normalized
<1>. QED  BY <1>1, <1>4, Zenon DEF A!Members, A!Below

(* What it leaves of an argument is the argument. *)
LEMMA PartsStay ==
  ASSUME A!AdaptersAssumption, NEW x \in ArgumentObjects, NEW s,
         NEW q \in DOMAIN A!Normalized(s, x), q # <<>>
  PROVE  A!Part(A!Normalized(s, x), q) = A!Part(x, q)
<1> DEFINE N == A!Normalized(s, x)
           lost == A!Placeholders(s, x)
<1>1. DOMAIN N = DOMAIN x \ lost /\ \A z \in DOMAIN N : N[z] = x[z]
  BY DEF A!Normalized
<1>2. DOMAIN x \subseteq Seq(ValueSteps)
  BY ValuePaths
<1> HIDE DEF N
<1>3. q \in Seq(ValueSteps) /\ q \notin lost /\ Len(q) \in Nat /\ Len(q) # 0
  BY <1>1, <1>2 DEF N
<1>4. ASSUME NEW z \in Seq(ValueSteps), A!IsPrefix(q, z) PROVE z \notin lost
  <2>1. SUFFICES ASSUME z \in lost PROVE FALSE
    OBVIOUS
  <2>2. Len(z) = 1
    BY <2>1 DEF A!Placeholders
  <2>3. Len(q) <= Len(z) /\ \A i \in 1 .. Len(q) : q[i] = z[i]
    BY <1>3, <1>4, PrefixIs
  <2>4. Len(q) = 1 /\ q[1] = z[1]
    BY <1>3, <2>2, <2>3
  <2>5. q = z
    BY <1>3, <2>2, <2>4
  <2>. QED  BY <1>3, <2>1, <2>5
<1> HIDE DEF lost
<1>5. \A z \in Seq(ValueSteps) : A!IsPrefix(q, z) =>
        (z \in DOMAIN N <=> z \in DOMAIN x) /\ (z \in DOMAIN N => N[z] = x[z])
  BY <1>1, <1>4
<1>6. DOMAIN N \subseteq Seq(ValueSteps)
  BY <1>1, <1>2
<1>. QED  BY <1>2, <1>3, <1>5, <1>6, SamePart DEF N

(* What _strictify needs to know of the types of optional properties. *)
Typed(s) == \A p \in DOMAIN s : A!Optional(s, p) => s[p].types # {}

(* A call that the strict form accepts, with no placeholder below the top  *)
(* level, is valid once those on top are gone.                             *)
LEMMA NormalizedIsValid ==
  ASSUME A!AdaptersAssumption, NEW s, A!CanonicalSchema(s), A!Projectable(s), Typed(s),
         NEW x \in ArgumentObjects, A!NullsMeant(s, x), A!Accepts(Strict(s), x)
  PROVE  A!Accepts(s, A!Normalized(s, x))
<1> DEFINE N == A!Normalized(s, x)
           lost == A!Placeholders(s, x)
<1>1. DOMAIN N = DOMAIN x \ lost /\ \A z \in DOMAIN N : N[z] = x[z]
  BY DEF A!Normalized
<1> HIDE DEF N, lost
<1>2. SUFFICES ASSUME NEW q \in DOMAIN N PROVE A!AcceptsAt(s, N, q)
  BY Zenon DEF A!Accepts, N
<1>3. q \in DOMAIN x /\ q \notin lost /\ N[q] = x[q] /\ A!AcceptsAt(Strict(s), x, q)
  BY <1>1, Zenon DEF A!Accepts
<1> DEFINE p == A!SchemaPath(q)
<1> HIDE DEF p
<1>4. q \in Seq(ValueSteps) /\ (x[q].t = "null" => x[q] = A!NullNode) /\ DOMAIN x \subseteq Seq(ValueSteps)
  BY <1>3, ValuePaths
<1>5. ASSUME p \in DOMAIN s PROVE A!AcceptsNode(s[p], N, q)
  <2>1. A!AcceptsNode(Strict(s)[p], x, q)
    BY <1>3, <1>5, SchemaPaths DEF A!AcceptsAt, p
  <2>2. /\ Strict(s)[p].types = {} \/ x[q].t \in Strict(s)[p].types
        /\ \A e \in A!ToSet(Strict(s)[p].enum) : A!Part(x, q) \in e
        /\ x[q].t = "object" => Strict(s)[p].required \subseteq A!Members(x, q)
    BY <2>1 DEF A!AcceptsNode
  <2>3. /\ A!Optional(s, p) => Strict(s)[p].types = s[p].types \cup {"null"}
        /\ ~A!Optional(s, p) => Strict(s)[p].types = s[p].types
        /\ A!Optional(s, p) =>
             A!ToSet(Strict(s)[p].enum) = {e \cup {A!Null} : e \in A!ToSet(s[p].enum)}
        /\ ~A!Optional(s, p) => A!ToSet(Strict(s)[p].enum) = A!ToSet(s[p].enum)
    BY <1>5, StrictNodeIs
  <2>4. s[p].required \subseteq Strict(s)[p].required
    <3>1. s[p].required \subseteq A!Properties(s, p)
      BY <1>5, SchemaPaths
    <3>2. /\ Tightened(s, p) => Strict(s)[p].required = A!Properties(s, p)
          /\ ~Tightened(s, p) => Strict(s)[p].required = s[p].required
      BY <1>5, StrictNodeIs
    <3>. QED  BY <3>1, <3>2
  <2>5. ASSUME A!Optional(s, p), x[q].t = "null" PROVE "null" \in s[p].types
    <3> SUFFICES ASSUME "null" \notin s[p].types PROVE FALSE
      OBVIOUS
    <3>1. Len(q) = 1
      <4>1. Len(q) # 0
        <5>1. q = <<>> => p = <<>>
          BY DEF A!SchemaPath, p
        <5>2. p # <<>>
          BY <2>5, Zenon DEF A!Optional
        <5>. QED  BY <1>4, <5>1, <5>2
      <4>2. ~(Len(q) > 1)
        <5>1. SUFFICES ASSUME Len(q) > 1 PROVE FALSE
          OBVIOUS
        <5>2. A!AcceptsAt(s, x, q)
          BY <1>3, <2>5, <5>1 DEF A!NullsMeant
        <5>3. s[p].types = {} \/ x[q].t \in s[p].types
          BY <1>5, <5>2 DEF A!AcceptsAt, A!AcceptsNode, p
        <5>. QED  BY <1>5, <2>5, <5>3 DEF Typed
      <4>3. Len(q) \in Nat
        BY <1>4
      <4>4. \A n \in Nat : n # 0 /\ ~(n > 1) => n = 1
        OBVIOUS
      <4>. QED  BY <4>1, <4>2, <4>3, <4>4, Zenon
    <3>2. A!Last(q).name \in STRING /\ p = <<A!Last(q).name>>
      BY <1>4, <3>1, TopPath DEF p
    <3>3. A!Last(p) # ArrayStep /\ A!Last(p) \notin s[A!Front(p)].required
      BY <2>5 DEF A!Optional
    <3>4. A!Last(p) = A!Last(q).name /\ A!Front(p) = <<>>
      BY <3>2 DEF A!Last, A!Front
    <3>5. A!Last(q).name \notin s[<<>>].required
      BY <3>3, <3>4
    <3>. QED  BY <1>3, <1>5, <2>5, <3>1, <3>5 DEF lost, A!Placeholders, p
  <2>6. s[p].types = {} \/ x[q].t \in s[p].types
    BY <2>2, <2>3, <2>5
  <2>7. \A e \in A!ToSet(s[p].enum) : A!Part(x, q) \in e
    <3>1. SUFFICES ASSUME NEW e \in A!ToSet(s[p].enum) PROVE A!Part(x, q) \in e
      OBVIOUS
    <3>2. CASE ~A!Optional(s, p)
      BY <2>2, <2>3, <3>2
    <3>3. CASE A!Optional(s, p)
      <4>1. A!Part(x, q) \in e \cup {A!Null}
        BY <2>2, <2>3, <3>3
      <4>2. A!Part(x, q) = A!Null => A!Null \in e
        <5>1. SUFFICES ASSUME A!Part(x, q) = A!Null PROVE A!Null \in e
          OBVIOUS
        <5>2. A!Null[<<>>] = A!NullNode /\ A!NullNode.t = "null"
          BY NullNodeIsNull DEF A!Null
        <5>3. x[q].t = "null"
          BY <1>3, <1>4, <5>1, <5>2, PartAtRoot
        <5>. QED  BY <1>5, <2>5, <3>3, <5>3, NullTypes
      <4>. QED  BY <4>1, <4>2
    <3>. QED  BY <3>2, <3>3
  <2>8. q # <<>> => A!Part(N, q) = A!Part(x, q)
    BY <1>2, PartsStay DEF N
  <2>9. q = <<>> => A!ToSet(s[p].enum) = {}
    <3>1. A!SchemaPath(<<>>) = <<>>
      BY DEF A!SchemaPath
    <3>. QED  BY <3>1, SchemaPaths DEF p
  <2>10. x[q].t = "object" => s[p].required \subseteq A!Members(N, q)
    <3>1. SUFFICES ASSUME x[q].t = "object", NEW r \in s[p].required PROVE r \in A!Members(N, q)
      OBVIOUS
    <3>2. r \in A!Members(x, q)
      BY <2>2, <2>4, <3>1
    <3>3. q # <<>> \/ r \in s[<<>>].required
      <4>1. A!SchemaPath(<<>>) = <<>>
        BY DEF A!SchemaPath
      <4>. QED  BY <3>1, <4>1 DEF p
    <3>. QED  BY <3>2, <3>3, MembersStay DEF N
  <2>. QED  BY <1>3, <2>6, <2>7, <2>8, <2>9, <2>10, Zenon DEF A!AcceptsNode
<1>6. ASSUME p \notin DOMAIN s, A!SchemaPath(A!Front(q)) \in DOMAIN s
      PROVE  A!Last(q).name = ArrayStep \/ s[A!SchemaPath(A!Front(q))].open
  <2> DEFINE f == A!SchemaPath(A!Front(q))
  <2>1. A!Last(q).name = ArrayStep \/ Strict(s)[f].open
    BY <1>3, <1>6, SchemaPaths, Zenon DEF A!AcceptsAt, p
  <2>2. /\ Tightened(s, f) => Strict(s)[f].open = FALSE
        /\ ~Tightened(s, f) => Strict(s)[f].open = s[f].open
    BY <1>6, StrictNodeIs
  <2>. QED  BY <2>1, <2>2, Zenon
<1>. QED  BY <1>5, <1>6, Zenon DEF A!AcceptsAt, p

(* And only then: what is left in below the top level is refused there.    *)
LEMMA ValidHasNoPlaceholder ==
  ASSUME A!AdaptersAssumption, NEW s, NEW x \in ArgumentObjects,
         A!Accepts(s, A!Normalized(s, x))
  PROVE  A!NullsMeant(s, x)
<1> DEFINE N == A!Normalized(s, x)
<1>1. SUFFICES ASSUME NEW q \in DOMAIN x, Len(q) > 1, x[q].t = "null" PROVE A!AcceptsAt(s, x, q)
  BY DEF A!NullsMeant
<1>2. q \in Seq(ValueSteps) /\ q # <<>>
  <2>1. q \in Seq(ValueSteps)
    BY ValuePaths
  <2>2. Len(<<>>) = 0
    OBVIOUS
  <2>3. q # <<>>
    BY <1>1, <2>2
  <2>. QED  BY <2>1, <2>3
<1>3. q \in DOMAIN N /\ N[q] = x[q]
  <2>1. Len(q) # 1
    <3>1. Len(q) \in Nat
      BY <1>2
    <3>2. \A n \in Nat : n > 1 => n # 1
      OBVIOUS
    <3>. QED  BY <1>1, <3>1, <3>2, Zenon
  <2>2. q \notin A!Placeholders(s, x)
    BY <2>1, Zenon DEF A!Placeholders
  <2>. QED  BY <2>2 DEF A!Normalized
<1>4. A!Part(N, q) = A!Part(x, q)
  BY <1>2, <1>3, PartsStay
<1> HIDE DEF N
<1>5. A!AcceptsAt(s, N, q)
  BY <1>3, Zenon DEF A!Accepts, N
<1>6. x[q].t # "object"
  BY <1>1
<1>. QED  BY <1>3, <1>4, <1>5, <1>6, Zenon DEF A!AcceptsAt, A!AcceptsNode

(* What a call in the strict form is understood as has a form in it. *)
LEMMA UnderstoodIsSayable ==
  ASSUME A!AdaptersAssumption, NEW s, A!CanonicalSchema(s), NEW x \in ArgumentObjects,
         A!Accepts(Strict(s), x)
  PROVE  A!Sayable(s, Strict(s), A!Normalized(s, x))
<1> DEFINE N == A!Normalized(s, x)
<1>1. DOMAIN N = DOMAIN x \ A!Placeholders(s, x) /\ \A z \in DOMAIN N : N[z] = x[z]
  BY DEF A!Normalized
<1> HIDE DEF N
<1>2. ASSUME NEW q \in DOMAIN x, A!SchemaPath(q) \in DOMAIN Strict(s), x[q].t = "object"
      PROVE  Strict(s)[A!SchemaPath(q)].required \subseteq A!Members(x, q)
  <2>1. A!AcceptsNode(Strict(s)[A!SchemaPath(q)], x, q)
    BY <1>2, Zenon DEF A!Accepts, A!AcceptsAt
  <2>. QED  BY <1>2, <2>1 DEF A!AcceptsNode
<1>3. A!FullBelow(Strict(s), N)
  <2>1. SUFFICES ASSUME NEW q \in DOMAIN N, q # <<>>, A!SchemaPath(q) \in DOMAIN Strict(s),
                        N[q].t = "object", NEW r \in Strict(s)[A!SchemaPath(q)].required
                 PROVE  r \in A!Members(N, q)
    BY Zenon DEF A!FullBelow
  <2>2. r \in A!Members(x, q)
    BY <1>1, <1>2, <2>1
  <2>. QED  BY <2>1, <2>2, MembersStay DEF N
<1>4. ASSUME NEW q \in A!Absent(s, N) PROVE "null" \notin s[A!SchemaPath(q)].types
  <2>1. PICK n \in A!Properties(s, <<>>) \ A!Members(N, <<>>) : q = <<[name |-> n, index |-> 0]>>
    BY <1>4, Zenon DEF A!Absent
  <2>2. n \in A!Members(x, <<>>)
    <3>1. A!SchemaPath(<<>>) = <<>>
      BY DEF A!SchemaPath
    <3>2. Strict(s)[<<>>].required = A!Properties(s, <<>>)
      BY SchemaPaths, TopTightened, StrictNodeIs
    <3>. QED  BY <1>2, <2>1, <3>1, <3>2, ValuePaths, SchemaPaths
  <2>3. PICK z \in DOMAIN x : z # <<>> /\ A!Front(z) = <<>> /\ A!Last(z).name = n
    BY <2>2, Zenon DEF A!Members, A!Below
  <2>4. z \notin DOMAIN N
    <3>1. z \in DOMAIN N => n \in A!Members(N, <<>>)
      BY <2>3, Zenon DEF A!Members, A!Below
    <3>. QED  BY <2>1, <3>1
  <2>5. z \in A!Placeholders(s, x)
    BY <1>1, <2>4
  <2>6. Len(z) = 1 /\ "null" \notin s[A!SchemaPath(z)].types
    BY <2>5 DEF A!Placeholders
  <2>7. A!SchemaPath(z) = <<n>> /\ n \in STRING
    BY <2>3, <2>6, ValuePaths, TopPath
  <2>8. q \in Seq(ValueSteps) /\ Len(q) = 1 /\ q[1].name = n
    BY <2>1, <2>7 DEF ValueSteps
  <2>9. A!SchemaPath(q) = <<n>>
    BY <2>8, TopPath
  <2>. QED  BY <2>6, <2>7, <2>9
<1>. QED  BY <1>3, <1>4, Zenon DEF A!Sayable, N

(* What a model says for an argument that is not there. *)
LEMMA AbsentIs ==
  ASSUME A!AdaptersAssumption, NEW s, A!CanonicalSchema(s), NEW x \in ArgumentObjects,
         NEW q \in A!Absent(s, x)
  PROVE  /\ q \in Seq(ValueSteps) /\ Len(q) = 1 /\ q # <<>> /\ A!Front(q) = <<>>
         /\ A!Last(q).name \in A!Properties(s, <<>>) \ A!Members(x, <<>>)
         /\ A!Last(q).name \in STRING /\ A!Last(q).name # ArrayStep
         /\ A!SchemaPath(q) = <<A!Last(q).name>> /\ A!SchemaPath(q) \in DOMAIN s
         /\ \A z \in DOMAIN x : ~A!IsPrefix(q, z)
<1>1. PICK n \in A!Properties(s, <<>>) \ A!Members(x, <<>>) : q = <<[name |-> n, index |-> 0]>>
  BY Zenon DEF A!Absent
<1>2. n # ArrayStep /\ n \in A!Below(s, <<>>)
  BY <1>1 DEF A!Properties
<1>3. PICK p \in DOMAIN s : p # <<>> /\ A!Front(p) = <<>> /\ A!Last(p) = n
  BY <1>2, Zenon DEF A!Below
<1>4. p \in Seq(STRING)
  BY SchemaPaths
<1>5. Len(p) = 1 /\ p[1] = n /\ n \in STRING
  <2>1. Len(p) \in Nat /\ Len(<<>>) = Len(p) - 1 /\ n = p[Len(p)] /\ n \in STRING
    BY <1>3, <1>4, PathEnds
  <2>2. Len(<<>>) = 0
    OBVIOUS
  <2>3. Len(p) = 1
    BY <2>1, <2>2
  <2>. QED  BY <2>1, <2>3
<1>6. p = <<n>>
  <2>1. p = <<p[1]>>
    BY <1>4, <1>5, SingleStep
  <2>. QED  BY <1>5, <2>1
<1>7. q \in Seq(ValueSteps) /\ Len(q) = 1 /\ q[1] = [name |-> n, index |-> 0]
  BY <1>1, <1>5 DEF ValueSteps
<1>8. /\ q # <<>> /\ A!Front(q) = <<>> /\ A!Last(q).name = n
      /\ A!SchemaPath(q) = <<n>>
  BY <1>7, TopPath
<1>9. q \notin DOMAIN x
  <2>1. q \in DOMAIN x => n \in A!Members(x, <<>>)
    BY <1>8, Zenon DEF A!Members, A!Below
  <2>. QED  BY <1>1, <2>1
<1>10. \A z \in DOMAIN x : ~A!IsPrefix(q, z)
  BY <1>7, <1>9, PartsHaveStems
<1>. QED  BY <1>1, <1>2, <1>3, <1>5, <1>6, <1>7, <1>8, <1>10

(* What a model says has the same parts as what it means. *)
LEMMA SaidKeepsParts ==
  ASSUME A!AdaptersAssumption, NEW s, A!CanonicalSchema(s), NEW x \in ArgumentObjects
  PROVE  LET y == A!Said(s, x)
         IN  /\ DOMAIN y = DOMAIN x \cup A!Absent(s, x) /\ DOMAIN y \subseteq Seq(ValueSteps)
             /\ \A q \in DOMAIN x : y[q] = x[q]
             /\ \A q \in A!Absent(s, x) : q \notin DOMAIN x /\ y[q] = A!NullNode
             /\ \A q \in DOMAIN x \ {<<>>} : A!Part(y, q) = A!Part(x, q)
             /\ \A q \in A!Absent(s, x) : A!Part(y, q) = A!Null
             /\ \A q \in DOMAIN x : A!Members(x, q) \subseteq A!Members(y, q)
             /\ A!Properties(s, <<>>) \subseteq A!Members(y, <<>>)
<1> DEFINE y == A!Said(s, x)
           absent == A!Absent(s, x)
<1>1. DOMAIN x \subseteq Seq(ValueSteps)
  BY ValuePaths
<1>2. ASSUME NEW q \in absent PROVE q \notin DOMAIN x
  <2>1. q \in Seq(ValueSteps) /\ \A z \in DOMAIN x : ~A!IsPrefix(q, z)
    BY <1>2, AbsentIs
  <2>2. A!IsPrefix(q, q)
    BY <2>1, PrefixIs
  <2>. QED  BY <2>1, <2>2
<1>3. absent \subseteq Seq(ValueSteps)
  BY AbsentIs
<1> HIDE DEF absent
<1>4. /\ DOMAIN y = DOMAIN x \cup absent
      /\ \A q \in DOMAIN x : y[q] = x[q]
      /\ \A q \in absent : y[q] = A!NullNode
  BY <1>2 DEF A!Said, absent
<1> HIDE DEF y
<1>5. DOMAIN y \subseteq Seq(ValueSteps)
  BY <1>1, <1>3, <1>4
<1>6. ASSUME NEW q \in DOMAIN x, q # <<>> PROVE A!Part(y, q) = A!Part(x, q)
  <2>1. q \in Seq(ValueSteps) /\ Len(q) \in Nat /\ Len(q) # 0
    BY <1>1, <1>6
  <2>2. ASSUME NEW z \in Seq(ValueSteps), A!IsPrefix(q, z), z \in absent PROVE FALSE
    <3>1. Len(z) = 1
      BY <2>2, AbsentIs DEF absent
    <3>2. Len(q) <= Len(z) /\ \A i \in 1 .. Len(q) : q[i] = z[i]
      BY <2>1, <2>2, PrefixIs
    <3>3. Len(q) = 1 /\ q[1] = z[1]
      BY <2>1, <3>1, <3>2
    <3>4. q = z
      BY <2>1, <3>1, <3>3
    <3>. QED  BY <1>2, <1>6, <2>2, <3>4
  <2>3. \A z \in Seq(ValueSteps) : A!IsPrefix(q, z) =>
          (z \in DOMAIN y <=> z \in DOMAIN x) /\ (z \in DOMAIN y => y[z] = x[z])
    BY <1>4, <2>2
  <2>. QED  BY <1>1, <1>5, <2>1, <2>3, SamePart
<1>7. ASSUME NEW q \in absent PROVE A!Part(y, q) = A!Null
  <2>1. q \in Seq(ValueSteps) /\ Len(q) = 1 /\ \A z \in DOMAIN x : ~A!IsPrefix(q, z)
    BY <1>7, AbsentIs DEF absent
  <2>2. ASSUME NEW z \in DOMAIN y, A!IsPrefix(q, z) PROVE z = q
    <3>1. z \in absent
      BY <1>4, <2>1, <2>2
    <3>2. z \in Seq(ValueSteps) /\ Len(z) = 1
      BY <3>1, AbsentIs DEF absent
    <3>3. q[1] = z[1]
      BY <2>1, <2>2, <3>2, PrefixIs
    <3>. QED  BY <2>1, <3>2, <3>3
  <2>. QED  BY <1>4, <1>5, <1>7, <2>2, PartOfNull
<1>8. ASSUME NEW q \in DOMAIN x PROVE A!Members(x, q) \subseteq A!Members(y, q)
  <2>1. A!Below(x, q) \subseteq A!Below(y, q)
    BY <1>4, Zenon DEF A!Below
  <2>. QED  BY <2>1, Zenon DEF A!Members
<1>9. ASSUME NEW n \in A!Properties(s, <<>>) PROVE n \in A!Members(y, <<>>)
  <2>1. CASE n \in A!Members(x, <<>>)
    BY <1>8, <2>1, ValuePaths
  <2>2. CASE n \notin A!Members(x, <<>>)
    <3> DEFINE q == <<[name |-> n, index |-> 0]>>
    <3>1. q \in absent
      BY <1>9, <2>2, Zenon DEF A!Absent, absent
    <3>2. A!Last(q) = [name |-> n, index |-> 0] /\ q # <<>>
      BY DEF A!Last
    <3>3. A!Front(q) = <<>>
      BY <3>1, AbsentIs DEF absent
    <3> HIDE DEF q
    <3>4. A!Last(q) \in A!Below(y, <<>>)
      BY <1>4, <3>1, <3>2, <3>3, Zenon DEF A!Below
    <3>. QED  BY <3>2, <3>4 DEF A!Members
  <2>. QED  BY <2>1, <2>2
<1>. QED  BY <1>2, <1>4, <1>5, <1>6, <1>7, <1>8, <1>9, Zenon DEF y, absent

(* What a tool accepts and is sayable can be said in its strict form. *)
LEMMA SaidIsUnderstood ==
  ASSUME A!AdaptersAssumption, NEW s, A!CanonicalSchema(s), A!Projectable(s), Typed(s),
         NEW x \in ArgumentObjects, A!Accepts(s, x), A!FullBelow(Strict(s), x),
         \A q \in A!Absent(s, x) : "null" \notin s[A!SchemaPath(q)].types
  PROVE  A!Accepts(Strict(s), A!Said(s, x)) /\ A!Normalized(s, A!Said(s, x)) = x
<1> DEFINE y == A!Said(s, x)
           absent == A!Absent(s, x)
<1>1. /\ DOMAIN y = DOMAIN x \cup absent /\ DOMAIN y \subseteq Seq(ValueSteps)
      /\ \A q \in DOMAIN x : y[q] = x[q]
      /\ \A q \in absent : q \notin DOMAIN x /\ y[q] = A!NullNode
      /\ \A q \in DOMAIN x \ {<<>>} : A!Part(y, q) = A!Part(x, q)
      /\ \A q \in absent : A!Part(y, q) = A!Null
      /\ \A q \in DOMAIN x : A!Members(x, q) \subseteq A!Members(y, q)
      /\ A!Properties(s, <<>>) \subseteq A!Members(y, <<>>)
  BY SaidKeepsParts, Zenon
<1> HIDE DEF y, absent
<1>2. /\ <<>> \in DOMAIN x /\ x[<<>>].t = "object" /\ A!SchemaPath(<<>>) = <<>>
      /\ <<>> \in DOMAIN s /\ DOMAIN Strict(s) = DOMAIN s
  BY ValuePaths, SchemaPaths DEF A!SchemaPath
<1>3. s[<<>>].required \subseteq A!Members(x, <<>>)
  <2>1. A!AcceptsAt(s, x, <<>>)
    BY <1>2 DEF A!Accepts
  <2>2. A!AcceptsNode(s[<<>>], x, <<>>)
    BY <1>2, <2>1 DEF A!AcceptsAt
  <2>. QED  BY <1>2, <2>2 DEF A!AcceptsNode
<1>4. ASSUME NEW q \in absent
      PROVE  /\ A!SchemaPath(q) \in DOMAIN s /\ Len(q) = 1
             /\ A!Last(q).name \notin s[<<>>].required
             /\ A!Optional(s, A!SchemaPath(q))
  <2>1. /\ Len(q) = 1 /\ A!Last(q).name \notin A!Members(x, <<>>)
        /\ A!Last(q).name \in STRING /\ A!Last(q).name # ArrayStep
        /\ A!SchemaPath(q) = <<A!Last(q).name>> /\ A!SchemaPath(q) \in DOMAIN s
    BY <1>4, AbsentIs DEF absent
  <2>2. A!Last(q).name \notin s[<<>>].required
    BY <1>3, <2>1
  <2>. QED  BY <2>1, <2>2, TopOptional
<1>5. ASSUME NEW q \in absent PROVE A!AcceptsAt(Strict(s), y, q)
  <2> DEFINE p == A!SchemaPath(q)
             n == Strict(s)[p]
  <2>1. p \in DOMAIN s /\ A!Optional(s, p)
    BY <1>4, <1>5
  <2> HIDE DEF p
  <2>2. /\ n.types = s[p].types \cup {"null"}
        /\ A!ToSet(n.enum) = {e \cup {A!Null} : e \in A!ToSet(s[p].enum)}
    BY <2>1, StrictNodeIs
  <2> HIDE DEF n
  <2>3. y[q].t = "null"
    BY <1>1, <1>5, NullNodeIsNull
  <2>4. \A e \in A!ToSet(n.enum) : A!Part(y, q) \in e
    BY <1>1, <1>5, <2>2
  <2>5. A!AcceptsNode(n, y, q)
    BY <2>2, <2>3, <2>4 DEF A!AcceptsNode
  <2>. QED  BY <1>2, <2>1, <2>5 DEF A!AcceptsAt, p, n
<1>6. A!AcceptsAt(Strict(s), y, <<>>)
  <2> DEFINE n == Strict(s)[<<>>]
  <2>1. ~A!Optional(s, <<>>) /\ Tightened(s, <<>>)
    BY TopTightened
  <2>2. n.types = s[<<>>].types /\ A!ToSet(n.enum) = A!ToSet(s[<<>>].enum) /\ n.required = A!Properties(s, <<>>)
    BY <1>2, <2>1, StrictNodeIs
  <2>3. s[<<>>].types = {"object"} /\ A!ToSet(s[<<>>].enum) = {}
    BY SchemaPaths
  <2>4. y[<<>>].t = "object"
    BY <1>1, <1>2
  <2> HIDE DEF n
  <2>5. A!AcceptsNode(n, y, <<>>)
    BY <1>1, <2>2, <2>3, <2>4 DEF A!AcceptsNode
  <2>. QED  BY <1>2, <2>5 DEF A!AcceptsAt, n
<1>7. ASSUME NEW q \in DOMAIN x, q # <<>> PROVE A!AcceptsAt(Strict(s), y, q)
  <2> DEFINE p == A!SchemaPath(q)
             f == A!SchemaPath(A!Front(q))
  <2>1. A!AcceptsAt(s, x, q)
    BY Zenon DEF A!Accepts
  <2> HIDE DEF p, f
  <2>2. ASSUME p \in DOMAIN s PROVE A!AcceptsNode(Strict(s)[p], y, q)
    <3> DEFINE n == Strict(s)[p]
    <3>1. A!AcceptsNode(s[p], x, q)
      BY <2>1, <2>2 DEF A!AcceptsAt, p
    <3>2. /\ A!Optional(s, p) => n.types = s[p].types \cup {"null"}
          /\ ~A!Optional(s, p) => n.types = s[p].types
          /\ A!Optional(s, p) => A!ToSet(n.enum) = {e \cup {A!Null} : e \in A!ToSet(s[p].enum)}
          /\ ~A!Optional(s, p) => A!ToSet(n.enum) = A!ToSet(s[p].enum)
      BY <2>2, StrictNodeIs
    <3>3. x[q].t = "object" => n.required \subseteq A!Members(x, q)
      BY <1>2, <1>7, <2>2, Zenon DEF A!FullBelow, p
    <3> HIDE DEF n
    <3>4. A!Optional(s, p) => s[p].types # {}
      BY <2>2 DEF Typed
    <3>5. n.types = {} \/ y[q].t \in n.types
      BY <1>1, <1>7, <3>1, <3>2, <3>4 DEF A!AcceptsNode
    <3>6. \A e \in A!ToSet(n.enum) : A!Part(y, q) \in e
      BY <1>1, <1>7, <3>1, <3>2 DEF A!AcceptsNode
    <3>7. y[q].t = "object" => n.required \subseteq A!Members(y, q)
      BY <1>1, <1>7, <3>3
    <3>. QED  BY <3>5, <3>6, <3>7 DEF A!AcceptsNode, n
  <2>3. ASSUME p \notin DOMAIN s, f \in DOMAIN s
        PROVE  A!Last(q).name = ArrayStep \/ Strict(s)[f].open
    <3>1. A!Last(q).name = ArrayStep \/ s[f].open
      BY <2>1, <2>3, Zenon DEF A!AcceptsAt, p, f
    <3>2. s[f].open => ~Tightened(s, f)
      BY <2>3, Zenon DEF A!Projectable, A!NodeProjectable, Tightened
    <3>3. ~Tightened(s, f) => Strict(s)[f].open = s[f].open
      BY <2>3, StrictNodeIs, Zenon
    <3>. QED  BY <3>1, <3>2, <3>3, Zenon
  <2>. QED  BY <1>2, <2>2, <2>3, Zenon DEF A!AcceptsAt, p, f
<1>8. A!Accepts(Strict(s), y)
  BY <1>1, <1>5, <1>6, <1>7, Zenon DEF A!Accepts
<1>9. A!Placeholders(s, y) = absent
  <2>1. ASSUME NEW q \in absent PROVE q \in A!Placeholders(s, y)
    <3>1. q \in DOMAIN y /\ y[q].t = "null"
      BY <1>1, <2>1, NullNodeIsNull
    <3>2. "null" \notin s[A!SchemaPath(q)].types
      BY <2>1 DEF absent
    <3>. QED  BY <1>4, <2>1, <3>1, <3>2 DEF A!Placeholders
  <2>2. ASSUME NEW q \in A!Placeholders(s, y), q \in DOMAIN x PROVE FALSE
    <3> DEFINE p == A!SchemaPath(q)
    <3>1. /\ Len(q) = 1 /\ x[q].t = "null" /\ A!Last(q).name \notin s[<<>>].required
          /\ p \in DOMAIN s /\ "null" \notin s[p].types
      BY <1>1, <2>2 DEF A!Placeholders
    <3>2. q \in Seq(ValueSteps)
      BY <2>2, ValuePaths
    <3>3. q # <<>> /\ A!Front(q) = <<>> /\ A!Last(q).name \in STRING /\ p = <<A!Last(q).name>>
      BY <3>1, <3>2, TopPath
    <3>4. A!Last(q).name # ArrayStep
      <4>1. A!Last(q).name = ArrayStep => x[A!Front(q)].t = "array"
        BY <2>2, <3>3, ValuePaths
      <4>. QED  BY <1>2, <3>3, <4>1
    <3>5. A!Optional(s, p)
      BY <3>1, <3>3, <3>4, TopOptional
    <3>6. s[p].types # {}
      BY <3>1, <3>5 DEF Typed
    <3>7. A!AcceptsNode(s[p], x, q)
      BY <2>2, <3>1, Zenon DEF A!Accepts, A!AcceptsAt
    <3> HIDE DEF p
    <3>. QED  BY <3>1, <3>6, <3>7 DEF A!AcceptsNode
  <2>3. A!Placeholders(s, y) \subseteq DOMAIN y
    BY DEF A!Placeholders
  <2>. QED  BY <1>1, <2>1, <2>2, <2>3
<1>10. A!Normalized(s, y) = x
  <2>1. DOMAIN y \ A!Placeholders(s, y) = DOMAIN x
    BY <1>1, <1>9
  <2>2. A!Normalized(s, y) = [q \in DOMAIN x |-> y[q]]
    BY <2>1 DEF A!Normalized
  <2>3. x = [q \in DOMAIN x |-> x[q]]
    <3>1. x \in [DOMAIN x -> [t : STRING, v : STRING]]
      BY Zenon DEF A!AdaptersAssumption
    <3>. QED  BY <3>1
  <2>. QED  BY <1>1, <2>2, <2>3
<1>. QED  BY <1>8, <1>10 DEF y

(* What project_tool makes of a tool that it does not refuse. *)
LEMMA ProjectedAs ==
  ASSUME NEW s, NEW name, A!ProjectTool(name, s) # A!Refused
  PROVE  /\ A!Projectable(s)
         /\ A!ProjectTool(name, s) = A!Projected(A!ProjectTool(name, s).tree)
         /\ name = "openai" => Typed(s) /\ A!ProjectTool(name, s).tree = Strict(s)
         /\ name # "openai" => A!ProjectTool(name, s).tree = s
<1>1. \A t : A!Projected(t).tree = t
  BY DEF A!Projected
<1>2. A!Projectable(s)
  BY DEF A!ProjectTool
<1>3. CASE name = "openai"
  <2>1. A!ProjectTool(name, s) = A!Strictify(s)
    BY <1>2, <1>3 DEF A!ProjectTool
  <2>2. Typed(s) /\ A!Strictify(s) = A!Projected(Strict(s))
    BY <2>1, Zenon DEF A!Strictify, Typed, Strict
  <2>. QED  BY <1>1, <1>2, <1>3, <2>1, <2>2
<1>4. CASE name # "openai"
  <2>1. A!ProjectTool(name, s) = A!Projected(s)
    BY <1>2, <1>4 DEF A!ProjectTool
  <2>. QED  BY <1>1, <1>2, <1>4, <2>1
<1>. QED  BY <1>3, <1>4

(* A projection is not a refusal. *)
LEMMA ProjectedIsNotRefused ==
  ASSUME NEW t
  PROVE  A!Projected(t) # A!Refused /\ A!Projected(t).tree = t
<1>1. A!Projected(t).kind = "projected" /\ A!Refused.kind = "refused" /\ A!Projected(t).tree = t
  BY DEF A!Projected, A!Refused
<1>. QED  BY <1>1

(* What holds while the tools of a version are projected and called: each  *)
(* payload is the projection of its tool, the tools up to the next one are *)
(* accounted for, and StrictReversible holds of the call.                  *)
PayloadHolds(p) ==
  p.tool \in DOMAIN catalog /\ A!ProjectTool(provider, catalog[p.tool]) = A!Projected(p.schema)

AdaptersInv ==
  /\ catalog \in Catalogs
  /\ position \in 1 .. Len(catalog) + 1
  /\ \A p \in payloads : PayloadHolds(p)
  /\ {p.tool : p \in payloads} \cup refusals = 1 .. position - 1
  /\ A!StrictReversible

(* The tools of a version have canonical schemas. *)
LEMMA CatalogHas ==
  ASSUME A!AdaptersAssumption, catalog \in Catalogs
  PROVE  /\ Len(catalog) \in Nat /\ DOMAIN catalog = 1 .. Len(catalog)
         /\ \A i \in DOMAIN catalog : A!CanonicalSchema(catalog[i])
BY Zenon DEF A!AdaptersAssumption

(* What a payload is. *)
LEMMA PayloadIs ==
  ASSUME A!AdaptersAssumption, catalog \in Catalogs, NEW p, PayloadHolds(p)
  PROVE  /\ A!CanonicalSchema(catalog[p.tool]) /\ A!Projectable(catalog[p.tool])
         /\ provider = "openai" => Typed(catalog[p.tool]) /\ p.schema = Strict(catalog[p.tool])
         /\ provider # "openai" => p.schema = catalog[p.tool]
<1>1. p.tool \in DOMAIN catalog /\ A!ProjectTool(provider, catalog[p.tool]) = A!Projected(p.schema)
  BY DEF PayloadHolds
<1>2. A!Projected(p.schema) # A!Refused /\ A!Projected(p.schema).tree = p.schema
  BY ProjectedIsNotRefused
<1>. QED  BY <1>1, <1>2, CatalogHas, ProjectedAs

(* The projection of a version goes tool by tool. *)
LEMMA ProjectKeepsInv ==
  ASSUME A!AdaptersAssumption, AdaptersInv, A!Project
  PROVE  AdaptersInv'
<1>1. position <= Len(catalog) /\ UNCHANGED <<provider, catalog, call>>
  BY DEF A!Project
<1>2. Len(catalog) \in Nat /\ DOMAIN catalog = 1 .. Len(catalog)
  BY CatalogHas DEF AdaptersInv
<1>3. position \in 1 .. Len(catalog) /\ position + 1 \in 1 .. Len(catalog) + 1
  BY <1>1, <1>2 DEF AdaptersInv
<1>4. 1 .. (position + 1) - 1 = (1 .. position - 1) \cup {position}
  BY <1>2, <1>3
<1>5. catalog' \in Catalogs /\ A!StrictReversible'
  BY <1>1 DEF AdaptersInv, A!StrictReversible
<1>6. \A p \in payloads : PayloadHolds(p)'
  BY <1>1 DEF AdaptersInv, PayloadHolds
<1> DEFINE projected == A!ProjectTool(provider, catalog[position])
<1>7. CASE projected = A!Refused
  <2>1. refusals' = refusals \cup {position} /\ position' = position + 1 /\ payloads' = payloads
    BY <1>7 DEF A!Project, A!AfterRefusal
  <2>2. {p.tool : p \in payloads'} \cup refusals' = 1 .. position' - 1
    BY <1>4, <2>1 DEF AdaptersInv
  <2>. QED  BY <1>1, <1>3, <1>5, <1>6, <2>1, <2>2 DEF AdaptersInv
<1>8. CASE projected # A!Refused
  <2> DEFINE new == [tool |-> position, schema |-> projected.tree]
  <2>1. payloads' = payloads \cup {new} /\ position' = position + 1 /\ refusals' = refusals
    BY <1>8 DEF A!Project
  <2>2. new.tool = position /\ new.schema = projected.tree
    OBVIOUS
  <2>3. projected = A!Projected(projected.tree)
    BY <1>8, ProjectedAs
  <2> HIDE DEF new, projected
  <2>4. ASSUME NEW p, p = new PROVE PayloadHolds(p)'
    BY <1>1, <1>2, <1>3, <2>2, <2>3, <2>4 DEF PayloadHolds, projected
  <2>5. {p.tool : p \in payloads'} \cup refusals' = 1 .. position' - 1
    BY <1>4, <2>1, <2>2 DEF AdaptersInv
  <2>6. \A p \in payloads' : PayloadHolds(p)'
    BY <1>6, <2>1, <2>4
  <2>. QED  BY <1>1, <1>3, <1>5, <2>1, <2>5, <2>6 DEF AdaptersInv
<1>. QED  BY <1>7, <1>8

(* A call that keeps to the projection is as StrictReversible says. *)
LEMMA CallKeepsInv ==
  ASSUME A!AdaptersAssumption, AdaptersInv, NEW x \in ArgumentObjects, A!Call(x)
  PROVE  AdaptersInv'
<1>1. UNCHANGED <<provider, catalog, payloads, refusals, position>>
  BY DEF A!Call
<1>2. PICK p \in payloads :
        /\ A!Accepts(p.schema, x)
        /\ call' = [tool |-> p.tool, sent |-> x,
                    arguments |-> A!Understood(provider, catalog[p.tool], x),
                    valid |-> A!Accepts(catalog[p.tool], A!Understood(provider, catalog[p.tool], x))]
  BY DEF A!Call
<1> DEFINE s == catalog[p.tool]
           understood == A!Understood(provider, s, x)
<1>3. PayloadHolds(p)
  BY DEF AdaptersInv
<1>4. /\ A!CanonicalSchema(s) /\ A!Projectable(s)
      /\ provider = "openai" => Typed(s) /\ p.schema = Strict(s)
      /\ provider # "openai" => p.schema = s
      /\ A!ProjectTool(provider, s).tree = p.schema
  BY <1>3, PayloadIs, ProjectedIsNotRefused DEF AdaptersInv, PayloadHolds
<1>5. A!Accepts(s, understood) <=> A!NullsMeant(s, x)
  <2> HIDE DEF s
  <2>1. CASE provider = "openai"
    BY <1>2, <1>4, <2>1, NormalizedIsValid, ValidHasNoPlaceholder DEF A!Understood
  <2>2. CASE provider # "openai"
    <3>1. A!Accepts(s, x)
      BY <1>2, <1>4, <2>2
    <3>2. A!NullsMeant(s, x)
      BY <3>1, Zenon DEF A!Accepts, A!NullsMeant
    <3>. QED  BY <2>2, <3>1, <3>2 DEF A!Understood
  <2>. QED  BY <2>1, <2>2
<1>6. provider = "openai" => A!Sayable(s, A!ProjectTool(provider, s).tree, understood)
  <2> HIDE DEF s
  <2>. QED  BY <1>2, <1>4, UnderstoodIsSayable DEF A!Understood
<1>7. /\ call'.tool = p.tool /\ call'.sent = x /\ call'.arguments = understood
      /\ call'.valid = A!Accepts(s, understood)
  <2> HIDE DEF s, understood
  <2>1. call' = [tool |-> p.tool, sent |-> x, arguments |-> understood, valid |-> A!Accepts(s, understood)]
    BY <1>2, Zenon DEF s, understood
  <2>. QED  BY <2>1
<1>8. catalog'[call'.tool] = s /\ provider' = provider
  BY <1>1, <1>7
<1> HIDE DEF s, understood
<1>9. A!StrictReversible'
  <2>1. /\ call'.valid <=> A!NullsMeant(s, call'.sent)
        /\ provider = "openai" => A!Sayable(s, A!ProjectTool(provider, s).tree, call'.arguments)
    BY <1>5, <1>7, <1>6, Zenon
  <2>2. ASSUME NEW t, t = s
        PROVE  /\ call'.valid <=> A!NullsMeant(t, call'.sent)
               /\ provider' = "openai" => A!Sayable(t, A!ProjectTool(provider', t).tree, call'.arguments)
    BY <1>8, <2>1, <2>2, Zenon
  <2>. QED  BY <1>8, <2>2, Zenon DEF A!StrictReversible, A!NullsMeant, A!Sayable, A!ProjectTool
<1>10. \A r \in payloads' : PayloadHolds(r)'
  BY <1>1 DEF AdaptersInv, PayloadHolds
<1>. QED  BY <1>1, <1>9, <1>10 DEF AdaptersInv

(* So it holds always. *)
LEMMA AdaptersInvHolds == ASSUME A!AdaptersAssumption PROVE A!Spec => []AdaptersInv
<1>1. ASSUME A!Init PROVE AdaptersInv
  <2>1. catalog \in Catalogs /\ payloads = {} /\ refusals = {} /\ position = 1 /\ call = A!NoCall
    BY <1>1 DEF A!Init
  <2>2. Len(catalog) \in Nat
    BY <2>1, CatalogHas
  <2>3. position \in 1 .. Len(catalog) + 1 /\ {p.tool : p \in payloads} \cup refusals = 1 .. position - 1
    BY <2>1, <2>2
  <2>. QED  BY <2>1, <2>3 DEF AdaptersInv, A!StrictReversible
<1>2. ASSUME AdaptersInv, [A!Next]_(A!vars) PROVE AdaptersInv'
  <2>1. CASE UNCHANGED A!vars
    <3>1. UNCHANGED <<provider, catalog, payloads, refusals, position, call>>
      BY <2>1 DEF A!vars
    <3>. QED  BY <1>2, <3>1 DEF AdaptersInv, PayloadHolds, A!StrictReversible
  <2>2. CASE A!Project
    BY <1>2, <2>2, ProjectKeepsInv
  <2>3. ASSUME NEW x \in ArgumentObjects, A!Call(x) PROVE AdaptersInv'
    BY <1>2, <2>3, CallKeepsInv
  <2>. QED  BY <1>2, <2>1, <2>2, <2>3, Zenon DEF A!Next
<1>. QED  BY <1>1, <1>2, PTL DEF A!Spec

(* What the adapters promise follows. *)
LEMMA ProjectionHolds ==
  ASSUME A!AdaptersAssumption, AdaptersInv
  PROVE  A!EveryToolAccounted /\ A!EverythingSayable /\ A!StrictReversible
<1>1. Len(catalog) \in Nat /\ DOMAIN catalog = 1 .. Len(catalog)
  BY CatalogHas DEF AdaptersInv
<1>2. A!EveryToolAccounted
  <2>1. SUFFICES ASSUME position > Len(catalog)
                 PROVE  {p.tool : p \in payloads} \cup refusals = DOMAIN catalog
    BY DEF A!EveryToolAccounted
  <2>2. position - 1 = Len(catalog)
    BY <1>1, <2>1 DEF AdaptersInv
  <2>. QED  BY <1>1, <2>2 DEF AdaptersInv
<1>3. ASSUME NEW p \in payloads, NEW x \in ArgumentObjects,
             A!Accepts(catalog[p.tool], x),
             provider = "openai" => A!Sayable(catalog[p.tool], p.schema, x)
      PROVE  LET s == catalog[p.tool]
                 y == IF provider = "openai" THEN A!Said(s, x) ELSE x
             IN  A!Accepts(p.schema, y) /\ A!Understood(provider, s, y) = x
  <2> DEFINE s == catalog[p.tool]
  <2>1. /\ A!CanonicalSchema(s) /\ A!Projectable(s)
        /\ provider = "openai" => Typed(s) /\ p.schema = Strict(s)
        /\ provider # "openai" => p.schema = s
    BY PayloadIs DEF AdaptersInv
  <2>2. A!Accepts(s, x) /\ (provider = "openai" => A!Sayable(s, p.schema, x))
    BY <1>3
  <2> HIDE DEF s
  <2>3. CASE provider = "openai"
    <3>1. /\ A!FullBelow(Strict(s), x)
          /\ \A q \in A!Absent(s, x) : "null" \notin s[A!SchemaPath(q)].types
      BY <2>1, <2>2, <2>3 DEF A!Sayable
    <3>2. A!Accepts(Strict(s), A!Said(s, x)) /\ A!Normalized(s, A!Said(s, x)) = x
      BY <2>1, <2>2, <2>3, <3>1, SaidIsUnderstood
    <3>3. A!Accepts(p.schema, A!Said(s, x)) /\ A!Understood(provider, s, A!Said(s, x)) = x
      BY <2>1, <2>3, <3>2 DEF A!Understood
    <3>. QED  BY <2>3, <3>3, Zenon DEF s
  <2>4. CASE provider # "openai"
    <3>1. A!Accepts(p.schema, x) /\ A!Understood(provider, s, x) = x
      BY <2>1, <2>2, <2>4 DEF A!Understood
    <3>. QED  BY <2>4, <3>1, Zenon DEF s
  <2>. QED  BY <2>3, <2>4
<1>4. A!EverythingSayable
  BY <1>3, Zenon DEF A!EverythingSayable
<1>. QED  BY <1>2, <1>4 DEF AdaptersInv

(* For every tool, value and provider, the projection keeps its promises. *)
LEMMA ProjectionsAlwaysHold ==
  ASSUME A!AdaptersAssumption
  PROVE  A!Spec => [](A!EveryToolAccounted /\ A!EverythingSayable /\ A!StrictReversible)
<1>1. AdaptersInv => A!EveryToolAccounted /\ A!EverythingSayable /\ A!StrictReversible
  BY ProjectionHolds
<1>. QED  BY <1>1, AdaptersInvHolds, PTL

-----------------------------------------------------------------------------
(* The components side by side.  A behaviour of Perimeter that follows one *)
(* part is a behaviour of that component, and keeps to that part.          *)

(* No step changes the part that a behaviour follows. *)
LEMMA PartStays == [PerimeterNext]_perimeterVars => part' = part
BY Zenon DEF PerimeterNext, perimeterVars

(* Whatever other consoles publish between the two requests of             *)
(* loadVersions, an idle console to which no request failed shows the      *)
(* tools of the newest version that it lists (App.tsx:104).                *)
THEOREM ConsoleShowsNewest == PerimeterSpec => []ToolsOfNewest
<1>1. PerimeterInit /\ part = "console" => C!Init
  BY DEF PerimeterInit
<1>2. [PerimeterNext]_perimeterVars /\ part = "console" => [C!Next]_(C!vars)
  BY Zenon DEF PerimeterNext, perimeterVars, consoleVars, C!vars
<1>3. part = "console" /\ part' = part => (part = "console")'
  OBVIOUS
<1>4. ~(part = "console") /\ part' = part => (~(part = "console"))'
  OBVIOUS
<1>5. (C!ToolsOfNewest => ToolsOfNewest) /\ (~(part = "console") => ToolsOfNewest)
  BY DEF ToolsOfNewest
<1>. QED  BY <1>1, <1>2, <1>3, <1>4, <1>5, NewestShown, PartStays, PTL DEF PerimeterSpec, C!Spec

(* A publication that took effect without an answer is not repeated by the *)
(* console that sends it again, whatever was registered, reviewed or       *)
(* published in between (App.tsx:165).                                     *)
THEOREM RetriesAreIdle == PerimeterSpec => RetryPublishesNothing
<1>1. [PerimeterNext]_perimeterVars /\ part = "console" => [C!Next]_(C!vars)
  BY Zenon DEF PerimeterNext, perimeterVars, consoleVars, C!vars
<1>2. PerimeterInit /\ part = "console" => C!Init
  BY DEF PerimeterInit
<1>3. [C!RetryIsIdle]_(C!vars) => [part = "console" => C!RetryIsIdle]_perimeterVars
  BY DEF C!RetryIsIdle, C!vars
<1>4. ~(part = "console") => [part = "console" => C!RetryIsIdle]_perimeterVars
  OBVIOUS
<1>5. part = "console" /\ part' = part => (part = "console")'
  OBVIOUS
<1>6. ~(part = "console") /\ part' = part => (~(part = "console"))'
  OBVIOUS
<1>. QED
  BY <1>1, <1>2, <1>3, <1>4, <1>5, <1>6, PartStays, RetriesIdle, PTL
  DEF PerimeterSpec, C!Spec, C!RetryPublishesNothing, RetryPublishesNothing

(* Whatever the settings of either side become and whatever arrives, a     *)
(* runtime that requires a signature, or that holds a signed snapshot,     *)
(* holds what the control plane published, signed by a key of its ring     *)
(* (SnapshotVerification.check).                                           *)
THEOREM HeldStaysAuthentic == PerimeterSpec => []HeldAuthentic
<1>1. PerimeterInit /\ part = "trust" => F!Init
  BY DEF PerimeterInit
<1>2. [PerimeterNext]_perimeterVars /\ part = "trust" => [F!FreeNext]_(F!vars)
  BY Zenon DEF PerimeterNext, perimeterVars, trustVars, F!vars
<1>3. part = "trust" /\ part' = part => (part = "trust")'
  OBVIOUS
<1>4. ~(part = "trust") /\ part' = part => (~(part = "trust"))'
  OBVIOUS
<1>5. (F!HeldAuthentic => HeldAuthentic) /\ (~(part = "trust") => HeldAuthentic)
  BY DEF HeldAuthentic
<1>6. F!FreeSpec => []F!HeldAuthentic
  BY PerimeterAssumption, FreeAuthentic
<1>. QED  BY <1>1, <1>2, <1>3, <1>4, <1>5, <1>6, PartStays, PTL DEF PerimeterSpec, F!FreeSpec

(* Through a key rotation as documented and upgrades in any order, with    *)
(* restarts and refreshes anywhere in between, a runtime loses the active  *)
(* snapshot only to a publication of a newer minor version, or to a        *)
(* removal of the old key that waited for no publication under the new and *)
(* that began when no runtime was serving anything (TrustedKeyRing.find,   *)
(* require_supported).                                                     *)
THEOREM LossesAreExplained == PerimeterSpec => LossesExplained
<1>1. PerimeterInit /\ part = "rotate" => T!Init
  BY DEF PerimeterInit
<1>2. [PerimeterNext]_perimeterVars /\ part = "rotate" => [T!RotationNext]_(T!vars)
  BY Zenon DEF PerimeterNext, perimeterVars, trustVars, T!vars
<1>3. [T!LossExplained]_(T!vars) => [part = "rotate" => T!LossExplained]_perimeterVars
  <2>1. ASSUME UNCHANGED T!vars
        PROVE  T!LossExplained
    <3>1. sealed' = sealed /\ runtime' = runtime
      BY <2>1 DEF T!vars
    <3>2. ASSUME NEW r
          PROVE  T!CanLoad(r) => T!CanLoad(r)'
      BY <3>1, Zenon DEF T!CanLoad, T!Active, T!Loads
    <3>. QED  BY <3>2, Zenon DEF T!LossExplained
  <2>. QED  BY <2>1
<1>4. ~(part = "rotate") => [part = "rotate" => T!LossExplained]_perimeterVars
  OBVIOUS
<1>5. part = "rotate" /\ part' = part => (part = "rotate")'
  OBVIOUS
<1>6. ~(part = "rotate") /\ part' = part => (~(part = "rotate"))'
  OBVIOUS
<1>7. T!RotationSpec => T!LossesExplained
  BY PerimeterAssumption, RotationLosses
<1>. QED
  BY <1>1, <1>2, <1>3, <1>4, <1>5, <1>6, <1>7, PartStays, PTL
  DEF PerimeterSpec, T!RotationSpec, T!LossesExplained, LossesExplained

(* CallerAuthenticator keeps its three promises, for every ring, setting,  *)
(* lifetime and allowance, whatever tokens are issued and altered: a       *)
(* verified caller is who a token signed by a trusted key says; a token is *)
(* good for its lifetime and no longer than the allowance on both sides;   *)
(* and no refusal tells what an unsigned token claims (_verified_claims).  *)
THEOREM CallersAreProven == PerimeterSpec => []CallersProven
<1>1. PerimeterInit /\ part = "identify" => I!Init
  BY DEF PerimeterInit
<1>2. [PerimeterNext]_perimeterVars /\ part = "identify" => [I!Next]_(I!vars)
  BY Zenon DEF PerimeterNext, perimeterVars, identityVars, I!vars
<1>3. part = "identify" /\ part' = part => (part = "identify")'
  OBVIOUS
<1>4. ~(part = "identify") /\ part' = part => (~(part = "identify"))'
  OBVIOUS
<1>5. (I!CallersProven => CallersProven) /\ (~(part = "identify") => CallersProven)
  BY DEF CallersProven
<1>6. I!Spec => []I!CallersProven
  BY PerimeterAssumption, CallersAlwaysProven
<1>. QED  BY <1>1, <1>2, <1>3, <1>4, <1>5, <1>6, PartStays, PTL DEF PerimeterSpec, I!Spec

(* For every request, every list of tools and every vocabulary: the tool   *)
(* that is selected does not depend on the order of the list, and what is  *)
(* proposed is said by the request and admitted by the tool's schema, with *)
(* every other required argument reported (select_tool, _extract,          *)
(* _extract_identifier, generate_arguments).                               *)
THEOREM ProposalsAreGrounded == PerimeterSpec => []ProposalsGrounded
<1>1. PerimeterInit /\ part = "propose" => P!Init
  BY DEF PerimeterInit
<1>2. [PerimeterNext]_perimeterVars /\ part = "propose" => [P!Next]_(P!vars)
  BY Zenon DEF PerimeterNext, perimeterVars, providerVars, P!vars
<1>3. part = "propose" /\ part' = part => (part = "propose")'
  OBVIOUS
<1>4. ~(part = "propose") /\ part' = part => (~(part = "propose"))'
  OBVIOUS
<1>5. /\ P!SelectionStable /\ P!ProposalGrounded => ProposalsGrounded
      /\ ~(part = "propose") => ProposalsGrounded
  BY DEF ProposalsGrounded
<1>6. P!Spec => [](P!SelectionStable /\ P!ProposalGrounded)
  BY PerimeterAssumption, ProposalsAlwaysGrounded
<1>. QED  BY <1>1, <1>2, <1>3, <1>4, <1>5, <1>6, PartStays, PTL DEF PerimeterSpec, P!Spec

(* For every version, every canonical schema and every argument object:    *)
(* each tool is projected or reported; a call that the projection accepts  *)
(* is valid once it is normalized exactly if it has no placeholder below   *)
(* the top level; and of what the schema accepts, exactly the objects with *)
(* every property below the top level, and with every argument whose only  *)
(* value is null, can be said in the strict form and are understood as     *)
(* meant (project, _strictify, _allow_null, normalize_provider_arguments). *)
THEOREM ProjectionsAreReversible == PerimeterSpec => []ProjectionsReversible
<1>1. PerimeterInit /\ part = "adapt" => A!Init
  BY DEF PerimeterInit
<1>2. [PerimeterNext]_perimeterVars /\ part = "adapt" => [A!Next]_(A!vars)
  BY Zenon DEF PerimeterNext, perimeterVars, adapterVars, A!vars
<1>3. part = "adapt" /\ part' = part => (part = "adapt")'
  OBVIOUS
<1>4. ~(part = "adapt") /\ part' = part => (~(part = "adapt"))'
  OBVIOUS
<1>5. /\ A!EveryToolAccounted /\ A!EverythingSayable /\ A!StrictReversible => ProjectionsReversible
      /\ ~(part = "adapt") => ProjectionsReversible
  BY DEF ProjectionsReversible
<1>6. A!Spec => [](A!EveryToolAccounted /\ A!EverythingSayable /\ A!StrictReversible)
  BY PerimeterAssumption, ProjectionsAlwaysHold
<1>. QED  BY <1>1, <1>2, <1>3, <1>4, <1>5, <1>6, PartStays, PTL DEF PerimeterSpec, A!Spec

(* For every allowlist, setting, URL and history of the name service: a    *)
(* request leaves only for a listed origin and an acceptable address, is   *)
(* refused only for a reason, and no name is looked up that is not listed  *)
(* (DestinationPolicy.check and the connection after it).                  *)
THEOREM RequestsStayWithinPolicy == PerimeterSpec => []DestinationsAdmitted
<1>1. PerimeterInit /\ part = "contact" => D!Init
  BY DEF PerimeterInit
<1>2. [PerimeterNext]_perimeterVars /\ part = "contact" => [D!Next]_(D!vars)
  BY Zenon DEF PerimeterNext, perimeterVars, destinationVars, D!vars
<1>3. part = "contact" /\ part' = part => (part = "contact")'
  OBVIOUS
<1>4. ~(part = "contact") /\ part' = part => (~(part = "contact"))'
  OBVIOUS
<1>5. (D!DestinationsAdmitted => DestinationsAdmitted) /\ (~(part = "contact") => DestinationsAdmitted)
  BY DEF DestinationsAdmitted
<1>6. D!Spec => []D!DestinationsAdmitted
  BY PerimeterAssumption, RequestsAdmitted
<1>. QED  BY <1>1, <1>2, <1>3, <1>4, <1>5, <1>6, PartStays, PTL DEF PerimeterSpec, D!Spec
=============================================================================
