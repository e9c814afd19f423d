------------------------------ MODULE Console ------------------------------
(***************************************************************************)
(* The console of the Control Plane (frontend App.tsx, api/client.ts):     *)
(* what each browser shows, and the requests of its buttons.  A click runs *)
(* its requests one after the other; the buttons stay disabled until the   *)
(* run ends or a request of it fails.  One request is one step here:       *)
(* Authoring and Snapshots open the server's handlers up.                  *)
(*                                                                         *)
(* There is one connector and one deployment, those the console is fixed   *)
(* to.  A version is a number, the minor bump of the highest.  Whether a   *)
(* draft is ready, and the connector list, are left out.                   *)
(***************************************************************************)
EXTENDS Integers, Sequences, FiniteSets, SequencesExt

CONSTANTS
  Consoles,      \* browsers with the console open
  MaxUploads,    \* bound: registrations
  MaxRevision,   \* bound: edits of one draft
  MaxSnapshots,  \* bound: snapshots
  MaxFailures    \* bound: requests without an answer

NoDraft == [upload |-> 0, revision |-> 0, version |-> 0]

VARIABLES
  draft,        \* the draft on the server, or NoDraft
  versions,     \* the published versions, oldest first
  snapshots,    \* the version that each snapshot pins; the last one is active
  console,      \* per console: what it shows, and the step its run is at
  uploads, failures, \* how many there were
  unanswered    \* history: consoles whose publication took effect unknown to
                \* them and that still show its draft

vars == <<draft, versions, snapshots, console, uploads, failures, unanswered>>
server == <<draft, versions, snapshots, uploads>>

(* useState of App: step is the next request of the run, or "idle"; tools  *)
(* is the version that publishedDocument belongs to.                       *)
Opened ==
  [step |-> "mount", draft |-> NoDraft, versions |-> <<>>, tools |-> 0, snapshots |-> <<>>,
   mounting |-> TRUE, error |-> FALSE, stale |-> FALSE]

Init ==
  /\ draft = NoDraft
  /\ versions = <<>>
  /\ snapshots = <<>>
  /\ console = [c \in Consoles |-> Opened]
  /\ uploads = 0 /\ failures = 0
  /\ unanswered = {}

Latest(list) == IF list = <<>> THEN 0 ELSE Last(list)

(* A button is clicked: setBusy(true), setError(null).                     *)
Click(c) == console[c].step = "idle"

(* The run goes on at another step, or ends.                               *)
Shows(c, changed) == console' = [console EXCEPT ![c] = changed]

(* thrown, in run: the rest of the run is skipped and the error reported.  *)
(* "stale" remembers that it was a revision_conflict of the shown draft.   *)
Refused(c, conflict) ==
  Shows(c, [console[c] EXCEPT !.step = "idle", !.mounting = FALSE, !.error = TRUE,
                              !.stale = conflict])

-----------------------------------------------------------------------------
(* The requests, each with what the server does.                           *)

Register(c) ==
  LET created == [upload |-> uploads + 1, revision |-> 1, version |-> Latest(versions) + 1]
  IN /\ Click(c) /\ uploads < MaxUploads
     /\ uploads' = uploads + 1
     /\ draft' = created
     /\ Shows(c, [console[c] EXCEPT !.draft = created, !.error = FALSE, !.stale = FALSE])
     /\ unanswered' = unanswered \ {c}
     /\ UNCHANGED <<versions, snapshots, failures>>

(* expected_revision is the one of the draft that is shown.                *)
Current(c) == draft # NoDraft /\ console[c].draft.revision = draft.revision

ApplyReview(c) ==
  /\ Click(c) /\ console[c].draft # NoDraft
  /\ IF Current(c)
     THEN /\ draft.revision < MaxRevision
          /\ draft' = [draft EXCEPT !.revision = @ + 1]
          /\ Shows(c, [console[c] EXCEPT !.draft = draft', !.error = FALSE, !.stale = FALSE])
          /\ unanswered' = unanswered \ {c}
     ELSE Refused(c, draft # NoDraft) /\ UNCHANGED <<draft, unanswered>>
  /\ UNCHANGED <<versions, snapshots, uploads, failures>>

(* Mutant: the shown version is not sent, and the server takes the draft's.*)
Proposed_Omitted(c) == draft.version

Proposed(c) == console[c].draft.version

(* publish_draft: the revision is current and the version a new one.       *)
Publishable(c) == Current(c) /\ \A i \in DOMAIN versions : Proposed(c) > versions[i]

Publish(c) ==
  /\ Click(c) /\ console[c].draft # NoDraft
  /\ IF Publishable(c)
     THEN /\ versions' = Append(versions, Proposed(c))
          /\ draft' = NoDraft
          /\ Shows(c, [console[c] EXCEPT !.draft = NoDraft, !.step = "list", !.error = FALSE,
                                         !.stale = FALSE])
     ELSE Refused(c, draft # NoDraft /\ ~Current(c)) /\ UNCHANGED <<draft, versions>>
  /\ UNCHANGED <<snapshots, uploads, failures, unanswered>>

(* The Refresh button. *)
Refresh(c) ==
  /\ Click(c)
  /\ Shows(c, [console[c] EXCEPT !.step = "list", !.error = FALSE])
  /\ UNCHANGED <<server, failures, unanswered>>

(* The mount effect goes to loadVersions only if there is a version.       *)
Mount(c) ==
  /\ console[c].step = "mount"
  /\ Shows(c, [console[c] EXCEPT !.step = IF versions = <<>> THEN "deployments" ELSE "list"])
  /\ UNCHANGED <<server, failures, unanswered>>

AfterVersions(c) == IF console[c].mounting THEN "deployments" ELSE "idle"

(* loadVersions: the list, and then the document of the last one of it.    *)
LoadList(c) ==
  /\ console[c].step = "list"
  /\ Shows(c, [console[c] EXCEPT !.versions = versions,
                 !.step = IF versions = <<>> THEN AfterVersions(c) ELSE "document"])
  /\ UNCHANGED <<server, failures, unanswered>>

(* Mutant: the document is that of the version that is newest by now.      *)
LoadDocument_Newest(c) ==
  /\ console[c].step = "document"
  /\ Shows(c, [console[c] EXCEPT !.tools = Last(versions), !.step = AfterVersions(c)])
  /\ UNCHANGED <<server, failures, unanswered>>

LoadDocument(c) ==
  /\ console[c].step = "document"
  /\ Shows(c, [console[c] EXCEPT !.tools = Last(console[c].versions), !.step = AfterVersions(c)])
  /\ UNCHANGED <<server, failures, unanswered>>

(* deploy pins the last version of the list that is shown.                 *)
Deploy(c) ==
  /\ Click(c) /\ console[c].versions # <<>> /\ Len(snapshots) < MaxSnapshots
  /\ snapshots' = Append(snapshots, Last(console[c].versions))
  /\ Shows(c, [console[c] EXCEPT !.step = "deployments", !.error = FALSE])
  /\ UNCHANGED <<draft, versions, uploads, failures, unanswered>>

LoadDeployments(c) ==
  /\ console[c].step = "deployments"
  /\ Shows(c, [console[c] EXCEPT !.step = "snapshots"])
  /\ UNCHANGED <<server, failures, unanswered>>

LoadSnapshots(c) ==
  /\ console[c].step = "snapshots"
  /\ Shows(c, [console[c] EXCEPT !.snapshots = snapshots, !.step = "idle", !.mounting = FALSE])
  /\ UNCHANGED <<server, failures, unanswered>>

-----------------------------------------------------------------------------
(* External: a request without an answer.  One that changes the server may *)
(* have taken effect; the others only end the run, unless it is caught.    *)
Fails == failures < MaxFailures /\ failures' = failures + 1

PublishUnanswered(c) ==
  /\ Fails
  /\ Click(c) /\ console[c].draft # NoDraft /\ Publishable(c)
  /\ versions' = Append(versions, Proposed(c))
  /\ draft' = NoDraft
  /\ Refused(c, FALSE)
  /\ unanswered' = unanswered \cup {c}
  /\ UNCHANGED <<snapshots, uploads>>

ReviewUnanswered(c) ==
  /\ Fails
  /\ Click(c) /\ console[c].draft # NoDraft /\ Current(c) /\ draft.revision < MaxRevision
  /\ draft' = [draft EXCEPT !.revision = @ + 1]
  /\ Refused(c, FALSE)
  /\ UNCHANGED <<versions, snapshots, uploads, unanswered>>

RegisterUnanswered(c) ==
  /\ Fails
  /\ Click(c) /\ uploads < MaxUploads
  /\ uploads' = uploads + 1
  /\ draft' = [upload |-> uploads + 1, revision |-> 1, version |-> Latest(versions) + 1]
  /\ Refused(c, FALSE)
  /\ UNCHANGED <<versions, snapshots, unanswered>>

DeployUnanswered(c) ==
  /\ Fails
  /\ Click(c) /\ console[c].versions # <<>> /\ Len(snapshots) < MaxSnapshots
  /\ snapshots' = Append(snapshots, Last(console[c].versions))
  /\ Refused(c, FALSE)
  /\ UNCHANGED <<draft, versions, uploads, unanswered>>

ReadUnanswered(c) ==
  /\ Fails
  /\ console[c].step # "idle"
  /\ console[c].mounting => console[c].step \notin {"deployments", "snapshots"}
  /\ Refused(c, FALSE)
  /\ UNCHANGED <<server, unanswered>>

(* The mount effect takes an empty list for the versions, the deployments  *)
(* or the snapshots that it does not get, and goes on.  In step "mount" it *)
(* may be the list of connectors as well, which ends the run.              *)
MountCaught(c) ==
  /\ Fails
  /\ console[c].mounting
  /\ \/ /\ console[c].step = "mount"
        /\ Shows(c, [console[c] EXCEPT !.step = "deployments"])
     \/ /\ console[c].step \in {"deployments", "snapshots"}
        /\ Shows(c, [console[c] EXCEPT !.snapshots = <<>>, !.step = "idle", !.mounting = FALSE])
  /\ UNCHANGED <<server, unanswered>>

Next ==
  \E c \in Consoles :
    \/ Register(c) \/ ApplyReview(c) \/ Publish(c) \/ Refresh(c) \/ Mount(c) \/ LoadList(c)
    \/ LoadDocument(c) \/ Deploy(c) \/ LoadDeployments(c) \/ LoadSnapshots(c)
    \/ PublishUnanswered(c) \/ ReviewUnanswered(c) \/ RegisterUnanswered(c)
    \/ DeployUnanswered(c) \/ ReadUnanswered(c) \/ MountCaught(c)

(* A request of a run that began is answered, or the browser fails it.     *)
Answered(c) ==
  Mount(c) \/ LoadList(c) \/ LoadDocument(c) \/ LoadDeployments(c) \/ LoadSnapshots(c)
    \/ ReadUnanswered(c) \/ MountCaught(c)

Spec == Init /\ [][Next]_vars
FairSpec == Spec /\ \A c \in Consoles : WF_vars(Answered(c))

-----------------------------------------------------------------------------
(***************************************************************************)
(* A console whose publication took effect without an answer, and that     *)
(* publishes the draft it still shows again, publishes nothing, whatever   *)
(* the others registered in between (App.tsx:165 sends the revision and    *)
(* the version that are shown).                                            *)
(***************************************************************************)
RetryIsIdle ==
  \A c \in Consoles :
    c \in unanswered /\ console'[c] # console[c] /\ c \in unanswered' => versions' = versions

(* So at every step of every console (App.tsx:165). *)
RetryPublishesNothing == [][RetryIsIdle]_vars

(***************************************************************************)
(* The tools that an idle console shows for its newest version are that    *)
(* version's, unless a request of loadVersions failed: the two are loaded  *)
(* one after the other while others publish.                               *)
(***************************************************************************)
ToolsOfNewest ==
  failures = 0 =>
    \A c \in Consoles :
      console[c].step = "idle" => console[c].tools = Latest(console[c].versions)

(***************************************************************************)
(* After an edit was refused because of its revision, the console comes to *)
(* show the current draft, or the user gets on without it ("the server     *)
(* rejects rather than merging, and the console reloads", App.tsx:158).    *)
(***************************************************************************)
ConflictReloads ==
  \A c \in Consoles :
    console[c].stale ~> (console[c].draft = draft \/ ~console[c].stale)

(***************************************************************************)
(* The tools listed as those that the deployment may serve are those of    *)
(* its active snapshot ("What the active snapshot actually contains",      *)
(* App.tsx:202), when the console shows the current snapshots.             *)
(***************************************************************************)
ServedIsActive ==
  \A c \in Consoles :
    /\ console[c].step = "idle" /\ ~console[c].error
    /\ snapshots # <<>> /\ console[c].snapshots = snapshots
    => console[c].tools = Last(snapshots)
=============================================================================
