------------------------------ MODULE Snapshots ------------------------------
(***************************************************************************)
(* Deployments and their snapshots, as the Control Plane's admin API keeps *)
(* them (control_plane/service.py, control_plane/models.py).               *)
(*                                                                         *)
(* Every handler is a synchronous function run in a thread pool, on a      *)
(* session whose SELECTs are separate reads of committed rows and whose    *)
(* INSERTs and UPDATEs reach the database in one flush, committed before   *)
(* the response is sent (db.TransactionalRoute).  A request is therefore   *)
(* one action per read and one action for its flush and commit: the        *)
(* database has a single writer, so no other write falls between them.     *)
(* Two requests interleave at every other point, and a request may die at  *)
(* any of them: its transaction is rolled back.                            *)
(***************************************************************************)
EXTENDS Integers, Sequences

CONSTANTS
  Requests,      \* the handler threads that may be in flight at once
  Deployments,   \* deployment keys
  Artifacts,     \* published connector versions, as [connector, version] records
  Selections,    \* the selection lists that requests may carry
  MaxRevision    \* bound: no request starts on a deployment that reached it

(* A CreateSnapshotRequest carries at least one selection (schemas.py). *)
ASSUME SelectionsAssumption ==
  /\ Selections \subseteq Seq(Artifacts)
  /\ \A sel \in Selections : sel # <<>>

ASSUME MaxRevisionAssumption == MaxRevision \in Nat

VARIABLES
  published,     \* artifacts that exist as rows of published_versions
  disabled,      \* the published artifacts whose disabled_at is set
  deployments,   \* deployment keys that exist
  snapshots,     \* per deployment, the rows of deployment_snapshots
  req            \* per handler thread, the locals of the request it runs

vars == <<published, disabled, deployments, snapshots, req>>

Snapshot == [revision : Nat \ {0}, pins : SUBSET Artifacts, active : BOOLEAN]

(* The locals of one handler.  disabledAtStart is a history variable: what *)
(* had already been disabled when the request arrived.                     *)
Request ==
  [pc : {"idle", "insert", "resolve", "load", "flush"},
   dep : Deployments \cup {"none"},
   todo : Seq(Artifacts),
   pins : SUBSET Artifacts,
   revision : Nat,
   previous : SUBSET Nat,
   disabledAtStart : SUBSET Artifacts]

Idle ==
  [pc |-> "idle", dep |-> "none", todo |-> <<>>, pins |-> {}, revision |-> 0,
   previous |-> {}, disabledAtStart |-> {}]

Init ==
  /\ published = {}
  /\ disabled = {}
  /\ deployments = {}
  /\ snapshots = [d \in Deployments |-> {}]
  /\ req = [r \in Requests |-> Idle]

-----------------------------------------------------------------------------
(* Published versions, as far as snapshots see them. *)

(* The commit of publish_draft: a new row, never an old one. *)
PublishVersion(a) ==
  /\ a \notin published
  /\ published' = published \cup {a}
  /\ UNCHANGED <<disabled, deployments, snapshots, req>>

(* disable_version sets one column of one row and is idempotent, so its    *)
(* read and its write need not be told apart.                              *)
DisableVersion(a) ==
  /\ a \in published
  /\ disabled' = disabled \cup {a}
  /\ UNCHANGED <<published, deployments, snapshots, req>>

-----------------------------------------------------------------------------
(* create_deployment: a check, then an insert under a unique constraint. *)

CheckDeployment(r, d) ==
  /\ req[r].pc = "idle"
  /\ d \notin deployments
  /\ req' = [req EXCEPT ![r] = [Idle EXCEPT !.pc = "insert", !.dep = d]]
  /\ UNCHANGED <<published, disabled, deployments, snapshots>>

(* ConflictError: the key exists, nothing is written. *)
RefuseDeployment(r, d) ==
  /\ req[r].pc = "idle"
  /\ d \in deployments
  /\ UNCHANGED vars

(* The loser of a race meets the unique constraint and is rolled back. *)
InsertDeployment(r) ==
  /\ req[r].pc = "insert"
  /\ deployments' = deployments \cup {req[r].dep}
  /\ req' = [req EXCEPT ![r] = Idle]
  /\ UNCHANGED <<published, disabled, snapshots>>

-----------------------------------------------------------------------------
(* create_snapshot. *)

Revisions(d) == {s.revision : s \in snapshots[d]}

(* ... ORDER BY revision DESC LIMIT 1, and 0 for no row. *)
Newest(revisions) ==
  IF revisions = {} THEN 0
  ELSE CHOOSE n \in revisions : \A m \in revisions : m <= n

LastRevision(d) == Newest(Revisions(d))

BeginSnapshot(r, d, sel) ==
  /\ req[r].pc = "idle"
  /\ d \in deployments
  /\ LastRevision(d) < MaxRevision
  /\ req' = [req EXCEPT ![r] = [Idle EXCEPT !.pc = "resolve", !.dep = d, !.todo = sel,
                                            !.disabledAtStart = disabled]]
  /\ UNCHANGED <<published, disabled, deployments, snapshots>>

(* Mutant: the disabled check is forgotten. *)
Selectable_NoDisabledCheck(r, a) ==
  a \in published /\ \A p \in req[r].pins : p.connector # a.connector

(* One connector at most once, published, and not disabled when it is read. *)
Selectable(r, a) ==
  /\ \A p \in req[r].pins : p.connector # a.connector
  /\ a \in published
  /\ a \notin disabled

ResolveSelection(r) ==
  /\ req[r].pc = "resolve"
  /\ req[r].todo # <<>>
  /\ Selectable(r, Head(req[r].todo))
  /\ req' = [req EXCEPT ![r].todo = Tail(@), ![r].pins = @ \cup {Head(req[r].todo)}]
  /\ UNCHANGED <<published, disabled, deployments, snapshots>>

RejectSelection(r) ==
  /\ req[r].pc = "resolve"
  /\ req[r].todo # <<>>
  /\ ~Selectable(r, Head(req[r].todo))
  /\ req' = [req EXCEPT ![r] = Idle]
  /\ UNCHANGED <<published, disabled, deployments, snapshots>>

NextRevision(d) == 1 + LastRevision(d)

(* The revision is allocated from a read, not by the database. *)
AllocateRevision(r) ==
  /\ req[r].pc = "resolve"
  /\ req[r].todo = <<>>
  /\ req' = [req EXCEPT ![r].pc = "load", ![r].revision = NextRevision(req[r].dep)]
  /\ UNCHANGED <<published, disabled, deployments, snapshots>>

(* deployment.snapshots is loaded, and the active ones are marked for the  *)
(* UPDATE that the flush will send.                                        *)
LoadPrevious(r) ==
  /\ req[r].pc = "load"
  /\ req' = [req EXCEPT ![r].pc = "flush",
                        ![r].previous = {s.revision : s \in {t \in snapshots[req[r].dep] : t.active}}]
  /\ UNCHANGED <<published, disabled, deployments, snapshots>>

(* Mutant: previous snapshots are deleted instead of deactivated. *)
Deactivated_Deletes(rows, previous) == {s \in rows : s.revision \notin previous}

Deactivated(rows, previous) ==
  {IF s.revision \in previous THEN [s EXCEPT !.active = FALSE] ELSE s : s \in rows}

(* Mutant: the table has no uq_deployment_revision. *)
RevisionTaken_NoConstraint(d, n) == FALSE

(* uq_deployment_revision, as the database checks it at the flush. *)
RevisionTaken(d, n) == n \in Revisions(d)

(* The flush sends the UPDATEs and the INSERT in one transaction. *)
FlushSnapshot(r) ==
  LET d == req[r].dep IN
  /\ req[r].pc = "flush"
  /\ ~RevisionTaken(d, req[r].revision)
  /\ snapshots' = [snapshots EXCEPT ![d] =
       Deactivated(@, req[r].previous)
         \cup {[revision |-> req[r].revision, pins |-> req[r].pins, active |-> TRUE]}]
  /\ req' = [req EXCEPT ![r] = Idle]
  /\ UNCHANGED <<published, disabled, deployments>>

(* Mutant: the deactivations survive the failed insert. *)
ConflictSnapshot_NoRollback(r) ==
  LET d == req[r].dep IN
  /\ req[r].pc = "flush"
  /\ RevisionTaken(d, req[r].revision)
  /\ snapshots' = [snapshots EXCEPT ![d] = Deactivated(@, Revisions(d))]
  /\ req' = [req EXCEPT ![r] = Idle]
  /\ UNCHANGED <<published, disabled, deployments>>

(* uq_deployment_revision is violated: the whole flush is rolled back, and *)
(* the client is told to retry.                                            *)
ConflictSnapshot(r) ==
  /\ req[r].pc = "flush"
  /\ RevisionTaken(req[r].dep, req[r].revision)
  /\ req' = [req EXCEPT ![r] = Idle]
  /\ UNCHANGED <<published, disabled, deployments, snapshots>>

(* A crash, a validation error or a locked database before the commit. *)
AbortRequest(r) ==
  /\ req[r].pc # "idle"
  /\ req' = [req EXCEPT ![r] = Idle]
  /\ UNCHANGED <<published, disabled, deployments, snapshots>>

-----------------------------------------------------------------------------
Next ==
  \/ \E a \in Artifacts : PublishVersion(a)
  \/ \E a \in Artifacts : DisableVersion(a)
  \/ \E r \in Requests, d \in Deployments : CheckDeployment(r, d)
  \/ \E r \in Requests, d \in Deployments : RefuseDeployment(r, d)
  \/ \E r \in Requests : InsertDeployment(r)
  \/ \E r \in Requests, d \in Deployments, sel \in Selections : BeginSnapshot(r, d, sel)
  \/ \E r \in Requests : ResolveSelection(r)
  \/ \E r \in Requests : RejectSelection(r)
  \/ \E r \in Requests : AllocateRevision(r)
  \/ \E r \in Requests : LoadPrevious(r)
  \/ \E r \in Requests : FlushSnapshot(r)
  \/ \E r \in Requests : ConflictSnapshot(r)
  \/ \E r \in Requests : AbortRequest(r)

Spec == Init /\ [][Next]_vars
-----------------------------------------------------------------------------
(* get_active_snapshot: active rows, highest revision first, one row.  The *)
(* revision that the internal API serves, or 0 for SNAPSHOT_UNAVAILABLE.   *)
ActiveRevision(d) == Newest({s.revision : s \in {t \in snapshots[d] : t.active}})

(* Every variable holds a value of its kind, and rows refer to rows. *)
TypeOK ==
  /\ published \subseteq Artifacts
  /\ disabled \subseteq published
  /\ deployments \subseteq Deployments
  /\ snapshots \in [Deployments -> SUBSET Snapshot]
  /\ req \in [Requests -> Request]
  /\ \A r \in Requests : req[r].pc \in {"resolve", "load", "flush"} => req[r].dep \in deployments
  /\ \A r \in Requests : req[r].pc # "idle" => req[r].dep \in Deployments

(* "Revisions are unique per deployment and never reused" (models.py):     *)
(* however creations interleave, fail and retry, a deployment's revisions  *)
(* are 1..n with one row each.                                             *)
RevisionsContiguous ==
  \A d \in Deployments :
    /\ LastRevision(d) \in Nat
    /\ Revisions(d) = 1..LastRevision(d)
    /\ \A s, t \in snapshots[d] : s.revision = t.revision => s = t

(* "Exactly one snapshot per deployment is active" (models.py): once a     *)
(* deployment has a snapshot, the newest one is active and no other is,    *)
(* although each creation deactivates only the rows it read.               *)
OneActive ==
  \A d \in Deployments : \A s \in snapshots[d] :
    s.active <=> \A t \in snapshots[d] : t.revision <= s.revision

(* A revision read before someone else's commit is either still the next   *)
(* one, and then every active row was in the list that was loaded, or it   *)
(* is taken.  This is why the unique constraint at the flush is enough to  *)
(* keep one snapshot active.                                               *)
StaleReadsAreTaken ==
  \A r \in Requests :
    /\ req[r].pc \in {"load", "flush"} => req[r].revision \in 1..NextRevision(req[r].dep)
    /\ req[r].pc = "flush" =>
         \/ RevisionTaken(req[r].dep, req[r].revision)
         \/ \A s \in snapshots[req[r].dep] : s.active => s.revision \in req[r].previous

(* The inductive invariant behind RevisionsContiguous and OneActive. *)
IInv ==
  /\ TypeOK
  /\ RevisionsContiguous
  /\ OneActive
  /\ StaleReadsAreTaken

(* "a snapshot may pin only one version per connector", and only versions  *)
(* that exist: the duplicate check of create_snapshot runs selection by    *)
(* selection, between the commits of others.                               *)
PinsWellFormed ==
  \A d \in Deployments : \A s \in snapshots[d] :
    /\ s.pins # {}
    /\ s.pins \subseteq published
    /\ \A p, q \in s.pins : p.connector = q.connector => p = q

(* What a creation has resolved so far is fit to be pinned, and was not    *)
(* disabled when the request arrived: with PinsWellFormed, the inductive   *)
(* invariant behind PinsAdmissible.                                        *)
RequestPins ==
  \A r \in Requests : req[r].pc \in {"resolve", "load", "flush"} =>
    /\ req[r].disabledAtStart \subseteq disabled
    /\ req[r].pins \subseteq published
    /\ req[r].pins \cap req[r].disabledAtStart = {}
    /\ \A p, q \in req[r].pins : p.connector = q.connector => p = q
    /\ req[r].pins # {} \/ (req[r].pc = "resolve" /\ req[r].todo # <<>>)

(* A snapshot row is written once: later steps may only deactivate it, and *)
(* a deactivated snapshot never becomes active again.                      *)
SnapshotsImmutable ==
  [][\A d \in Deployments : \A s \in snapshots[d] :
       \E t \in snapshots'[d] :
         /\ t.revision = s.revision
         /\ t.pins = s.pins
         /\ t.active => s.active]_vars

(* What the internal API serves for a deployment never goes back to an     *)
(* earlier revision, and never disappears once it is there: this is what   *)
(* the runtime's refresh relies on.                                        *)
ServedNeverRegresses ==
  [][\A d \in Deployments : ActiveRevision(d)' >= ActiveRevision(d)]_vars

(* What create_snapshot pins is well formed, and a version whose           *)
(* disablement was acknowledged before the creation began is not in it.    *)
(* (A disablement that lands while the creation is running may be missed:  *)
(* see the README.)                                                        *)
PinsAdmissible ==
  [][/\ PinsWellFormed'
     /\ \A d \in Deployments : \A s \in snapshots'[d] :
          s.revision \notin Revisions(d) =>
            \E r \in Requests :
              /\ req[r].dep = d
              /\ req[r].revision = s.revision
              /\ req[r].pins = s.pins
              /\ s.pins \cap req[r].disabledAtStart = {}]_vars

(* It is not the case that "A disabled version cannot enter a new          *)
(* snapshot" (docs/control-plane.md:174): between the check of a pin and   *)
(* the commit of create_snapshot nothing looks at disabled_at again.       *)
DisabledNeverEnters ==
  [][\A d \in Deployments : \A s \in snapshots'[d] :
       s.revision \notin Revisions(d) => s.pins \cap disabled = {}]_vars

(* What a deployment promises its readers: an append-only log of pin sets. *)
Log == INSTANCE SnapshotLog WITH
  Keys <- Deployments,
  Contents <- SUBSET Artifacts,
  log <- [d \in Deployments |->
            [i \in 1..LastRevision(d) |->
               (CHOOSE s \in snapshots[d] : s.revision = i).pins]],
  current <- [d \in Deployments |-> ActiveRevision(d)]

(* create_snapshot, interleaved with itself, implements that log: every    *)
(* step appends one entry and serves it, or changes nothing readers see.   *)
LogRefinement == Log!Spec
=============================================================================
