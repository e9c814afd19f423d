---------------------------- MODULE SnapshotStore ----------------------------
(***************************************************************************)
(* The runtime's hold on its deployment snapshot: SnapshotClient.fetch,    *)
(* load_snapshot_document and SnapshotStore (runtime_service/snapshot.py), *)
(* against the Control Plane's internal read API (routes_internal.py).     *)
(*                                                                         *)
(* The Control Plane is the log of snapshots it has written; the last one  *)
(* is served (module Snapshots shows that this is what readers see).  Its  *)
(* digest is taken over a payload that holds the revision, so the entity   *)
(* tag of a snapshot is its revision here.                                 *)
(*                                                                         *)
(* Time is abstracted to whether the held snapshot is younger than         *)
(* refresh_seconds: loading sets it, and Expire clears it at any moment.   *)
(***************************************************************************)
EXTENDS Integers, Sequences

CONSTANTS
  Threads,       \* callers of the store: requests, the readiness probe, an operator
  Faults,        \* what a fetch may meet, a subset of the kinds below
  MaxRevision    \* bound: revisions that the Control Plane writes

(* unreachable: httpx.HTTPError, timeouts included                         *)
(* refused:     a 4xx or 5xx status                                        *)
(* altered:     a document whose digest or signature does not verify       *)
(* malformed:   an answer below 400 that is not JSON                       *)
FaultKinds == {"unreachable", "refused", "altered", "malformed"}

ASSUME FaultsAssumption == Faults \subseteq FaultKinds
ASSUME MaxRevisionAssumption == MaxRevision \in Nat

VARIABLES
  written,   \* the Control Plane's snapshots: is each one loadable by a runtime?
  held,      \* _current: [revision, fresh], or revision 0 for None
  lock,      \* the holder of _refresh_lock, as a set of at most one thread
  thread     \* per thread, the locals of its call

vars == <<written, held, lock, thread>>

Held == [revision : Nat, fresh : BOOLEAN]

Nothing == [revision |-> 0, fresh |-> FALSE]

(* What fetch hands back: a verified snapshot, None for a 304, or how it   *)
(* failed.                                                                 *)
Outcome == {"pending", "loaded", "unmodified", "error", "crash"}

(* existing is what refresh read under the lock, got the snapshot that the *)
(* call returned.  floor is a history variable: the revision being served  *)
(* when the call was made.                                                 *)
Thread ==
  [pc : {"idle", "waiting", "fetching", "fetched", "serving", "failed"},
   existing : Nat, answer : Nat, outcome : Outcome, got : Nat, floor : Nat]

Idle ==
  [pc |-> "idle", existing |-> 0, answer |-> 0, outcome |-> "pending", got |-> 0, floor |-> 0]

Active == Len(written)

Init ==
  /\ written = <<>>
  /\ held = Nothing
  /\ lock = {}
  /\ thread = [t \in Threads |-> Idle]

-----------------------------------------------------------------------------
(* The environment. *)

(* create_snapshot commits.  A snapshot that the Control Plane accepts may *)
(* still be one that no runtime loads: two of its connectors may share a   *)
(* tool name, which only _index refuses.                                   *)
WriteSnapshot(loadable) ==
  /\ Active < MaxRevision
  /\ written' = Append(written, loadable)
  /\ UNCHANGED <<held, lock, thread>>

(* refresh_seconds pass. *)
Expire ==
  /\ held.fresh
  /\ held' = [held EXCEPT !.fresh = FALSE]
  /\ UNCHANGED <<written, lock, thread>>

-----------------------------------------------------------------------------
(* Callers of the store. *)

(* ensure_fresh: the held snapshot is young enough and returned as it is. *)
ServeFresh(t) ==
  /\ thread[t].pc = "idle"
  /\ held.revision # 0
  /\ held.fresh
  /\ thread' = [thread EXCEPT ![t] = [Idle EXCEPT !.pc = "serving", !.got = held.revision]]
  /\ UNCHANGED <<written, held, lock>>

(* ensure_fresh with nothing held or an old snapshot, readyz with nothing  *)
(* held, or POST /v1/snapshot/refresh: the caller wants the lock.          *)
AskRefresh(t) ==
  /\ thread[t].pc = "idle"
  /\ thread' = [thread EXCEPT ![t] = [Idle EXCEPT !.pc = "waiting", !.floor = Active]]
  /\ UNCHANGED <<written, held, lock>>

(* Mutant: the fetch runs outside the lock. *)
AcquireLock_Unlocked(t) ==
  /\ thread[t].pc = "waiting"
  /\ thread' = [thread EXCEPT ![t].pc = "fetching", ![t].existing = held.revision]
  /\ UNCHANGED <<written, held, lock>>

(* refresh: the lock is taken, and the held snapshot read under it. *)
AcquireLock(t) ==
  /\ thread[t].pc = "waiting"
  /\ lock = {}
  /\ lock' = {t}
  /\ thread' = [thread EXCEPT ![t].pc = "fetching", ![t].existing = held.revision]
  /\ UNCHANGED <<written, held>>

(* Mutant: the document is installed without being verified. *)
Loadable_Unverified(n) == TRUE

(* load_snapshot_document refuses a document it cannot verify or index. *)
Loadable(n) == written[n]

(* Mutant: any entity tag is taken for a match. *)
NotModified_AnyTag(t) == thread[t].existing # 0

(* read_snapshot answers 304 when If-None-Match names what is served. *)
NotModified(t) == thread[t].existing # 0 /\ thread[t].existing = Active

FetchOutcome(t) ==
  IF Active = 0 THEN "error"
  ELSE IF NotModified(t) THEN "unmodified"
  ELSE IF Loadable(Active) THEN "loaded" ELSE "error"

(* The Control Plane answers from its database, and fetch digests that. *)
Answer(t) ==
  /\ thread[t].pc = "fetching"
  /\ thread' = [thread EXCEPT ![t].pc = "fetched", ![t].answer = Active,
                              ![t].outcome = FetchOutcome(t)]
  /\ UNCHANGED <<written, held, lock>>

(* A fault raises a ToolLayerError, except that response.json() lets a     *)
(* decoding error through as it is.                                        *)
FaultOutcome(fault) == IF fault = "malformed" THEN "crash" ELSE "error"

FailFetch(t, fault) ==
  /\ thread[t].pc = "fetching"
  /\ thread' = [thread EXCEPT ![t].pc = "fetched", ![t].outcome = FaultOutcome(fault)]
  /\ UNCHANGED <<written, held, lock>>

-----------------------------------------------------------------------------
(* The rest of refresh, by what fetch did.  Each releases the lock. *)

Install(t, revision) ==
  /\ held' = [revision |-> revision, fresh |-> TRUE]
  /\ thread' = [thread EXCEPT ![t].pc = "serving", ![t].got = revision]

InstallLoaded(t) ==
  /\ thread[t].pc = "fetched"
  /\ thread[t].outcome = "loaded"
  /\ Install(t, thread[t].answer)
  /\ lock' = lock \ {t}
  /\ UNCHANGED written

(* A 304 renews the age of what refresh read, not of what is held now. *)
RenewHeld(t) ==
  /\ thread[t].pc = "fetched"
  /\ thread[t].outcome = "unmodified"
  /\ Install(t, thread[t].existing)
  /\ lock' = lock \ {t}
  /\ UNCHANGED written

(* "A refresh failure is not a serving failure." *)
KeepHeld(t) ==
  /\ thread[t].pc = "fetched"
  /\ thread[t].outcome = "error"
  /\ thread[t].existing # 0
  /\ thread' = [thread EXCEPT ![t].pc = "serving", ![t].got = thread[t].existing]
  /\ lock' = lock \ {t}
  /\ UNCHANGED <<written, held>>

(* Mutant: the exception leaves the lock taken. *)
RaiseError_KeepsLock(t) ==
  /\ thread[t].pc = "fetched"
  /\ \/ thread[t].outcome = "error" /\ thread[t].existing = 0
     \/ thread[t].outcome = "crash"
  /\ thread' = [thread EXCEPT ![t].pc = "failed"]
  /\ UNCHANGED <<written, held, lock>>

(* Nothing to fall back on, or an exception that refresh does not catch. *)
RaiseError(t) ==
  /\ thread[t].pc = "fetched"
  /\ \/ thread[t].outcome = "error" /\ thread[t].existing = 0
     \/ thread[t].outcome = "crash"
  /\ thread' = [thread EXCEPT ![t].pc = "failed"]
  /\ lock' = lock \ {t}
  /\ UNCHANGED <<written, held>>

(* The request that wanted a snapshot is answered. *)
Finish(t) ==
  /\ thread[t].pc \in {"serving", "failed"}
  /\ thread' = [thread EXCEPT ![t] = Idle]
  /\ UNCHANGED <<written, held, lock>>

-----------------------------------------------------------------------------
Refresh(t) ==
  \/ AcquireLock(t)
  \/ Answer(t)
  \/ \E fault \in Faults : FailFetch(t, fault)
  \/ InstallLoaded(t)
  \/ RenewHeld(t)
  \/ KeepHeld(t)
  \/ RaiseError(t)
  \/ Finish(t)

Next ==
  \/ \E loadable \in BOOLEAN : WriteSnapshot(loadable)
  \/ Expire
  \/ \E t \in Threads : ServeFresh(t)
  \/ \E t \in Threads : AskRefresh(t)
  \/ \E t \in Threads : Refresh(t)

Spec == Init /\ [][Next]_vars

(* Fairness.  Time passes.  Requests keep coming, so ensure_fresh is       *)
(* called when the snapshot is old; nobody need post to the refresh        *)
(* endpoint.  A free lock is given to some waiter (threading.Lock promises *)
(* no more than that).  The client's timeout ends every fetch, and the     *)
(* code after it runs to its end.  The Control Plane is not out of reach   *)
(* for ever.                                                               *)
Settle(t) ==
  \/ Answer(t)
  \/ \E fault \in Faults : FailFetch(t, fault)
  \/ InstallLoaded(t)
  \/ RenewHeld(t)
  \/ KeepHeld(t)
  \/ RaiseError(t)
  \/ Finish(t)

Fairness ==
  /\ WF_vars(Expire)
  /\ WF_vars(\E t \in Threads : ~held.fresh /\ AskRefresh(t))
  /\ WF_vars(\E t \in Threads : AcquireLock(t))
  /\ \A t \in Threads : WF_vars(Settle(t))
  /\ SF_vars(\E t \in Threads : Answer(t))

FairSpec == Spec /\ Fairness

-----------------------------------------------------------------------------
(* Every variable holds a value of its kind. *)
TypeOK ==
  /\ written \in Seq(BOOLEAN)
  /\ held \in Held
  /\ lock \subseteq Threads
  /\ thread \in [Threads -> Thread]

(* "a snapshot that fails authentication never replaces one that passed    *)
(* it" (snapshot.py): what the store holds, and what any request is served *)
(* from, was written by the Control Plane and passed every check.          *)
OnlyVerifiedServed ==
  /\ held.revision # 0 => held.revision \in 1..Active /\ written[held.revision]
  /\ \A t \in Threads : thread[t].pc = "serving" =>
       thread[t].got \in 1..Active /\ written[thread[t].got]

(* The held snapshot never goes back to an earlier revision, and is never  *)
(* dropped, although several threads refresh at once and answers take any  *)
(* time: refresh fetches under its lock.                                   *)
HeldNeverRegresses ==
  [][held'.revision >= held.revision]_vars

(* A refresh that did not fail returns a snapshot at least as new as the   *)
(* one being served when it was asked for, even if it waited for others.   *)
RefreshIsCurrent ==
  \A t \in Threads :
    /\ thread[t].pc = "serving"
    /\ thread[t].outcome \in {"loaded", "unmodified"}
    => thread[t].got >= thread[t].floor

(* Between taking and releasing the lock, what a thread read as held is    *)
(* still held, and what it was answered is no older than that.             *)
RefreshDiscipline ==
  /\ \A t \in Threads : t \in lock <=> thread[t].pc \in {"fetching", "fetched"}
  /\ \A t, u \in lock : t = u
  /\ \A t \in lock : thread[t].existing = held.revision
  /\ \A t \in Threads : thread[t].floor <= Active
  /\ \A t \in Threads :
       /\ thread[t].pc = "fetched" /\ thread[t].outcome = "loaded"
       => /\ thread[t].answer \in 1..Active
          /\ written[thread[t].answer]
          /\ thread[t].answer >= thread[t].existing
          /\ thread[t].answer >= thread[t].floor
  /\ \A t \in Threads :
       /\ thread[t].pc = "fetched" /\ thread[t].outcome = "unmodified"
       => thread[t].existing # 0 /\ thread[t].existing >= thread[t].floor

(* The inductive invariant behind the safety properties of the store. *)
IInv ==
  /\ TypeOK
  /\ OnlyVerifiedServed
  /\ RefreshIsCurrent
  /\ RefreshDiscipline

(* "keeping the current one if the new one is unusable" (snapshot.py): a   *)
(* caller is refused only if the store held nothing to serve.              *)
RefusedOnlyWhenEmpty ==
  \A t \in Threads : thread[t].pc = "failed" => thread[t].existing = 0

(* Whatever the Control Plane last wrote is eventually held, if a runtime  *)
(* can load it and nothing newer is written.                               *)
CatchesUp ==
  \A n \in 1..MaxRevision :
    (Active = n /\ written[n]) ~> (held.revision = n \/ Active # n)

(* Whatever fetch raises, nobody keeps the refresh lock, and nobody is     *)
(* refused while there is something to serve, unless by an exception that  *)
(* refresh does not catch.                                                 *)
RefreshSettles ==
  /\ [](\A t \in Threads : thread[t].pc = "failed" /\ thread[t].existing # 0
                             => thread[t].outcome = "crash")
  /\ \A t \in Threads : t \in lock ~> t \notin lock
=============================================================================
