------------------------ MODULE SnapshotStoreProofs ------------------------
(***************************************************************************)
(* Proofs about SnapshotStore, for any number of threads, any faults and   *)
(* any number of revisions.                                                *)
(***************************************************************************)
EXTENDS SnapshotStore, TLAPS

(* The state of a thread between calls is a thread state. *)
LEMMA IdleType == Idle \in Thread
BY DEF Idle, Thread, Outcome

(* The runtime starts with nothing held and nobody refreshing. *)
LEMMA InitIInv == Init => IInv
BY IdleType DEF Init, IInv, TypeOK, OnlyVerifiedServed, RefreshIsCurrent, RefreshDiscipline,
                Held, Nothing, Idle, Active

(* The Control Plane appending a snapshot disturbs nothing that was read. *)
LEMMA WriteStep ==
  ASSUME IInv, NEW loadable \in BOOLEAN, WriteSnapshot(loadable)
  PROVE  IInv'
<1>1. /\ written' \in Seq(BOOLEAN)
      /\ Active \in Nat
      /\ Active' = Active + 1
      /\ \A n \in 1..Active : written'[n] = written[n]
  BY DEF IInv, TypeOK, WriteSnapshot, Active
<1>2. held' = held /\ lock' = lock /\ thread' = thread
  BY DEF WriteSnapshot
<1>0. 1..Active \subseteq 1..Active'
  BY <1>1
<1>3. TypeOK'
  BY <1>1, <1>2 DEF IInv, TypeOK
<1>4. OnlyVerifiedServed'
  BY <1>0, <1>1, <1>2 DEF IInv, OnlyVerifiedServed
<1>5. RefreshIsCurrent'
  BY <1>2 DEF IInv, RefreshIsCurrent
<1>6. RefreshDiscipline'
  <2>1. \A t \in Threads : thread[t].floor \in Nat
    BY DEF IInv, TypeOK, Thread
  <2>. QED  BY <2>1, <1>0, <1>1, <1>2 DEF IInv, RefreshDiscipline
<1>. QED  BY <1>3, <1>4, <1>5, <1>6 DEF IInv

(* Time passing only changes the age of what is held. *)
LEMMA ExpireStep ==
  ASSUME IInv, Expire
  PROVE  IInv'
<1>1. /\ held' \in Held
      /\ held'.revision = held.revision
      /\ written' = written /\ lock' = lock /\ thread' = thread
  BY DEF IInv, TypeOK, Expire, Held
<1>. QED  BY <1>1 DEF IInv, TypeOK, OnlyVerifiedServed, RefreshIsCurrent, RefreshDiscipline, Active

(* What a state x that a thread moves to must satisfy, by itself. *)
Sound(x) ==
  /\ x.floor <= Active
  /\ x.pc = "serving" => x.got \in 1..Active /\ written[x.got]
  /\ x.pc = "serving" /\ x.outcome \in {"loaded", "unmodified"} => x.got >= x.floor
  /\ x.pc = "fetched" /\ x.outcome = "loaded" =>
       /\ x.answer \in 1..Active
       /\ written[x.answer]
       /\ x.answer >= x.existing
       /\ x.answer >= x.floor
  /\ x.pc = "fetched" /\ x.outcome = "unmodified" => x.existing # 0 /\ x.existing >= x.floor

InLock(x) == x.pc \in {"fetching", "fetched"}

(* Every thread is sound in a state of the invariant. *)
LEMMA ThreadsSound ==
  ASSUME IInv, NEW t \in Threads
  PROVE  /\ Sound(thread[t])
         /\ thread[t] \in Thread
         /\ t \in lock <=> InLock(thread[t])
         /\ t \in lock => lock = {t} /\ thread[t].existing = held.revision
         /\ Active \in Nat
         /\ lock \subseteq Threads
BY DEF IInv, TypeOK, OnlyVerifiedServed, RefreshIsCurrent, RefreshDiscipline, Sound, InLock, Active

(* One thread moving to a sound state keeps the invariant, if it takes the *)
(* lock only when it is free, holds what it read while it has the lock,    *)
(* and replaces the held snapshot only under the lock.                     *)
LEMMA MoveStep ==
  ASSUME IInv,
         NEW t \in Threads, NEW x \in Thread, Sound(x),
         thread' = [thread EXCEPT ![t] = x],
         written' = written,
         held' \in Held,
         held'.revision # 0 => held'.revision \in 1..Active /\ written[held'.revision],
         held'.revision = held.revision \/ lock = {t},
         InLock(x) => lock \subseteq {t} /\ lock' = {t} /\ x.existing = held'.revision,
         ~InLock(x) => lock' = lock \ {t}
  PROVE  IInv'
<1>1. /\ thread' \in [Threads -> Thread]
      /\ thread'[t] = x
      /\ \A u \in Threads : u # t => thread'[u] = thread[u]
  BY DEF IInv, TypeOK
<1>2. /\ Active' = Active
      /\ lock \subseteq Threads
      /\ lock' \subseteq Threads
  BY DEF IInv, TypeOK, Active
<1>3. \A u \in Threads : Sound(thread'[u])
  BY <1>1, ThreadsSound
<1>4. \A u \in Threads : u \in lock' <=> InLock(thread'[u])
  BY <1>1, <1>2, ThreadsSound
<1>5. \A u \in lock' : lock' = {u} /\ thread'[u].existing = held'.revision
  <2>1. CASE InLock(x)
    BY <2>1, <1>1
  <2>2. CASE ~InLock(x)
    <3>1. ASSUME NEW u \in lock' PROVE lock' = {u} /\ thread'[u].existing = held'.revision
      <4>1. u \in lock /\ u # t /\ u \in Threads
        BY <2>2, <3>1, <1>2
      <4>2. lock = {u} /\ thread[u].existing = held.revision
        BY <4>1, ThreadsSound
      <4>. QED  BY <4>1, <4>2, <2>2, <1>1
    <3>. QED  BY <3>1
  <2>. QED  BY <2>1, <2>2
<1>6. TypeOK'
  BY <1>1, <1>2 DEF IInv, TypeOK
<1>7. OnlyVerifiedServed'
  BY <1>2, <1>3 DEF OnlyVerifiedServed, Sound
<1>8. RefreshIsCurrent'
  BY <1>3 DEF RefreshIsCurrent, Sound
<1>9. RefreshDiscipline'
  <2>1. \A u, v \in lock' : u = v
    BY <1>5
  <2>. QED  BY <1>2, <1>3, <1>4, <1>5, <2>1 DEF RefreshDiscipline, Sound, InLock
<1>. QED  BY <1>6, <1>7, <1>8, <1>9 DEF IInv

(* ensure_fresh returning what is held. *)
LEMMA ServeFreshStep ==
  ASSUME IInv, NEW t \in Threads, ServeFresh(t)
  PROVE  IInv'
<1> DEFINE x == [Idle EXCEPT !.pc = "serving", !.got = held.revision]
<1>1. held \in Held /\ held.revision \in Nat /\ Active \in Nat
  BY ThreadsSound DEF IInv, TypeOK, Held
<1>2. held.revision \in 1..Active /\ written[held.revision]
  BY DEF ServeFresh, IInv, OnlyVerifiedServed
<1>3. /\ x \in Thread /\ x.pc = "serving" /\ x.got = held.revision
       /\ x.floor = 0 /\ x.outcome = "pending"
  BY <1>1 DEF Thread, Outcome, Idle
<1>7. Sound(x) /\ ~InLock(x)
  <2> HIDE DEF x
  <2>. QED  BY <1>1, <1>2, <1>3 DEF Sound, InLock
<1>4. thread[t].pc = "idle" /\ thread' = [thread EXCEPT ![t] = x]
      /\ written' = written /\ held' = held /\ lock' = lock
  BY DEF ServeFresh
<1>5. t \notin lock
  BY <1>4, ThreadsSound DEF InLock
<1>6. lock' = lock \ {t}
  BY <1>4, <1>5
<1> HIDE DEF x
<1>. QED  BY <1>1, <1>2, <1>3, <1>4, <1>6, <1>7, MoveStep

(* A call that wants a refresh, and one that is over. *)
LEMMA WaitStep ==
  ASSUME IInv, NEW t \in Threads, AskRefresh(t) \/ Finish(t)
  PROVE  IInv'
<1>1. held \in Held /\ Active \in Nat
      /\ (held.revision # 0 => held.revision \in 1..Active /\ written[held.revision])
  BY ThreadsSound DEF IInv, TypeOK, OnlyVerifiedServed
<1>2. thread[t].pc \in {"idle", "serving", "failed"}
      /\ written' = written /\ held' = held /\ lock' = lock
  BY DEF AskRefresh, Finish
<1>3. t \notin lock
  BY <1>2, ThreadsSound DEF InLock
<1>4. lock' = lock \ {t}
  BY <1>2, <1>3
<1>5. CASE AskRefresh(t)
  <2> DEFINE x == [Idle EXCEPT !.pc = "waiting", !.floor = Active]
  <2>1. x \in Thread /\ x.pc = "waiting" /\ x.floor = Active
    BY <1>1 DEF Thread, Outcome, Idle
  <2>2. thread' = [thread EXCEPT ![t] = x]
    BY <1>5 DEF AskRefresh
  <2> HIDE DEF x
  <2>3. Sound(x) /\ ~InLock(x)
    BY <1>1, <2>1 DEF Sound, InLock
  <2>. QED  BY <1>1, <1>2, <1>4, <2>1, <2>2, <2>3, MoveStep
<1>6. CASE Finish(t)
  <2>1. Sound(Idle) /\ ~InLock(Idle)
    BY <1>1 DEF Idle, Sound, InLock
  <2>2. thread' = [thread EXCEPT ![t] = Idle]
    BY <1>6 DEF Finish
  <2>. QED  BY <1>1, <1>2, <1>4, <2>1, <2>2, IdleType, MoveStep
<1>. QED  BY <1>5, <1>6

(* refresh taking the lock and reading what is held. *)
LEMMA AcquireStep ==
  ASSUME IInv, NEW t \in Threads, AcquireLock(t)
  PROVE  IInv'
<1> DEFINE x == [thread[t] EXCEPT !.pc = "fetching", !.existing = held.revision]
<1>1. held \in Held /\ held.revision \in Nat
      /\ (held.revision # 0 => held.revision \in 1..Active /\ written[held.revision])
  BY DEF IInv, TypeOK, OnlyVerifiedServed, Held
<1>2. thread[t] \in Thread /\ Sound(thread[t])
  BY ThreadsSound
<1>3. x \in Thread /\ Sound(x) /\ InLock(x) /\ x.existing = held.revision
  BY <1>1, <1>2 DEF Thread, Outcome, Sound, InLock
<1>4. thread' = [thread EXCEPT ![t] = x]
      /\ written' = written /\ held' = held /\ lock = {} /\ lock' = {t}
  BY DEF AcquireLock
<1> HIDE DEF x
<1>. QED  BY <1>1, <1>3, <1>4, MoveStep

(* The answer of the Control Plane, which is the newest snapshot. *)
LEMMA AnswerStep ==
  ASSUME IInv, NEW t \in Threads, Answer(t)
  PROVE  IInv'
<1> DEFINE x == [thread[t] EXCEPT !.pc = "fetched", !.answer = Active, !.outcome = FetchOutcome(t)]
<1>1. held \in Held /\ held.revision \in Nat /\ Active \in Nat
      /\ (held.revision # 0 => held.revision \in 1..Active /\ written[held.revision])
  BY ThreadsSound DEF IInv, TypeOK, OnlyVerifiedServed, Held
<1>2. thread' = [thread EXCEPT ![t] = x]
      /\ written' = written /\ held' = held /\ lock' = lock /\ thread[t].pc = "fetching"
  BY DEF Answer
<1>3. /\ thread[t] \in Thread /\ Sound(thread[t])
      /\ lock = {t} /\ thread[t].existing = held.revision
  BY <1>2, ThreadsSound DEF InLock
<1>4. /\ FetchOutcome(t) \in Outcome
      /\ FetchOutcome(t) = "loaded" => Active # 0 /\ written[Active]
      /\ FetchOutcome(t) = "unmodified" => thread[t].existing # 0 /\ thread[t].existing = Active
  BY DEF FetchOutcome, Loadable, NotModified, Outcome
<1>5. x \in Thread
  BY <1>1, <1>3, <1>4 DEF Thread
<1>6. /\ x.pc = "fetched" /\ x.answer = Active /\ x.outcome = FetchOutcome(t)
      /\ x.existing = held.revision /\ x.floor = thread[t].floor
      /\ thread[t].floor \in Nat /\ thread[t].floor <= Active
  BY <1>3, <1>5 DEF Thread, Sound
<1> HIDE DEF x
<1>7. Sound(x)
  BY <1>1, <1>3, <1>4, <1>6 DEF Sound
<1>8. InLock(x) /\ x.existing = held'.revision
  BY <1>2, <1>6 DEF InLock
<1>. QED  BY <1>1, <1>2, <1>3, <1>5, <1>7, <1>8, MoveStep

(* A fetch that fails. *)
LEMMA FailStep ==
  ASSUME IInv, NEW t \in Threads, NEW fault, FailFetch(t, fault)
  PROVE  IInv'
<1> DEFINE x == [thread[t] EXCEPT !.pc = "fetched", !.outcome = FaultOutcome(fault)]
<1>1. held \in Held
      /\ (held.revision # 0 => held.revision \in 1..Active /\ written[held.revision])
  BY DEF IInv, TypeOK, OnlyVerifiedServed
<1>2. thread' = [thread EXCEPT ![t] = x]
      /\ written' = written /\ held' = held /\ lock' = lock /\ thread[t].pc = "fetching"
  BY DEF FailFetch
<1>3. /\ thread[t] \in Thread /\ Sound(thread[t])
      /\ lock = {t} /\ thread[t].existing = held.revision
  BY <1>2, ThreadsSound DEF InLock
<1>4. FaultOutcome(fault) \in {"error", "crash"}
  BY DEF FaultOutcome
<1>5. x \in Thread /\ InLock(x) /\ x.existing = held'.revision
  BY <1>2, <1>3, <1>4 DEF Thread, Outcome, InLock
<1>6. Sound(x)
  BY <1>3, <1>4 DEF Thread, Sound
<1> HIDE DEF x
<1>. QED  BY <1>1, <1>2, <1>3, <1>5, <1>6, MoveStep

(* A refresh that installs: what it puts in place was verified, and is no  *)
(* older than what was there.                                              *)
LEMMA InstallStep ==
  ASSUME IInv, NEW t \in Threads, InstallLoaded(t) \/ RenewHeld(t)
  PROVE  IInv' /\ held'.revision >= held.revision
<1> DEFINE n == IF thread[t].outcome = "loaded" THEN thread[t].answer ELSE thread[t].existing
<1> DEFINE x == [thread[t] EXCEPT !.pc = "serving", !.got = n]
<1>1. /\ held.revision \in Nat /\ Active \in Nat
      /\ (held.revision # 0 => held.revision \in 1..Active /\ written[held.revision])
  BY ThreadsSound DEF IInv, TypeOK, OnlyVerifiedServed, Held
<1>2. /\ thread[t].pc = "fetched" /\ thread[t].outcome \in {"loaded", "unmodified"}
      /\ written' = written /\ lock' = lock \ {t}
  BY DEF InstallLoaded, RenewHeld
<1>3. thread' = [thread EXCEPT ![t] = x] /\ held' = [revision |-> n, fresh |-> TRUE]
  BY DEF InstallLoaded, RenewHeld, Install
<1>4. /\ thread[t] \in Thread /\ Sound(thread[t])
      /\ lock = {t} /\ thread[t].existing = held.revision
  BY <1>2, ThreadsSound DEF InLock
<1>5. /\ n \in 1..Active /\ written[n] /\ n >= thread[t].floor /\ n >= held.revision
  BY <1>1, <1>2, <1>4 DEF Sound
<1>6. x \in Thread
  BY <1>1, <1>4, <1>5 DEF Thread
<1>7. /\ x.pc = "serving" /\ x.got = n /\ x.floor = thread[t].floor
      /\ thread[t].floor <= Active
  BY <1>4, <1>6 DEF Thread, Sound
<1>8. held' \in Held /\ held'.revision = n
  BY <1>1, <1>3, <1>5 DEF Held
<1> HIDE DEF x, n
<1>9. Sound(x) /\ ~InLock(x)
  BY <1>5, <1>7 DEF Sound, InLock
<1>10. IInv'
  BY <1>2, <1>3, <1>4, <1>5, <1>6, <1>8, <1>9, MoveStep
<1>. QED  BY <1>5, <1>8, <1>10

(* A refresh that failed: the held snapshot is served, or the call fails. *)
LEMMA ReleaseStep ==
  ASSUME IInv, NEW t \in Threads, KeepHeld(t) \/ RaiseError(t)
  PROVE  IInv'
<1>1. /\ held \in Held /\ held.revision \in Nat
      /\ (held.revision # 0 => held.revision \in 1..Active /\ written[held.revision])
  BY DEF IInv, TypeOK, OnlyVerifiedServed, Held
<1>2. /\ thread[t].pc = "fetched" /\ written' = written /\ held' = held /\ lock' = lock \ {t}
  BY DEF KeepHeld, RaiseError
<1>3. /\ thread[t] \in Thread /\ Sound(thread[t])
      /\ lock = {t} /\ thread[t].existing = held.revision
  BY <1>2, ThreadsSound DEF InLock
<1>4. CASE KeepHeld(t)
  <2> DEFINE x == [thread[t] EXCEPT !.pc = "serving", !.got = thread[t].existing]
  <2>1. /\ thread' = [thread EXCEPT ![t] = x]
        /\ thread[t].outcome = "error" /\ thread[t].existing # 0
    BY <1>4 DEF KeepHeld
  <2>2. x \in Thread /\ ~InLock(x)
    BY <1>1, <1>3 DEF Thread, InLock
  <2>3. Sound(x)
    BY <1>1, <1>3, <2>1 DEF Thread, Sound
  <2> HIDE DEF x
  <2>. QED  BY <1>1, <1>2, <1>3, <2>1, <2>2, <2>3, MoveStep
<1>5. CASE RaiseError(t)
  <2> DEFINE x == [thread[t] EXCEPT !.pc = "failed"]
  <2>1. thread' = [thread EXCEPT ![t] = x]
    BY <1>5 DEF RaiseError
  <2>2. x \in Thread /\ ~InLock(x) /\ Sound(x)
    BY <1>3 DEF Thread, InLock, Sound
  <2> HIDE DEF x
  <2>. QED  BY <1>1, <1>2, <1>3, <2>1, <2>2, MoveStep
<1>. QED  BY <1>4, <1>5

(* Every step keeps the invariant and never takes the held snapshot back. *)
LEMMA NextIInv ==
  ASSUME IInv, [Next]_vars
  PROVE  IInv' /\ held'.revision >= held.revision
<1>1. held \in Held /\ held.revision >= held.revision
  BY DEF IInv, TypeOK, Held
<1>2. ASSUME NEW loadable \in BOOLEAN, WriteSnapshot(loadable)
      PROVE  IInv' /\ held' = held
  BY <1>2, WriteStep DEF WriteSnapshot
<1>3. ASSUME Expire
      PROVE  IInv' /\ held'.revision = held.revision
  BY <1>1, <1>3, ExpireStep DEF Expire, Held
<1>4. ASSUME NEW t \in Threads, ServeFresh(t)
      PROVE  IInv' /\ held' = held
  BY <1>4, ServeFreshStep DEF ServeFresh
<1>5. ASSUME NEW t \in Threads, AskRefresh(t) \/ Finish(t)
      PROVE  IInv' /\ held' = held
  BY <1>5, WaitStep DEF AskRefresh, Finish
<1>6. ASSUME NEW t \in Threads, AcquireLock(t)
      PROVE  IInv' /\ held' = held
  BY <1>6, AcquireStep DEF AcquireLock
<1>7. ASSUME NEW t \in Threads, Answer(t)
      PROVE  IInv' /\ held' = held
  BY <1>7, AnswerStep DEF Answer
<1>8. ASSUME NEW t \in Threads, NEW fault \in Faults, FailFetch(t, fault)
      PROVE  IInv' /\ held' = held
  BY <1>8, FailStep DEF FailFetch
<1>9. ASSUME NEW t \in Threads, InstallLoaded(t) \/ RenewHeld(t)
      PROVE  IInv' /\ held'.revision >= held.revision
  BY <1>9, InstallStep
<1>10. ASSUME NEW t \in Threads, KeepHeld(t) \/ RaiseError(t)
       PROVE  IInv' /\ held' = held
  BY <1>10, ReleaseStep DEF KeepHeld, RaiseError
<1>11. ASSUME UNCHANGED vars
       PROVE  IInv' /\ held' = held
  BY <1>11 DEF vars, IInv, TypeOK, OnlyVerifiedServed, RefreshIsCurrent, RefreshDiscipline, Active
<1>. QED
  BY <1>1, <1>2, <1>3, <1>4, <1>5, <1>6, <1>7, <1>8, <1>9, <1>10, <1>11 DEF Next, Refresh

(* The inductive invariant holds, whoever refreshes and whatever fails. *)
THEOREM Invariance == Spec => []IInv
BY InitIInv, NextIInv, PTL DEF Spec

(* The store's state is always of its type. *)
THEOREM TypeCorrect == Spec => []TypeOK
<1>1. IInv => TypeOK
  BY DEF IInv
<1>. QED  BY <1>1, Invariance, PTL

(* No document that failed a check of load_snapshot_document is ever held  *)
(* or served, whatever the other threads and the Control Plane do.         *)
THEOREM VerifiedOnly == Spec => []OnlyVerifiedServed
<1>1. IInv => OnlyVerifiedServed
  BY DEF IInv
<1>. QED  BY <1>1, Invariance, PTL

(* A successful refresh is at least as new as what was being served when   *)
(* it was asked for.                                                       *)
THEOREM RefreshCurrent == Spec => []RefreshIsCurrent
<1>1. IInv => RefreshIsCurrent
  BY DEF IInv
<1>. QED  BY <1>1, Invariance, PTL

(* The held snapshot is never replaced by an older one, nor dropped. *)
THEOREM HeldMonotone == Spec => HeldNeverRegresses
<1>1. IInv /\ [Next]_vars => [held'.revision >= held.revision]_vars
  BY NextIInv
<1>. QED  BY <1>1, Invariance, PTL DEF Spec, HeldNeverRegresses
=============================================================================
