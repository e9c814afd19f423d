--------------------------- MODULE SnapshotsProofs ---------------------------
(***************************************************************************)
(* Proofs about Snapshots, for any number of concurrent requests,          *)
(* deployments and artifacts.                                              *)
(***************************************************************************)
EXTENDS Snapshots, TLAPS

(* ORDER BY ... DESC LIMIT 1 over contiguous revisions yields the last. *)
LEMMA NewestOfInterval ==
  ASSUME NEW n \in Nat
  PROVE  Newest(1..n) = n
<1>1. CASE n = 0
  BY <1>1 DEF Newest
<1>2. CASE n # 0
  <2>1. n \in 1..n /\ \A m \in 1..n : m <= n
    BY <1>2
  <2>2. \A k \in 1..n : (\A m \in 1..n : m <= k) => k = n
    BY <2>1
  <2>3. Newest(1..n) = CHOOSE k \in 1..n : \A m \in 1..n : m <= k
    BY <2>1 DEF Newest
  <2>. QED  BY <2>1, <2>2, <2>3
<1>. QED  BY <1>1, <1>2

(* A nonempty set of naturals that has a largest element has it as Newest. *)
LEMMA NewestIsMax ==
  ASSUME NEW S \in SUBSET Nat, NEW n \in S, \A m \in S : m <= n
  PROVE  Newest(S) = n
<1>1. \A k \in S : (\A m \in S : m <= k) => k = n
  OBVIOUS
<1>2. Newest(S) = CHOOSE k \in S : \A m \in S : m <= k
  BY DEF Newest
<1>. QED  BY <1>1, <1>2

-----------------------------------------------------------------------------
(* Type correctness. *)

(* A request that has not begun is of its type. *)
LEMMA IdleType == Idle \in Request
BY DEF Idle, Request

(* Under contiguity the next revision is a positive number. *)
LEMMA LastRevisionType ==
  ASSUME NEW d \in Deployments, NEW n \in Nat, Revisions(d) = 1..n
  PROVE  LastRevision(d) = n /\ NextRevision(d) = n + 1
BY NewestOfInterval DEF LastRevision, NextRevision

(* Deactivation changes the active column and nothing else. *)
LEMMA DeactivatedRows ==
  ASSUME NEW rows \in SUBSET Snapshot, NEW previous
  PROVE  /\ Deactivated(rows, previous) \subseteq Snapshot
         /\ \A t \in Deactivated(rows, previous) : \E s \in rows :
              /\ t.revision = s.revision
              /\ t.pins = s.pins
              /\ t.active = (s.active /\ s.revision \notin previous)
         /\ \A s \in rows : \E t \in Deactivated(rows, previous) :
              /\ t.revision = s.revision
              /\ t.pins = s.pins
              /\ t.active = (s.active /\ s.revision \notin previous)
<1> DEFINE f(s) == IF s.revision \in previous THEN [s EXCEPT !.active = FALSE] ELSE s
<1>1. \A s \in rows : /\ f(s) \in Snapshot
                      /\ f(s).revision = s.revision
                      /\ f(s).pins = s.pins
                      /\ f(s).active = (s.active /\ s.revision \notin previous)
  BY DEF Snapshot
<1>2. Deactivated(rows, previous) = {f(s) : s \in rows}
  BY DEF Deactivated
<1> HIDE DEF f
<1>. QED  BY <1>1, <1>2

(* Every step keeps every variable in its type; the rows that a flush      *)
(* writes have a positive revision because of what it read before.         *)
LEMMA TypeStep == IInv /\ [Next]_vars => TypeOK'
<1> SUFFICES ASSUME TypeOK, RevisionsContiguous, StaleReadsAreTaken, [Next]_vars
             PROVE  TypeOK'
  BY DEF IInv
<1> USE SelectionsAssumption, IdleType DEF TypeOK
<1>1. ASSUME NEW a \in Artifacts, PublishVersion(a)
      PROVE  TypeOK'
  BY <1>1 DEF PublishVersion
<1>2. ASSUME NEW a \in Artifacts, DisableVersion(a)
      PROVE  TypeOK'
  BY <1>2 DEF DisableVersion
<1>3. ASSUME NEW r \in Requests, NEW d \in Deployments, CheckDeployment(r, d)
      PROVE  TypeOK'
  BY <1>3 DEF CheckDeployment, Idle, Request
<1>4. ASSUME NEW r \in Requests, NEW d \in Deployments, RefuseDeployment(r, d)
      PROVE  TypeOK'
  BY <1>4 DEF RefuseDeployment, vars
<1>5. ASSUME NEW r \in Requests, InsertDeployment(r)
      PROVE  TypeOK'
  BY <1>5 DEF InsertDeployment, Idle
<1>6. ASSUME NEW r \in Requests, NEW d \in Deployments, NEW sel \in Selections,
             BeginSnapshot(r, d, sel)
      PROVE  TypeOK'
  BY <1>6 DEF BeginSnapshot, Idle, Request
<1>7. ASSUME NEW r \in Requests, ResolveSelection(r)
      PROVE  TypeOK'
  <2>1. /\ req[r] \in Request
        /\ req[r].todo \in Seq(Artifacts)
        /\ req[r].todo # <<>>
    BY <1>7 DEF ResolveSelection, Request
  <2>2. Head(req[r].todo) \in Artifacts /\ Tail(req[r].todo) \in Seq(Artifacts)
    BY <2>1
  <2>. QED  BY <1>7, <2>1, <2>2 DEF ResolveSelection, Request
<1>8. ASSUME NEW r \in Requests, RejectSelection(r)
      PROVE  TypeOK'
  BY <1>8 DEF RejectSelection, Idle
<1>9. ASSUME NEW r \in Requests, AllocateRevision(r)
      PROVE  TypeOK'
  <2>1. NextRevision(req[r].dep) \in Nat
    BY <1>9 DEF AllocateRevision, NextRevision, RevisionsContiguous
  <2>. QED  BY <1>9, <2>1 DEF AllocateRevision, Request
<1>10. ASSUME NEW r \in Requests, LoadPrevious(r)
       PROVE  TypeOK'
  <2>1. {s.revision : s \in {t \in snapshots[req[r].dep] : t.active}} \subseteq Nat
    BY <1>10 DEF LoadPrevious, Snapshot
  <2>. QED  BY <1>10, <2>1 DEF LoadPrevious, Request
<1>11. ASSUME NEW r \in Requests, FlushSnapshot(r)
       PROVE  TypeOK'
  <2> DEFINE d == req[r].dep
             row == [revision |-> req[r].revision, pins |-> req[r].pins, active |-> TRUE]
  <2>1. row \in Snapshot
    BY <1>11 DEF FlushSnapshot, Request, Snapshot, StaleReadsAreTaken
  <2>2. Deactivated(snapshots[d], req[r].previous) \subseteq Snapshot
    BY <1>11, DeactivatedRows DEF FlushSnapshot
  <2>. QED  BY <1>11, <2>1, <2>2 DEF FlushSnapshot, Idle
<1>12. ASSUME NEW r \in Requests, ConflictSnapshot(r)
       PROVE  TypeOK'
  BY <1>12 DEF ConflictSnapshot, Idle
<1>13. ASSUME NEW r \in Requests, AbortRequest(r)
       PROVE  TypeOK'
  BY <1>13 DEF AbortRequest, Idle
<1>14. CASE UNCHANGED vars
  BY <1>14 DEF vars
<1>. QED
  BY <1>1, <1>2, <1>3, <1>4, <1>5, <1>6, <1>7, <1>8, <1>9, <1>10, <1>11, <1>12, <1>13,
     <1>14 DEF Next

-----------------------------------------------------------------------------
(* One snapshot is active, and it is the newest. *)

(* A flush that meets no conflict writes the next revision: it leaves the  *)
(* revisions contiguous and the new row the only active one.               *)
LEMMA FlushRows ==
  ASSUME IInv, NEW r \in Requests, FlushSnapshot(r),
         NEW d \in Deployments, d = req[r].dep
  PROVE  /\ req[r].revision = LastRevision(d) + 1
         /\ Revisions(d)' = 1..(LastRevision(d) + 1)
         /\ LastRevision(d)' = LastRevision(d) + 1
         /\ \A s, t \in snapshots'[d] : s.revision = t.revision => s = t
         /\ \A s \in snapshots'[d] : s.active <=> s.revision = LastRevision(d) + 1
<1> DEFINE n == LastRevision(d)
           row == [revision |-> req[r].revision, pins |-> req[r].pins, active |-> TRUE]
           old == Deactivated(snapshots[d], req[r].previous)
<1>1. /\ snapshots[d] \in SUBSET Snapshot
      /\ n \in Nat
      /\ Revisions(d) = 1..n
      /\ \A s, t \in snapshots[d] : s.revision = t.revision => s = t
  BY DEF IInv, TypeOK, FlushSnapshot, RevisionsContiguous
<1>2. req[r].revision = n + 1
  BY <1>1 DEF FlushSnapshot, IInv, StaleReadsAreTaken, RevisionTaken, NextRevision
<1>3. snapshots'[d] = old \cup {row}
  BY <1>1 DEF FlushSnapshot, IInv, TypeOK
<1>4. \A s \in snapshots[d] : s.active => s.revision \in req[r].previous
  BY DEF FlushSnapshot, IInv, StaleReadsAreTaken
<1>5. /\ old \subseteq Snapshot
      /\ \A t \in old : t.revision \in 1..n /\ ~t.active
      /\ \A k \in 1..n : \E t \in old : t.revision = k
  <2>1. \A t \in old : \E s \in snapshots[d] :
           t.revision = s.revision /\ t.active = (s.active /\ s.revision \notin req[r].previous)
    BY <1>1, DeactivatedRows
  <2>2. \A s \in snapshots[d] : \E t \in old : t.revision = s.revision
    BY <1>1, DeactivatedRows
  <2>3. /\ \A s \in snapshots[d] : s.revision \in 1..n
        /\ \A k \in 1..n : \E s \in snapshots[d] : s.revision = k
    BY <1>1 DEF Revisions
  <2>4. old \subseteq Snapshot
    BY <1>1, DeactivatedRows
  <2> HIDE DEF old, n
  <2>5. \A t \in old : t.revision \in 1..n
    BY <2>1, <2>3
  <2>6. \A t \in old : ~t.active
    BY <1>4, <2>1, Zenon
  <2>. QED  BY <2>2, <2>3, <2>4, <2>5, <2>6
<1>6. \A s, t \in old : s.revision = t.revision => s = t
  <2> DEFINE f(s) == IF s.revision \in req[r].previous THEN [s EXCEPT !.active = FALSE] ELSE s
  <2>1. \A s \in snapshots[d] : f(s).revision = s.revision
    BY <1>1 DEF Snapshot
  <2>2. old = {f(s) : s \in snapshots[d]}
    BY DEF Deactivated
  <2> HIDE DEF f, old
  <2>. QED  BY <1>1, <2>1, <2>2
<1>7. row.revision = n + 1 /\ row.active
  BY <1>2
<1>8. {s.revision : s \in old \cup {row}} = 1..(n + 1)
  <2> HIDE DEF old, row, n
  <2>1. \A s \in old \cup {row} : s.revision \in 1..(n + 1)
    BY <1>1, <1>5, <1>7
  <2>2. \A k \in 1..(n + 1) : \E s \in old \cup {row} : s.revision = k
    BY <1>1, <1>5, <1>7
  <2>. QED  BY <2>1, <2>2, Zenon
<1>9. Revisions(d)' = 1..(n + 1)
  BY <1>3, <1>8 DEF Revisions
<1>10. LastRevision(d)' = n + 1
  BY <1>1, <1>9, NewestOfInterval DEF LastRevision
<1>11. \A s \in old : s.revision # row.revision
  BY <1>1, <1>5, <1>7
<1>12. \A s, t \in old \cup {row} : s.revision = t.revision => s = t
  BY <1>6, <1>11
<1>13. \A s \in old \cup {row} : s.active <=> s.revision = n + 1
  BY <1>1, <1>5, <1>7
<1>. QED  BY <1>2, <1>3, <1>9, <1>10, <1>12, <1>13

(* A step that leaves the snapshot table alone leaves what is derived from *)
(* it alone.                                                               *)
LEMMA RowsUnchanged ==
  ASSUME UNCHANGED snapshots, NEW d
  PROVE  /\ Revisions(d)' = Revisions(d)
         /\ LastRevision(d)' = LastRevision(d)
         /\ NextRevision(d)' = NextRevision(d)
         /\ ActiveRevision(d)' = ActiveRevision(d)
<1>1. Revisions(d)' = Revisions(d)
  BY DEF Revisions
<1>2. LastRevision(d)' = LastRevision(d)
  BY <1>1 DEF LastRevision
<1>. QED  BY <1>1, <1>2 DEF NextRevision, ActiveRevision

(* Steps outside the snapshot table: a request that newly reaches "load"   *)
(* or "flush" got there by reading the table as it is.                     *)
LEMMA QuietStep ==
  ASSUME IInv, UNCHANGED snapshots,
         \A r \in Requests :
           \/ req'[r] = req[r]
           \/ req'[r].pc \notin {"load", "flush"}
           \/ AllocateRevision(r)
           \/ LoadPrevious(r)
  PROVE  RevisionsContiguous' /\ OneActive' /\ StaleReadsAreTaken'
<1>1. RevisionsContiguous'
  BY RowsUnchanged DEF IInv, RevisionsContiguous
<1>2. OneActive'
  BY DEF IInv, OneActive
<1>3. ASSUME NEW r \in Requests
      PROVE  /\ req'[r].pc \in {"load", "flush"} =>
                  req'[r].revision \in 1..NextRevision(req'[r].dep)
             /\ req'[r].pc = "flush" =>
                  \/ RevisionTaken(req'[r].dep, req'[r].revision)
                  \/ \A s \in snapshots[req'[r].dep] :
                       s.active => s.revision \in req'[r].previous
  <2>1. CASE req'[r] = req[r] \/ req'[r].pc \notin {"load", "flush"}
    BY <2>1 DEF IInv, StaleReadsAreTaken
  <2>2. CASE AllocateRevision(r)
    <3>1. /\ req'[r].pc = "load"
          /\ req'[r].dep = req[r].dep
          /\ req'[r].revision = NextRevision(req[r].dep)
          /\ req[r].dep \in Deployments
      BY <2>2 DEF AllocateRevision, IInv, TypeOK, Request
    <3>2. NextRevision(req[r].dep) \in Nat \ {0}
      BY <3>1 DEF IInv, RevisionsContiguous, NextRevision
    <3>. QED  BY <3>1, <3>2
  <2>3. CASE LoadPrevious(r)
    <3> DEFINE act == {s.revision : s \in {t \in snapshots[req[r].dep] : t.active}}
    <3>0. /\ req[r].pc = "load"
          /\ req' = [req EXCEPT ![r].pc = "flush", ![r].previous = act]
      BY <2>3 DEF LoadPrevious
    <3> HIDE DEF act
    <3>1. /\ req'[r].dep = req[r].dep
          /\ req'[r].revision = req[r].revision
          /\ req'[r].previous = act
          /\ req[r].pc = "load"
      BY <3>0 DEF IInv, TypeOK, Request
    <3>2. req[r].revision \in 1..NextRevision(req[r].dep)
      BY <3>1 DEF IInv, StaleReadsAreTaken
    <3>3. \A s \in snapshots[req[r].dep] : s.active => s.revision \in req'[r].previous
      BY <3>1, Zenon DEF act
    <3>. QED  BY <3>1, <3>2, <3>3
  <2>. QED  BY <2>1, <2>2, <2>3
<1>4. StaleReadsAreTaken'
  <2>1. \A d : NextRevision(d)' = NextRevision(d) /\ Revisions(d)' = Revisions(d)
    BY RowsUnchanged
  <2>. QED  BY <1>3, <2>1 DEF StaleReadsAreTaken, RevisionTaken
<1>. QED  BY <1>1, <1>2, <1>4

(* A flush keeps the three invariants: for the request's own deployment by *)
(* FlushRows, for the others because their rows do not change, and for a   *)
(* concurrent request on the same deployment because the revision that it  *)
(* read as free is now taken.                                              *)
LEMMA FlushStep ==
  ASSUME IInv, NEW r \in Requests, FlushSnapshot(r)
  PROVE  RevisionsContiguous' /\ OneActive' /\ StaleReadsAreTaken'
<1>1. PICK d \in Deployments : d = req[r].dep
  BY DEF FlushSnapshot, IInv, TypeOK
<1>2. /\ req[r].revision = LastRevision(d) + 1
      /\ Revisions(d)' = 1..(LastRevision(d) + 1)
      /\ LastRevision(d)' = LastRevision(d) + 1
      /\ \A s, t \in snapshots'[d] : s.revision = t.revision => s = t
      /\ \A s \in snapshots'[d] : s.active <=> s.revision = LastRevision(d) + 1
  BY <1>1, FlushRows
<1>3. LastRevision(d) \in Nat /\ Revisions(d) = 1..LastRevision(d)
  BY DEF IInv, RevisionsContiguous
<1>4. \A e \in Deployments : e # d => snapshots'[e] = snapshots[e]
  BY <1>1 DEF FlushSnapshot, IInv, TypeOK
<1>5. \A e \in Deployments : e # d => Revisions(e)' = Revisions(e)
  BY <1>4 DEF Revisions
<1>6. \A e \in Deployments : e # d => LastRevision(e)' = LastRevision(e)
  BY <1>5 DEF LastRevision
<1>7. RevisionsContiguous'
  BY <1>2, <1>3, <1>4, <1>5, <1>6 DEF IInv, RevisionsContiguous
<1>8. OneActive'
  <2>1. ASSUME NEW s \in snapshots'[d]
        PROVE  s.active <=> \A t \in snapshots'[d] : t.revision <= s.revision
    <3>1. \A t \in snapshots'[d] : t.revision \in 1..(LastRevision(d) + 1)
      BY <1>2 DEF Revisions
    <3>2. \E t \in snapshots'[d] : t.revision = LastRevision(d) + 1
      <4>1. LastRevision(d) + 1 \in Revisions(d)'
        BY <1>2, <1>3
      <4>. QED  BY <4>1 DEF Revisions
    <3>3. (\A t \in snapshots'[d] : t.revision <= s.revision) <=> s.revision = LastRevision(d) + 1
      BY <1>3, <2>1, <3>1, <3>2
    <3>. QED  BY <1>2, <2>1, <3>3
  <2>2. \A e \in Deployments : e # d =>
          \A s \in snapshots'[e] : s.active <=> \A t \in snapshots'[e] : t.revision <= s.revision
    BY <1>4 DEF IInv, OneActive
  <2>. QED  BY <2>1, <2>2 DEF OneActive
<1>9. StaleReadsAreTaken'
  <2> SUFFICES ASSUME NEW q \in Requests
               PROVE  (/\ req[q].pc \in {"load", "flush"} =>
                            req[q].revision \in 1..NextRevision(req[q].dep)
                       /\ req[q].pc = "flush" =>
                            \/ RevisionTaken(req[q].dep, req[q].revision)
                            \/ \A s \in snapshots[req[q].dep] :
                                 s.active => s.revision \in req[q].previous)'
    BY DEF StaleReadsAreTaken
  <2>1. CASE q = r
    BY <2>1 DEF FlushSnapshot, IInv, TypeOK, Idle
  <2>2. CASE q # r /\ req[q].pc \notin {"load", "flush"}
    BY <2>2 DEF FlushSnapshot, IInv, TypeOK
  <2>3. CASE q # r /\ req[q].pc \in {"load", "flush"}
    <3>1. req'[q] = req[q]
      BY <2>3 DEF FlushSnapshot, IInv, TypeOK
    <3>2. PICK e \in Deployments : e = req[q].dep
      BY <2>3 DEF IInv, TypeOK
    <3>3. /\ req[q].revision \in 1..NextRevision(e)
          /\ req[q].pc = "flush" =>
               \/ RevisionTaken(e, req[q].revision)
               \/ \A s \in snapshots[e] : s.active => s.revision \in req[q].previous
      BY <2>3, <3>2 DEF IInv, StaleReadsAreTaken
    <3>4. CASE e = d
      <4>1. req[q].revision \in Revisions(d)' /\ req[q].revision \in 1..NextRevision(d)'
        BY <1>2, <1>3, <3>3, <3>4 DEF NextRevision
      <4>. QED  BY <3>1, <3>2, <3>4, <4>1 DEF RevisionTaken, NextRevision, LastRevision, Revisions
    <3>5. CASE e # d
      <4>1. /\ snapshots'[e] = snapshots[e]
            /\ Revisions(e)' = Revisions(e)
            /\ NextRevision(e)' = NextRevision(e)
        BY <1>4, <1>5, <1>6, <3>5 DEF NextRevision
      <4>. QED  BY <3>1, <3>2, <3>3, <4>1 DEF RevisionTaken, NextRevision, LastRevision, Revisions
    <3>. QED  BY <3>4, <3>5
  <2>. QED  BY <2>1, <2>2, <2>3
<1>. QED  BY <1>7, <1>8, <1>9

(* Empty tables satisfy the inductive invariant. *)
LEMMA InitIInv == Init => IInv
<1> SUFFICES ASSUME Init PROVE IInv
  OBVIOUS
<1>1. TypeOK
  BY IdleType DEF Init, TypeOK, Idle
<1>2. \A d \in Deployments : Revisions(d) = {}
  BY DEF Init, Revisions
<1>3. \A d \in Deployments : LastRevision(d) = 0
  BY <1>2 DEF LastRevision, Newest
<1>4. 1..0 = {} /\ \A d \in Deployments : snapshots[d] = {}
  BY DEF Init
<1>5. RevisionsContiguous
  <2>1. \A d \in Deployments : LastRevision(d) \in Nat
    BY <1>3
  <2>2. \A d \in Deployments : 1..LastRevision(d) = {}
    BY <1>3, <1>4, Zenon
  <2>. QED  BY <1>2, <1>4, <2>1, <2>2 DEF RevisionsContiguous
<1>. QED  BY <1>1, <1>5 DEF Init, IInv, OneActive, StaleReadsAreTaken, Idle

(* Every step of every request keeps the inductive invariant. *)
LEMMA NextIInv == IInv /\ [Next]_vars => IInv'
<1> SUFFICES ASSUME IInv, [Next]_vars
             PROVE  IInv'
  OBVIOUS
<1>1. TypeOK'
  BY TypeStep
<1>2. ASSUME NEW r \in Requests, FlushSnapshot(r)
      PROVE  RevisionsContiguous' /\ OneActive' /\ StaleReadsAreTaken'
  BY <1>2, FlushStep
<1>3. ASSUME UNCHANGED snapshots,
             \/ UNCHANGED req
             \/ \E r \in Requests :
                  /\ \A q \in Requests : q # r => req'[q] = req[q]
                  /\ req'[r].pc \notin {"load", "flush"} \/ AllocateRevision(r) \/ LoadPrevious(r)
      PROVE  RevisionsContiguous' /\ OneActive' /\ StaleReadsAreTaken'
  BY <1>3, QuietStep
<1>4. ASSUME UNCHANGED vars
      PROVE  RevisionsContiguous' /\ OneActive' /\ StaleReadsAreTaken'
  BY <1>3, <1>4 DEF vars
<1>5. ASSUME NEW a \in Artifacts, PublishVersion(a) \/ DisableVersion(a)
      PROVE  RevisionsContiguous' /\ OneActive' /\ StaleReadsAreTaken'
  BY <1>3, <1>5 DEF PublishVersion, DisableVersion
<1>6. ASSUME NEW r \in Requests, NEW d \in Deployments,
             CheckDeployment(r, d) \/ RefuseDeployment(r, d)
      PROVE  RevisionsContiguous' /\ OneActive' /\ StaleReadsAreTaken'
  BY <1>3, <1>6 DEF CheckDeployment, RefuseDeployment, Idle, IInv, TypeOK, vars
<1>7. ASSUME NEW r \in Requests, NEW d \in Deployments, NEW sel \in Selections,
             BeginSnapshot(r, d, sel)
      PROVE  RevisionsContiguous' /\ OneActive' /\ StaleReadsAreTaken'
  BY <1>3, <1>7 DEF BeginSnapshot, Idle, IInv, TypeOK
<1>8. ASSUME NEW r \in Requests, ResolveSelection(r)
      PROVE  RevisionsContiguous' /\ OneActive' /\ StaleReadsAreTaken'
  BY <1>3, <1>8 DEF ResolveSelection, IInv, TypeOK, Request
<1>9. ASSUME NEW r \in Requests, AllocateRevision(r) \/ LoadPrevious(r)
      PROVE  RevisionsContiguous' /\ OneActive' /\ StaleReadsAreTaken'
  BY <1>3, <1>9 DEF AllocateRevision, LoadPrevious, IInv, TypeOK
<1>10. ASSUME NEW r \in Requests,
              \/ InsertDeployment(r) \/ RejectSelection(r)
              \/ ConflictSnapshot(r) \/ AbortRequest(r)
       PROVE  RevisionsContiguous' /\ OneActive' /\ StaleReadsAreTaken'
  BY <1>3, <1>10 DEF InsertDeployment, RejectSelection, ConflictSnapshot, AbortRequest, Idle,
                     IInv, TypeOK
<1>11. RevisionsContiguous' /\ OneActive' /\ StaleReadsAreTaken'
  BY <1>2, <1>4, <1>5, <1>6, <1>7, <1>8, <1>9, <1>10 DEF Next
<1>. QED  BY <1>1, <1>11 DEF IInv

(* The inductive invariant holds in every reachable state. *)
THEOREM Invariance == Spec => []IInv
BY InitIInv, NextIInv, PTL DEF Spec

(* Type correctness of the deployment tables and of every request. *)
THEOREM TypeCorrect == Spec => []TypeOK
<1>1. IInv => TypeOK
  BY DEF IInv
<1>. QED  BY <1>1, Invariance, PTL

(* Revisions are 1..n with one row each, whatever requests race. *)
THEOREM RevisionsNeverReused == Spec => []RevisionsContiguous
<1>1. IInv => RevisionsContiguous
  BY DEF IInv
<1>. QED  BY <1>1, Invariance, PTL

(* Exactly the newest snapshot of a deployment is active. *)
THEOREM ExactlyOneActive == Spec => []OneActive
<1>1. IInv => OneActive
  BY DEF IInv
<1>. QED  BY <1>1, Invariance, PTL

-----------------------------------------------------------------------------
(* What no step may do to the snapshots that exist. *)

(* Only a flush writes the snapshot table. *)
LEMMA OnlyFlushWrites ==
  ASSUME [Next]_vars
  PROVE  UNCHANGED snapshots \/ \E r \in Requests : FlushSnapshot(r)
BY DEF Next, vars, PublishVersion, DisableVersion, CheckDeployment, RefuseDeployment,
       InsertDeployment, BeginSnapshot, ResolveSelection, RejectSelection, AllocateRevision,
       LoadPrevious, ConflictSnapshot, AbortRequest

(* The internal API's query finds the newest row: it is the active one. *)
LEMMA ActiveIsLast == IInv => \A d \in Deployments : ActiveRevision(d) = LastRevision(d)
<1> SUFFICES ASSUME IInv, NEW d \in Deployments
             PROVE  ActiveRevision(d) = LastRevision(d)
  OBVIOUS
<1> DEFINE n == LastRevision(d)
           act == {s.revision : s \in {t \in snapshots[d] : t.active}}
<1>1. n \in Nat /\ Revisions(d) = 1..n
  BY DEF IInv, RevisionsContiguous
<1>2. \A s \in snapshots[d] : s.revision \in 1..n
  BY <1>1 DEF Revisions
<1>3. CASE n = 0
  <2>1. snapshots[d] = {}
    BY <1>2, <1>3
  <2>2. act = {}
    BY <2>1
  <2>. QED  BY <1>3, <2>2 DEF ActiveRevision, Newest
<1>4. CASE n # 0
  <2>1. PICK top \in snapshots[d] : top.revision = n
    <3>1. n \in Revisions(d)
      BY <1>1, <1>4
    <3>. QED  BY <3>1 DEF Revisions
  <2>2. top.active
    BY <1>1, <1>2, <2>1 DEF IInv, OneActive
  <2>3. n \in act
    BY <2>1, <2>2
  <2>4. act \subseteq 1..n
    BY <1>2
  <2>5. act \in SUBSET Nat /\ \A m \in act : m <= n
    BY <1>1, <2>4
  <2> HIDE DEF act, n
  <2>6. Newest(act) = n
    BY <2>3, <2>5, NewestIsMax
  <2>. QED  BY <2>6 DEF ActiveRevision, act, n
<1>. QED  BY <1>3, <1>4

(* A snapshot row is never changed or removed, except that a newer one     *)
(* deactivates it.                                                         *)
THEOREM RowsImmutable == Spec => SnapshotsImmutable
<1> DEFINE Kept == \A d \in Deployments : \A s \in snapshots[d] :
                     \E t \in snapshots'[d] :
                       /\ t.revision = s.revision
                       /\ t.pins = s.pins
                       /\ t.active => s.active
<1>1. IInv /\ [Next]_vars => Kept
  <2> SUFFICES ASSUME IInv, [Next]_vars, NEW d \in Deployments, NEW s \in snapshots[d]
               PROVE  \E t \in snapshots'[d] :
                        /\ t.revision = s.revision
                        /\ t.pins = s.pins
                        /\ t.active => s.active
    OBVIOUS
  <2>1. CASE snapshots'[d] = snapshots[d]
    BY <2>1
  <2>2. ASSUME NEW r \in Requests, FlushSnapshot(r), d = req[r].dep
        PROVE  \E t \in snapshots'[d] :
                 /\ t.revision = s.revision
                 /\ t.pins = s.pins
                 /\ t.active => s.active
    <3>1. snapshots[d] \in SUBSET Snapshot
      BY DEF IInv, TypeOK
    <3>2. PICK t \in Deactivated(snapshots[d], req[r].previous) :
            /\ t.revision = s.revision
            /\ t.pins = s.pins
            /\ t.active = (s.active /\ s.revision \notin req[r].previous)
      BY <3>1, DeactivatedRows
    <3>3. t \in snapshots'[d]
      BY <2>2, <3>2 DEF FlushSnapshot, IInv, TypeOK
    <3>4. t.active => s.active
      BY <3>2, Zenon
    <3>. QED  BY <3>2, <3>3, <3>4
  <2>3. ASSUME NEW r \in Requests, FlushSnapshot(r), d # req[r].dep
        PROVE  snapshots'[d] = snapshots[d]
    BY <2>3 DEF FlushSnapshot, IInv, TypeOK
  <2>. QED  BY <2>1, <2>2, <2>3, OnlyFlushWrites
<1>. QED  BY <1>1, Invariance, PTL DEF Spec, SnapshotsImmutable

(* The revision that the internal API serves never decreases. *)
THEOREM ServedMonotone == Spec => ServedNeverRegresses
<1>0. IInv' => (\A d \in Deployments : ActiveRevision(d) = LastRevision(d))'
  BY ActiveIsLast, PTL
<1>1. IInv /\ IInv' /\ [Next]_vars =>
        \A d \in Deployments : ActiveRevision(d)' >= ActiveRevision(d)
  <2> SUFFICES ASSUME IInv, IInv', [Next]_vars, NEW d \in Deployments
               PROVE  ActiveRevision(d)' >= ActiveRevision(d)
    OBVIOUS
  <2>1. ActiveRevision(d) = LastRevision(d) /\ LastRevision(d) \in Nat
    BY ActiveIsLast DEF IInv, RevisionsContiguous
  <2>2. ActiveRevision(d)' = LastRevision(d)'
    BY <1>0
  <2>3. CASE snapshots'[d] = snapshots[d]
    BY <2>1, <2>3 DEF ActiveRevision
  <2>4. ASSUME NEW r \in Requests, FlushSnapshot(r), d = req[r].dep
        PROVE  ActiveRevision(d)' >= ActiveRevision(d)
    BY <2>1, <2>2, <2>4, FlushRows
  <2>5. ASSUME NEW r \in Requests, FlushSnapshot(r), d # req[r].dep
        PROVE  snapshots'[d] = snapshots[d]
    BY <2>5 DEF FlushSnapshot, IInv, TypeOK
  <2>. QED  BY <2>3, <2>4, <2>5, OnlyFlushWrites
<1>. QED  BY <1>1, Invariance, PTL DEF Spec, ServedNeverRegresses

-----------------------------------------------------------------------------
(* What a snapshot pins. *)

(* Resolution picks one artifact at a time between the commits of others:  *)
(* what was picked stays published, one per connector, and outside what    *)
(* was disabled when the request arrived, as disablement is for good.      *)
LEMMA RequestPinsStep == IInv /\ RequestPins /\ [Next]_vars => RequestPins'
<1> SUFFICES ASSUME TypeOK, RequestPins, [Next]_vars
             PROVE  RequestPins'
  BY DEF IInv
<1> USE DEF TypeOK, RequestPins
<1>1. ASSUME NEW a \in Artifacts, PublishVersion(a) \/ DisableVersion(a)
      PROVE  RequestPins'
  BY <1>1 DEF PublishVersion, DisableVersion
<1>2. ASSUME NEW r \in Requests, NEW d \in Deployments,
             CheckDeployment(r, d)
      PROVE  RequestPins'
  BY <1>2 DEF CheckDeployment, Idle
<1>3. ASSUME NEW r \in Requests, NEW d \in Deployments, NEW sel \in Selections,
             BeginSnapshot(r, d, sel)
      PROVE  RequestPins'
  BY <1>3, SelectionsAssumption DEF BeginSnapshot, Idle
<1>4. ASSUME NEW r \in Requests, ResolveSelection(r)
      PROVE  RequestPins'
  <2> DEFINE a == Head(req[r].todo)
  <2>1. /\ req'[r].pc = "resolve"
        /\ req'[r].pins = req[r].pins \cup {a}
        /\ req'[r].disabledAtStart = req[r].disabledAtStart
        /\ \A q \in Requests : q # r => req'[q] = req[q]
        /\ UNCHANGED <<published, disabled>>
    BY <1>4 DEF ResolveSelection, Request
  <2>2. /\ a \in published /\ a \notin disabled
        /\ \A p \in req[r].pins : p.connector # a.connector
    BY <1>4 DEF ResolveSelection, Selectable
  <2>3. /\ req[r].disabledAtStart \subseteq disabled
        /\ req[r].pins \subseteq published
        /\ req[r].pins \cap req[r].disabledAtStart = {}
        /\ \A p, q \in req[r].pins : p.connector = q.connector => p = q
    BY <1>4 DEF ResolveSelection
  <2> HIDE DEF a
  <2>. QED  BY <2>1, <2>2, <2>3
<1>5. ASSUME NEW r \in Requests, AllocateRevision(r)
      PROVE  RequestPins'
  BY <1>5 DEF AllocateRevision, Request
<1>6. ASSUME NEW r \in Requests, LoadPrevious(r)
      PROVE  RequestPins'
  BY <1>6 DEF LoadPrevious, Request
<1>7. ASSUME NEW r \in Requests,
             \/ InsertDeployment(r) \/ RejectSelection(r) \/ FlushSnapshot(r)
             \/ ConflictSnapshot(r) \/ AbortRequest(r)
      PROVE  RequestPins'
  BY <1>7 DEF InsertDeployment, RejectSelection, FlushSnapshot, ConflictSnapshot, AbortRequest,
              Idle
<1>8. CASE UNCHANGED vars
  BY <1>8 DEF vars
<1>. QED
  BY <1>1, <1>2, <1>3, <1>4, <1>5, <1>6, <1>7, <1>8 DEF Next, RefuseDeployment

(* The rows after a flush: those of before, deactivated or not, and one    *)
(* new row that pins what the request resolved.                            *)
LEMMA FlushWrites ==
  ASSUME IInv, NEW r \in Requests, FlushSnapshot(r), NEW d \in Deployments
  PROVE  \A t \in snapshots'[d] :
           \/ \E s \in snapshots[d] : t.revision = s.revision /\ t.pins = s.pins
           \/ d = req[r].dep /\ t.revision = req[r].revision /\ t.pins = req[r].pins
<1>1. snapshots[d] \in SUBSET Snapshot
  BY DEF IInv, TypeOK
<1>2. CASE d = req[r].dep
  <2> DEFINE row == [revision |-> req[r].revision, pins |-> req[r].pins, active |-> TRUE]
             old == Deactivated(snapshots[d], req[r].previous)
  <2>1. snapshots'[d] = old \cup {row}
    BY <1>2 DEF FlushSnapshot, IInv, TypeOK
  <2>2. \A t \in old : \E s \in snapshots[d] : t.revision = s.revision /\ t.pins = s.pins
    BY <1>1, DeactivatedRows
  <2>3. row.revision = req[r].revision /\ row.pins = req[r].pins
    OBVIOUS
  <2> HIDE DEF old, row
  <2>. QED  BY <1>2, <2>1, <2>2, <2>3
<1>3. CASE d # req[r].dep
  BY <1>3 DEF FlushSnapshot, IInv, TypeOK
<1>. QED  BY <1>2, <1>3

(* Published versions are never withdrawn. *)
LEMMA PublishedGrows ==
  ASSUME [Next]_vars
  PROVE  published \subseteq published'
BY DEF Next, vars, PublishVersion, DisableVersion, CheckDeployment, RefuseDeployment,
       InsertDeployment, BeginSnapshot, ResolveSelection, RejectSelection, AllocateRevision,
       LoadPrevious, FlushSnapshot, ConflictSnapshot, AbortRequest

(* So the rows that exist stay well formed, and a new one is. *)
LEMMA PinsWellFormedStep ==
  IInv /\ RequestPins /\ PinsWellFormed /\ [Next]_vars => PinsWellFormed'
<1> SUFFICES ASSUME IInv, RequestPins, PinsWellFormed, [Next]_vars,
                    NEW d \in Deployments, NEW t \in snapshots'[d]
             PROVE  /\ t.pins # {}
                    /\ t.pins \subseteq published'
                    /\ \A p, q \in t.pins : p.connector = q.connector => p = q
  BY DEF PinsWellFormed
<1>1. ASSUME NEW s \in snapshots[d], t.pins = s.pins
      PROVE  /\ t.pins # {}
             /\ t.pins \subseteq published'
             /\ \A p, q \in t.pins : p.connector = q.connector => p = q
  BY <1>1, PublishedGrows DEF PinsWellFormed
<1>2. CASE UNCHANGED snapshots
  BY <1>1, <1>2
<1>3. ASSUME NEW r \in Requests, FlushSnapshot(r), t.pins = req[r].pins
      PROVE  /\ t.pins # {}
             /\ t.pins \subseteq published'
             /\ \A p, q \in t.pins : p.connector = q.connector => p = q
  BY <1>3, PublishedGrows DEF FlushSnapshot, RequestPins
<1>. QED  BY <1>1, <1>2, <1>3, OnlyFlushWrites, FlushWrites

(* Every snapshot pins at least one version, one per connector and only    *)
(* published ones, and a new snapshot none whose disablement had been      *)
(* acknowledged before its creation began.                                 *)
THEOREM PinsAreAdmissible == Spec => PinsAdmissible
<1> DEFINE Fresh == \A d \in Deployments : \A s \in snapshots'[d] :
                      s.revision \notin Revisions(d) =>
                        \E r \in Requests :
                          /\ req[r].dep = d
                          /\ req[r].revision = s.revision
                          /\ req[r].pins = s.pins
                          /\ s.pins \cap req[r].disabledAtStart = {}
<1>1. Init => RequestPins /\ PinsWellFormed
  BY DEF Init, Idle, RequestPins, PinsWellFormed
<1>2. Spec => [](RequestPins /\ PinsWellFormed)
  BY <1>1, Invariance, RequestPinsStep, PinsWellFormedStep, PTL DEF Spec
<1>3. IInv /\ RequestPins /\ [Next]_vars => Fresh
  <2> SUFFICES ASSUME IInv, RequestPins, [Next]_vars,
                      NEW d \in Deployments, NEW s \in snapshots'[d],
                      s.revision \notin Revisions(d)
               PROVE  \E r \in Requests :
                        /\ req[r].dep = d
                        /\ req[r].revision = s.revision
                        /\ req[r].pins = s.pins
                        /\ s.pins \cap req[r].disabledAtStart = {}
    OBVIOUS
  <2>1. \A t \in snapshots[d] : t.revision # s.revision
    BY DEF Revisions
  <2>2. PICK r \in Requests : FlushSnapshot(r)
    BY <2>1, OnlyFlushWrites
  <2>3. d = req[r].dep /\ s.revision = req[r].revision /\ s.pins = req[r].pins
    BY <2>1, <2>2, FlushWrites
  <2>4. req[r].pins \cap req[r].disabledAtStart = {}
    BY <2>2 DEF FlushSnapshot, RequestPins
  <2>. QED  BY <2>3, <2>4
<1>. QED
  BY <1>2, <1>3, Invariance, PinsWellFormedStep, PTL DEF Spec, PinsAdmissible

-----------------------------------------------------------------------------
(* The refinement of SnapshotLog. *)

(* The entry of revision i is what the one row with that revision pins. *)
EntryOf(d, i) == (CHOOSE s \in snapshots[d] : s.revision = i).pins

(* The choice in the refinement mapping is no choice. *)
LEMMA EntryIsRow ==
  ASSUME NEW d, NEW s \in snapshots[d],
         \A t \in snapshots[d] : t.revision = s.revision => t = s
  PROVE  EntryOf(d, s.revision) = s.pins
BY DEF EntryOf

(* A flush appends the request's pins to the log of its deployment, and    *)
(* leaves the entries that are there as they were.                         *)
LEMMA FlushAppends ==
  ASSUME IInv, NEW r \in Requests, FlushSnapshot(r),
         NEW d \in Deployments, d = req[r].dep
  PROVE  /\ \A i : i = LastRevision(d) + 1 => EntryOf(d, i)' = req[r].pins
         /\ \A i \in 1..LastRevision(d) : EntryOf(d, i)' = EntryOf(d, i)
<1> DEFINE n == LastRevision(d)
           row == [revision |-> req[r].revision, pins |-> req[r].pins, active |-> TRUE]
           old == Deactivated(snapshots[d], req[r].previous)
<1>1. /\ snapshots[d] \in SUBSET Snapshot
      /\ n \in Nat
      /\ Revisions(d) = 1..n
      /\ \A s, t \in snapshots[d] : s.revision = t.revision => s = t
  BY DEF IInv, TypeOK, RevisionsContiguous
<1>2. /\ req[r].revision = n + 1
      /\ \A s, t \in snapshots'[d] : s.revision = t.revision => s = t
  BY FlushRows
<1>3. snapshots'[d] = old \cup {row}
  BY DEF FlushSnapshot, IInv, TypeOK
<1>4. ASSUME NEW t \in snapshots'[d]
      PROVE  EntryOf(d, t.revision)' = t.pins
  BY <1>2, <1>4 DEF EntryOf
<1>5. ASSUME NEW i, i = n + 1
      PROVE  EntryOf(d, i)' = req[r].pins
  <2>1. row \in snapshots'[d] /\ row.revision = i /\ row.pins = req[r].pins
    BY <1>2, <1>3, <1>5
  <2>2. PICK t \in snapshots'[d] : t.revision = i /\ t.pins = req[r].pins
    BY <2>1, Zenon
  <2>. QED  BY <1>4, <2>2
<1>6. ASSUME NEW i \in 1..n
      PROVE  EntryOf(d, i)' = EntryOf(d, i)
  <2>1. PICK s \in snapshots[d] : s.revision = i
    BY <1>1 DEF Revisions
  <2>2. PICK t \in old : t.revision = s.revision /\ t.pins = s.pins
    BY <1>1, DeactivatedRows
  <2>3. EntryOf(d, i)' = t.pins
    BY <1>3, <1>4, <2>1, <2>2
  <2>4. EntryOf(d, i) = s.pins
    BY <1>1, <2>1, EntryIsRow
  <2>. QED  BY <2>2, <2>3, <2>4
<1>. QED  BY <1>5, <1>6

(* The log that readers see of one deployment. *)
LogOf(d) == [i \in 1..LastRevision(d) |-> EntryOf(d, i)]

(* The variables of the abstract log, under the refinement mapping. *)
LogMap == [d \in Deployments |-> LogOf(d)]
ServedMap == [d \in Deployments |-> ActiveRevision(d)]

(* A flush is one Write of the abstract log: an entry appended and served. *)
LEMMA FlushIsWrite ==
  ASSUME IInv, IInv', NEW r \in Requests, FlushSnapshot(r)
  PROVE  \E d \in Deployments, content \in SUBSET Artifacts :
           /\ LogMap' = [LogMap EXCEPT ![d] = Append(@, content)]
           /\ ServedMap' = [ServedMap EXCEPT ![d] = Len(LogMap[d]) + 1]
<1>0. IInv' => (\A d \in Deployments : ActiveRevision(d) = LastRevision(d))'
  BY ActiveIsLast, PTL
<1>1. PICK d \in Deployments : d = req[r].dep
  BY DEF FlushSnapshot, IInv, TypeOK
<1>2. req[r].pins \in SUBSET Artifacts
  BY DEF IInv, TypeOK, Request
<1>3. LastRevision(d) \in Nat /\ LastRevision(d)' = LastRevision(d) + 1
  BY <1>1, FlushRows DEF IInv, RevisionsContiguous
<1>4. \A e \in Deployments : e # d => snapshots'[e] = snapshots[e]
  BY <1>1 DEF FlushSnapshot, IInv, TypeOK
<1>5. \A e \in Deployments : e # d =>
        LastRevision(e)' = LastRevision(e) /\ ActiveRevision(e)' = ActiveRevision(e)
  BY <1>4 DEF LastRevision, ActiveRevision, Revisions
<1>6. \A e \in Deployments : e # d => LogOf(e)' = LogOf(e)
  <2>1. \A e \in Deployments : e # d => \A i : EntryOf(e, i)' = EntryOf(e, i)
    BY <1>4 DEF EntryOf
  <2>. QED  BY <1>5, <2>1 DEF LogOf
<1>7. LogOf(d)' = Append(LogOf(d), req[r].pins) /\ Len(LogOf(d)) = LastRevision(d)
  <2> DEFINE n == LastRevision(d)
             old == [i \in 1..n |-> EntryOf(d, i)]
             new == [i \in 1..(n + 1) |-> EntryOf(d, i)']
  <2>1. LogOf(d) = old /\ LogOf(d)' = new
    BY <1>3 DEF LogOf
  <2>2. /\ \A i : i = n + 1 => EntryOf(d, i)' = req[r].pins
        /\ \A i \in 1..n : EntryOf(d, i)' = EntryOf(d, i)
    BY <1>1, FlushAppends
  <2> HIDE DEF n
  <2>3. n \in Nat
    BY <1>3 DEF n
  <2>4. Len(old) = n
    BY <2>3
  <2>5. new = Append(old, req[r].pins)
    BY <2>2, <2>3, <2>4
  <2>. QED  BY <2>1, <2>4, <2>5 DEF n
<1>8. ActiveRevision(d)' = LastRevision(d) + 1
  BY <1>0, <1>3
<1>9. LogMap' = [LogMap EXCEPT ![d] = Append(@, req[r].pins)]
  BY <1>6, <1>7 DEF LogMap
<1>10. ServedMap' = [ServedMap EXCEPT ![d] = Len(LogMap[d]) + 1]
  BY <1>5, <1>7, <1>8 DEF ServedMap, LogMap
<1>. QED  BY <1>2, <1>9, <1>10

(* Interleaved creations implement the append-only log that a deployment's *)
(* readers are promised: every step of the Control Plane appends one entry *)
(* and serves it, or changes nothing that readers see.                     *)
THEOREM ImplementsLog == Spec => LogRefinement
<1> USE DEF LogRefinement
<1>1. Init => Log!Init
  <2> SUFFICES ASSUME Init PROVE Log!Init
    OBVIOUS
  <2>1. \A d \in Deployments : Revisions(d) = {} /\ snapshots[d] = {}
    BY DEF Init, Revisions
  <2>2. \A d \in Deployments : LastRevision(d) = 0
    BY <2>1 DEF LastRevision, Newest
  <2>3. \A d \in Deployments : ActiveRevision(d) = 0
    BY <2>1 DEF ActiveRevision, Newest
  <2>. QED  BY <2>2, <2>3 DEF Log!Init
<1>2. IInv /\ IInv' /\ [Next]_vars => [Log!Next]_Log!vars
  <2> SUFFICES ASSUME IInv, IInv', [Next]_vars
               PROVE  [Log!Next]_Log!vars
    OBVIOUS
  <2>1. CASE UNCHANGED snapshots
    <3>1. \A d : LastRevision(d)' = LastRevision(d) /\ ActiveRevision(d)' = ActiveRevision(d)
      BY <2>1, RowsUnchanged
    <3>. QED  BY <2>1, <3>1 DEF Log!vars
  <2>2. ASSUME NEW r \in Requests, FlushSnapshot(r)
        PROVE  Log!Next
    BY <2>2, FlushIsWrite DEF Log!Next, Log!Write, LogMap, ServedMap, LogOf, EntryOf
  <2>. QED  BY <2>1, <2>2, OnlyFlushWrites
<1>. QED  BY <1>1, <1>2, Invariance, PTL DEF Spec, Log!Spec
=============================================================================
