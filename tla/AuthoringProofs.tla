--------------------------- MODULE AuthoringProofs ---------------------------
(***************************************************************************)
(* Proofs about Authoring, for any number of clients whose requests        *)
(* overlap, any connectors, source documents and edits.  An induction over *)
(* the updates of a request, or over the rows of a table, is an appeal to  *)
(* the least index at which a claim would fail.                            *)
(***************************************************************************)
EXTENDS Authoring, FiniteSetTheorems, TLAPS

(* A review in which exactly the restricted tools have roles. *)
Coherent(review) ==
  \A op \in DOMAIN review : (review[op].access = "restricted") <=> (review[op].roles = "some")

(* Every variable holds a value of its kind. *)
Types ==
  /\ connectors \subseteq Connectors
  /\ drafts \subseteq Draft
  /\ versions \in [Connectors -> Seq(Version)]
  /\ uploads \in Nat
  /\ client \in [Clients -> Client]

(* The rows of connector_drafts: one per connector, one per id and one per *)
(* registration, each with a policy that its model accepts; no id and no   *)
(* registration is ahead of the count of registrations.                    *)
DraftRows ==
  /\ \A d \in drafts :
       /\ d.connector \in connectors
       /\ Coherent(d.review)
       /\ d.id <= uploads
       /\ d.upload <= uploads
  /\ \A d, e \in drafts : d.connector = e.connector \/ d.id = e.id \/ d.upload = e.upload => d = e

(* What the handler of request q knows, if rows are the drafts and n the   *)
(* count of registrations.  A draft that it has read may be gone, or its   *)
(* id taken over, but the registration that made it never comes back under *)
(* another id.  What is about to be flushed was found ready.               *)
RequestOK(q, rows, n) ==
  /\ q.view = {} \/ \E d \in q.view : q.view = {d}
  /\ IF q.pc = "idle" THEN q.row = {} ELSE \E d \in q.row : q.row = {d}
  /\ \A row \in q.row : Coherent(row.review)
  /\ q.pc \in {"update", "publish", "flush"} =>
       \A row \in q.row :
         /\ row.upload <= n
         /\ \A d \in rows : d.upload = row.upload => d.id = row.id
  /\ q.pc = "flush" => \A row \in q.row : Ready(row)

RequestsOK == \A k \in Clients : RequestOK(client[k], drafts, uploads)

(* A registration that is under way is not yet counted. *)
Registering == {k \in Clients : client[k].pc = "register"}

UploadsBounded == uploads + Cardinality(Registering) <= MaxUploads + Cardinality(Clients)

(* No version is of a registration that is still to come. *)
VersionsRegistered ==
  \A c \in Connectors : \A i \in DOMAIN versions[c] : versions[c][i].upload <= uploads

(* The inductive invariant behind TablesConsistent and PublishedReady. *)
IInv ==
  /\ Types
  /\ DraftRows
  /\ RequestsOK
  /\ UploadsBounded
  /\ VersionsRegistered
  /\ VersionNumbersUnique
  /\ PublishedDraftConsumed
  /\ PublishedReady

-----------------------------------------------------------------------------
(* Maxima, as the queries and the database compute them. *)

(* The least-number principle. *)
LEMMA LeastNat ==
  ASSUME NEW T \in SUBSET Nat, T # {}
  PROVE  \E m \in T : \A k \in T : m <= k
<1> DEFINE Less == {ss \in Nat \X Nat : ss[1] < ss[2]}
<1>1. Less = OpToRel(<, Nat)
  BY Zenon DEF OpToRel
<1>2. IsWellFoundedOn(Less, Nat)
  BY <1>1, NatLessThanWellFounded, Zenon
<1> HIDE DEF Less
<1>3. \E m \in T : \A k \in T : <<k, m>> \notin Less
  BY <1>2, WFMin
<1>4. \A k, m \in Nat : k < m => <<k, m>> \in Less
  BY DEF Less
<1>5. \A k, m \in Nat : ~(k < m) => m <= k
  OBVIOUS
<1>. QED  BY <1>3, <1>4, <1>5

(* A set of numbers below a bound has a maximum, and Max returns it. *)
LEMMA MaxOfBounded ==
  ASSUME NEW S \in SUBSET Nat, S # {}, NEW b \in Nat, \A m \in S : m <= b
  PROVE  Max(S) \in S /\ \A m \in S : m <= Max(S)
<1> DEFINE above == {n \in Nat : \A m \in S : m <= n}
<1>1. PICK n \in above : \A k \in above : n <= k
  <2>1. above \in SUBSET Nat /\ b \in above
    OBVIOUS
  <2> HIDE DEF above
  <2>. QED  BY <2>1, LeastNat
<1>2. n \in Nat /\ \A m \in S : m <= n
  OBVIOUS
<1>3. n \in S
  <2> SUFFICES ASSUME n \notin S PROVE FALSE
    OBVIOUS
  <2>1. \A m \in S : m < n /\ m \in Nat
    BY <1>2
  <2>2. n - 1 \in Nat /\ \A m \in S : m <= n - 1
    <3>1. PICK x \in S : TRUE
      OBVIOUS
    <3>2. x \in Nat /\ x < n
      BY <2>1
    <3>3. n - 1 \in Nat
      BY <1>2, <3>2
    <3>4. \A m \in Nat : m < n => m <= n - 1
      BY <1>2
    <3>. QED  BY <2>1, <3>3, <3>4
  <2>3. n - 1 \in above
    BY <2>2
  <2>. QED  BY <1>1, <1>2, <2>3
<1>4. \A y \in S : n >= y
  BY <1>2
<1>5. Max(S) = CHOOSE x \in S : \A y \in S : x >= y
  BY DEF Max
<1>6. Max(S) \in S /\ \A y \in S : Max(S) >= y
  <2> HIDE DEF above
  <2>. QED  BY <1>3, <1>4, <1>5
<1>7. \A m \in S : Max(S) \in Nat /\ m \in Nat
  BY <1>6
<1>. QED  BY <1>6, <1>7

(* Finitely many numbers have a bound. *)
LEMMA FinitelyManyBounded ==
  ASSUME NEW f, NEW n \in Nat, \A i \in 1..n : f[i] \in Nat
  PROVE  \E b \in Nat : \A i \in 1..n : f[i] <= b
<1> DEFINE Fails(m) == ~ \E b \in Nat : \A i \in 1..m : f[i] <= b
           bad == {m \in Nat : m <= n /\ Fails(m)}
<1> SUFFICES ASSUME Fails(n) PROVE FALSE
  BY Zenon
<1>0. n \in bad
  <2> HIDE DEF Fails
  <2>. QED  OBVIOUS
<1>1. PICK m \in bad : \A k \in bad : m <= k
  <2> HIDE DEF Fails
  <2>1. bad \in SUBSET Nat
    BY Zenon
  <2> HIDE DEF bad
  <2>. QED  BY <1>0, <2>1, LeastNat
<1>2. m \in Nat /\ m <= n /\ Fails(m)
  OBVIOUS
<1>3. m # 0
  <2>1. \A i \in 1..0 : f[i] <= 0
    OBVIOUS
  <2>. QED  BY <1>2, <2>1
<1>4. ~Fails(m - 1) /\ f[m] \in Nat
  <2>1. m - 1 \in Nat /\ m - 1 <= n /\ ~(m <= m - 1) /\ m \in 1..n
    BY <1>2, <1>3
  <2> HIDE DEF Fails
  <2>. QED  BY <1>1, <2>1
<1>5. PICK b \in Nat : \A i \in 1..(m - 1) : f[i] <= b
  BY <1>4
<1>6. \A i \in 1..m : f[i] <= b + f[m]
  <2> SUFFICES ASSUME NEW i \in 1..m PROVE f[i] <= b + f[m]
    OBVIOUS
  <2>1. CASE i = m
    BY <1>4, <2>1
  <2>2. CASE i # m
    <3>1. i \in 1..(m - 1) /\ f[i] \in Nat
      BY <1>2, <2>2
    <3>. QED  BY <1>4, <1>5, <3>1
  <2>. QED  BY <2>1, <2>2
<1>7. b + f[m] \in Nat
  BY <1>4
<1>. QED  BY <1>2, <1>6, <1>7

(* The id of a new row is one that no row has. *)
LEMMA NextIdIsNew ==
  ASSUME NEW rows \in SUBSET Draft, NEW b \in Nat, \A d \in rows : d.id <= b
  PROVE  /\ NextId(rows) \in Nat
         /\ NextId(rows) <= b + 1
         /\ \A d \in rows : d.id # NextId(rows)
<1>1. CASE rows = {}
  BY <1>1 DEF NextId
<1>2. CASE rows # {}
  <2> DEFINE ids == {d.id : d \in rows}
  <2>1. ids \in SUBSET Nat /\ ids # {} /\ \A m \in ids : m <= b
    BY <1>2 DEF Draft
  <2>2. NextId(rows) = 1 + Max(ids)
    BY <1>2 DEF NextId
  <2>3. \A d \in rows : d.id \in ids
    OBVIOUS
  <2> HIDE DEF ids
  <2>4. Max(ids) \in ids /\ \A m \in ids : m <= Max(ids)
    BY <2>1, MaxOfBounded
  <2>5. Max(ids) \in Nat /\ Max(ids) <= b
    BY <2>1, <2>4
  <2>6. \A d \in rows : d.id \in Nat /\ d.id <= Max(ids)
    BY <2>1, <2>3, <2>4
  <2>. QED  BY <2>2, <2>5, <2>6
<1>. QED  BY <1>1, <1>2

(* The version that a registration suggests is a number. *)
LEMMA NextVersionType ==
  ASSUME Types, NEW c \in Connectors
  PROVE  NextVersion(c) \in Nat
<1>1. CASE versions[c] = <<>>
  BY <1>1 DEF NextVersion
<1>2. CASE versions[c] # <<>>
  <2> DEFINE n == Len(versions[c])
             f == [i \in 1..n |-> versions[c][i].version]
  <2>1. n \in Nat /\ n # 0 /\ DOMAIN versions[c] = 1..n
    BY <1>2 DEF Types
  <2>2. \A i \in 1..n : versions[c][i].version \in Nat
    <3>1. \A i \in 1..n : versions[c][i] \in Version
      BY DEF Types
    <3>. QED  BY <3>1 DEF Version
  <2>3. \A i \in 1..n : f[i] \in Nat /\ f[i] = versions[c][i].version
    BY <2>2
  <2>4. PICK b \in Nat : \A i \in 1..n : f[i] <= b
    <3> HIDE DEF n, f
    <3>. QED  BY <2>1, <2>3, FinitelyManyBounded
  <2>5. /\ PublishedVersions(c) \in SUBSET Nat
        /\ PublishedVersions(c) # {}
        /\ \A m \in PublishedVersions(c) : m <= b
    <3>1. PublishedVersions(c) = {versions[c][i].version : i \in 1..n}
      BY <2>1 DEF PublishedVersions
    <3>2. 1 \in 1..n
      BY <2>1
    <3> HIDE DEF n, f
    <3>3. \A i \in 1..n : versions[c][i].version <= b
      BY <2>3, <2>4
    <3>. QED  BY <2>2, <3>1, <3>2, <3>3
  <2>6. Max(PublishedVersions(c)) \in Nat
    BY <2>5, MaxOfBounded
  <2>. QED  BY <1>2, <2>6 DEF NextVersion
<1>. QED  BY <1>1, <1>2

-----------------------------------------------------------------------------
(* Reviews. *)

(* What a review is made of. *)
LEMMA ReviewParts ==
  ASSUME NEW review
  PROVE  review \in Review <=> review \in [DOMAIN review -> Entry] /\ DOMAIN review \subseteq Operations
BY DEF Review

(* The review that a registration starts from. *)
LEMMA InitialReviewFit ==
  ASSUME NEW s \in Sources
  PROVE  InitialReview(s) \in Review /\ Coherent(InitialReview(s))
<1> DEFINE ops == Analysis[s].operations
<1>1. DOMAIN InitialReview(s) = ops /\ ops \subseteq Operations
  BY DEF InitialReview, Operations
<1>2. \A op \in ops : /\ InitialReview(s)[op] \in Entry
                      /\ InitialReview(s)[op].access = "public"
                      /\ InitialReview(s)[op].roles = "none"
  BY DEF InitialReview, Entry
<1>3. InitialReview(s) = [op \in ops |-> InitialReview(s)[op]]
  BY <1>1 DEF InitialReview
<1>4. InitialReview(s) \in [ops -> Entry]
  BY <1>2, <1>3
<1>. QED  BY <1>1, <1>2, <1>4, ReviewParts DEF Coherent

(* An update that apply_update accepts leaves a review with the same       *)
(* operations, and a policy that ToolAccessPolicy accepts.                 *)
LEMMA ApplyUpdateFit ==
  ASSUME NEW review \in Review, Coherent(review), NEW u \in Update, Acceptable(review, u)
  PROVE  ApplyUpdate(review, u) \in Review /\ Coherent(ApplyUpdate(review, u))
<1> DEFINE old == review[u.op]
           new == [selection |-> Merged(u.selection, old.selection), origin |-> MergedOrigin(u, old),
                   access |-> Merged(u.access, old.access), roles |-> Merged(u.roles, old.roles)]
<1>1. review \in [DOMAIN review -> Entry] /\ DOMAIN review \subseteq Operations
  BY ReviewParts
<1>2. u.op \in DOMAIN review /\ old \in Entry
  BY <1>1 DEF Acceptable
<1>3. ApplyUpdate(review, u) = [review EXCEPT ![u.op] = new]
  BY <1>1, <1>2 DEF ApplyUpdate
<1>4. new \in Entry
  BY <1>2 DEF Entry, Update, Merged, MergedOrigin
<1>5. (new.access = "restricted") <=> (new.roles = "some")
  <2>1. CASE u.access # "keep" \/ u.roles # "keep"
    BY <2>1 DEF Acceptable
  <2>2. CASE u.access = "keep" /\ u.roles = "keep"
    <3>1. new.access = old.access /\ new.roles = old.roles
      BY <2>2 DEF Merged
    <3>. QED  BY <1>2, <3>1 DEF Coherent
  <2>. QED  BY <2>1, <2>2
<1> HIDE DEF new, old
<1>6. ApplyUpdate(review, u) \in [DOMAIN review -> Entry]
  BY <1>1, <1>2, <1>3, <1>4
<1>7. Coherent(ApplyUpdate(review, u))
  BY <1>1, <1>2, <1>3, <1>5 DEF Coherent
<1>. QED  BY <1>1, <1>6, <1>7, ReviewParts

(* f is the outcome after each of the first n updates. *)
Applied(f, review, updates, n) ==
  f = [i \in 0..n |->
         IF i = 0 THEN [ok |-> TRUE, review |-> review] ELSE ApplyNext(f[i - 1], updates[i])]

(* The recursion of ApplyAll defines a function. *)
LEMMA AppliedExists ==
  ASSUME NEW review, NEW updates
  PROVE  \A n \in Nat : \E f : Applied(f, review, updates, n)
<1> DEFINE bad == {n \in Nat : ~ \E f : Applied(f, review, updates, n)}
           start == [ok |-> TRUE, review |-> review]
<1> SUFFICES ASSUME bad # {} PROVE FALSE
  OBVIOUS
<1>1. PICK n \in bad : \A k \in bad : n <= k
  <2>1. bad \in SUBSET Nat
    OBVIOUS
  <2> HIDE DEF bad
  <2>. QED  BY <2>1, LeastNat
<1>2. n \in Nat /\ ~ \E f : Applied(f, review, updates, n)
  OBVIOUS
<1> HIDE DEF start
<1>3. n # 0
  <2>1. Applied([i \in 0..0 |-> start], review, updates, 0)
    BY DEF Applied, start
  <2>. QED  BY <1>2, <2>1
<1>4. n - 1 \in Nat /\ n - 1 \notin bad
  BY <1>1, <1>2, <1>3
<1>5. PICK f : Applied(f, review, updates, n - 1)
  BY <1>4
<1> DEFINE g == [i \in 0..n |-> IF i = n THEN ApplyNext(f[n - 1], updates[n]) ELSE f[i]]
<1>6. Applied(g, review, updates, n)
  <2>1. ASSUME NEW i \in 0..n
        PROVE  g[i] = IF i = 0 THEN start ELSE ApplyNext(g[i - 1], updates[i])
    <3>1. i # 0 => i - 1 \in 0..n /\ g[i - 1] = f[i - 1]
      BY <1>2
    <3>2. CASE i = n
      BY <1>3, <3>1, <3>2
    <3>3. CASE i # n
      <4>1. i \in 0..(n - 1) /\ g[i] = f[i]
        BY <1>2, <3>3
      <4>2. f[i] = IF i = 0 THEN start ELSE ApplyNext(f[i - 1], updates[i])
        BY <1>5, <4>1 DEF Applied, start
      <4>. QED  BY <3>1, <4>1, <4>2
    <3>. QED  BY <3>2, <3>3
  <2>2. g = [i \in 0..n |-> g[i]]
    OBVIOUS
  <2> HIDE DEF g
  <2>. QED  BY <2>1, <2>2 DEF Applied, start
<1>. QED  BY <1>2, <1>6

(* Whatever the updates of a request, and whether or not it is refused,    *)
(* the review that it leaves behind is a coherent one.                     *)
LEMMA ApplyAllFit ==
  ASSUME NEW review \in Review, Coherent(review), NEW updates \in Seq(Update)
  PROVE  ApplyAll(review, updates).review \in Review /\ Coherent(ApplyAll(review, updates).review)
<1> DEFINE n == Len(updates)
           f == CHOOSE g : Applied(g, review, updates, n)
           Fit(i) == f[i].review \in Review /\ Coherent(f[i].review)
           bad == {i \in Nat : i <= n /\ ~Fit(i)}
<1>1. n \in Nat /\ \A i \in 1..n : updates[i] \in Update
  OBVIOUS
<1>2. Applied(f, review, updates, n)
  BY <1>1, AppliedExists
<1>3. ApplyAll(review, updates) = f[n]
  BY DEF ApplyAll, Applied
<1> HIDE DEF f, n
<1>4. /\ f[0] = [ok |-> TRUE, review |-> review]
      /\ \A i \in 1..n : f[i] = ApplyNext(f[i - 1], updates[i])
  <2> DEFINE start == [ok |-> TRUE, review |-> review]
  <2>1. 0 \in 0..n /\ \A i \in 1..n : i \in 0..n /\ i # 0
    BY <1>1
  <2>2. f = [i \in 0..n |-> IF i = 0 THEN start ELSE ApplyNext(f[i - 1], updates[i])]
    BY <1>2 DEF Applied
  <2> HIDE DEF start
  <2>3. \A i \in 0..n : f[i] = IF i = 0 THEN start ELSE ApplyNext(f[i - 1], updates[i])
    BY <2>2
  <2>4. f[0] = start
    BY <2>1, <2>3
  <2>5. \A i \in 1..n : f[i] = ApplyNext(f[i - 1], updates[i])
    BY <2>1, <2>3
  <2>. QED  BY <2>4, <2>5 DEF start
<1>5. bad = {}
  <2> SUFFICES ASSUME bad # {} PROVE FALSE
    OBVIOUS
  <2>1. PICK m \in bad : \A k \in bad : m <= k
    <3> HIDE DEF Fit
    <3>1. bad \in SUBSET Nat
      OBVIOUS
    <3> HIDE DEF bad
    <3>. QED  BY <3>1, LeastNat
  <2>2. m \in Nat /\ m <= n /\ ~Fit(m)
    OBVIOUS
  <2>3. m # 0
    BY <1>4, <2>2
  <2>4. Fit(m - 1)
    <3>1. m - 1 \in Nat /\ m - 1 <= n /\ ~(m <= m - 1)
      BY <1>1, <2>2, <2>3
    <3> HIDE DEF Fit
    <3>. QED  BY <2>1, <3>1
  <2>5. m \in 1..n /\ updates[m] \in Update
    BY <1>1, <2>2, <2>3
  <2>6. \/ f[m].review = f[m - 1].review
        \/ /\ Acceptable(f[m - 1].review, updates[m])
           /\ f[m].review = ApplyUpdate(f[m - 1].review, updates[m])
    <3>1. f[m] = ApplyNext(f[m - 1], updates[m])
      BY <1>4, <2>5
    <3> DEFINE sofar == f[m - 1]
               u == updates[m]
    <3>2. CASE sofar.ok /\ Acceptable(sofar.review, u)
      <4>1. f[m] = [ok |-> TRUE, review |-> ApplyUpdate(sofar.review, u)]
        BY <3>1, <3>2 DEF ApplyNext
      <4>. QED  BY <3>2, <4>1
    <3>3. CASE ~(sofar.ok /\ Acceptable(sofar.review, u))
      <4>1. f[m] = [ok |-> FALSE, review |-> sofar.review]
        BY <3>1, <3>3, Zenon DEF ApplyNext
      <4>. QED  BY <4>1
    <3>. QED  BY <3>2, <3>3
  <2>7. Fit(m)
    BY <2>4, <2>5, <2>6, ApplyUpdateFit
  <2>. QED  BY <2>2, <2>7
<1>6. Fit(n)
  <2>1. n <= n
    BY <1>1
  <2> HIDE DEF Fit
  <2>. QED  BY <1>1, <1>5, <2>1
<1>. QED  BY <1>3, <1>6

-----------------------------------------------------------------------------
(* The invariant, action by action. *)

(* The invariant holds before the first request. *)
LEMMA InitIInv == Init => IInv
<1> SUFFICES ASSUME Init PROVE IInv
  OBVIOUS
<1>1. \A k \in Clients : client[k] = Idle({}) /\ client[k] \in Client
  BY DEF Init, Idle, Client
<1>2. Types
  <2>1. client \in [Clients -> Client]
    BY <1>1 DEF Init
  <2>2. versions \in [Connectors -> Seq(Version)]
    BY DEF Init
  <2>. QED  BY <2>1, <2>2 DEF Init, Types
<1>3. DraftRows /\ VersionsRegistered /\ VersionNumbersUnique /\ PublishedDraftConsumed /\ PublishedReady
  BY DEF Init, DraftRows, VersionsRegistered, VersionNumbersUnique, PublishedDraftConsumed,
         PublishedReady
<1>4. RequestsOK
  BY <1>1 DEF RequestsOK, RequestOK, Idle
<1>5. UploadsBounded
  <2>1. Registering = {}
    BY <1>1 DEF Registering, Idle
  <2>2. Cardinality(Registering) = 0
    BY <2>1, FS_EmptySet
  <2>3. Cardinality(Clients) \in Nat
    BY BoundsAssumption, FS_CardinalityType
  <2>. QED  BY <2>2, <2>3, BoundsAssumption DEF Init, UploadsBounded
<1>. QED  BY <1>2, <1>3, <1>4, <1>5 DEF IInv

(* The count of registrations under way. *)
LEMMA RegisteringFinite ==
  /\ IsFiniteSet(Registering)
  /\ Cardinality(Registering) \in Nat
  /\ Cardinality(Clients) \in Nat
  /\ Cardinality(Registering) <= Cardinality(Clients)
<1>1. Registering \subseteq Clients
  BY DEF Registering
<1>. QED  BY <1>1, BoundsAssumption, FS_Subset, FS_CardinalityType

(* What is known of a row that a handler has read stays known, as long as  *)
(* no row of its registration appears.                                     *)
LEMMA RequestKept ==
  ASSUME Types, Types', NEW q \in Client, RequestOK(q, drafts, uploads), uploads <= uploads',
         \A d \in drafts' : \/ d.upload > uploads
                            \/ \E e \in drafts : e.upload = d.upload /\ e.id = d.id
  PROVE  RequestOK(q, drafts', uploads')
<1>1. \A row \in q.row : row.upload \in Nat
  BY DEF Client, Draft
<1>2. uploads \in Nat /\ uploads' \in Nat /\ \A d \in drafts' : d.upload \in Nat
  BY DEF Types, Draft
<1>3. ASSUME q.pc \in {"update", "publish", "flush"}, NEW row \in q.row
      PROVE  /\ row.upload <= uploads'
             /\ \A d \in drafts' : d.upload = row.upload => d.id = row.id
  <2>1. /\ row.upload <= uploads
        /\ \A d \in drafts : d.upload = row.upload => d.id = row.id
    BY <1>3 DEF RequestOK
  <2>2. row.upload <= uploads'
    BY <1>1, <1>2, <2>1
  <2>3. ASSUME NEW d \in drafts', d.upload = row.upload
        PROVE  d.id = row.id
    <3>1. ~(d.upload > uploads)
      BY <1>1, <1>2, <2>1, <2>3
    <3>2. PICK e \in drafts : e.upload = d.upload /\ e.id = d.id
      BY <3>1
    <3>. QED  BY <2>1, <2>3, <3>2
  <2>. QED  BY <2>2, <2>3
<1>. QED  BY <1>3 DEF RequestOK

(* A step that only moves one request along: the tables stay. *)
LEMMA RequestStep ==
  ASSUME IInv, NEW k \in Clients, NEW q \in Client, client' = [client EXCEPT ![k] = q],
         RequestOK(q, drafts, uploads), q.pc = "register" => uploads < MaxUploads,
         UNCHANGED <<connectors, drafts, versions, uploads>>
  PROVE  IInv'
<1> USE DEF IInv
<1>1. client' \in [Clients -> Client] /\ client'[k] = q /\ \A j \in Clients \ {k} : client'[j] = client[j]
  BY DEF Types
<1>2. Types'
  BY <1>1 DEF Types
<1>3. DraftRows' /\ VersionsRegistered' /\ VersionNumbersUnique' /\ PublishedDraftConsumed' /\ PublishedReady'
  BY DEF DraftRows, VersionsRegistered, VersionNumbersUnique, PublishedDraftConsumed, PublishedReady,
         PublishedVersions
<1>4. RequestsOK'
  <2> SUFFICES ASSUME NEW j \in Clients PROVE RequestOK(client'[j], drafts, uploads)
    BY DEF RequestsOK
  <2>1. CASE j = k
    BY <1>1, <2>1
  <2>2. CASE j # k
    BY <1>1, <2>2 DEF RequestsOK
  <2>. QED  BY <2>1, <2>2
<1>5. UploadsBounded'
  <2>1. CASE q.pc = "register"
    <3>1. /\ Cardinality(Registering') \in Nat
          /\ Cardinality(Clients) \in Nat
          /\ Cardinality(Registering') <= Cardinality(Clients)
      <4>1. Registering' \subseteq Clients
        BY DEF Registering
      <4>. QED  BY <4>1, BoundsAssumption, FS_Subset, FS_CardinalityType
    <3>. QED  BY <2>1, <3>1, BoundsAssumption DEF UploadsBounded, Types
  <2>2. CASE q.pc # "register"
    <3>1. Registering' \subseteq Registering
      BY <1>1, <2>2 DEF Registering
    <3>2. Cardinality(Registering') \in Nat /\ Cardinality(Registering') <= Cardinality(Registering)
      BY <3>1, RegisteringFinite, FS_Subset, FS_CardinalityType
    <3>. QED  BY <3>2, RegisteringFinite, BoundsAssumption DEF UploadsBounded, Types
  <2>. QED  BY <2>1, <2>2
<1>. QED  BY <1>2, <1>3, <1>4, <1>5

(* A request that is over. *)
LEMMA IdleOK ==
  ASSUME NEW view \in SUBSET Draft, view = {} \/ \E d \in view : view = {d}, NEW rows, NEW n
  PROVE  Idle(view) \in Client /\ RequestOK(Idle(view), rows, n) /\ Idle(view).pc = "idle"
BY DEF Idle, Client, RequestOK

(* Rows of other connectors, and the rows of one connector. *)
LEMMA DraftOfOne ==
  ASSUME IInv, NEW c
  PROVE  DraftOf(c) \in SUBSET Draft /\ (DraftOf(c) = {} \/ \E d \in DraftOf(c) : DraftOf(c) = {d})
<1>1. DraftOf(c) \in SUBSET Draft
  BY DEF IInv, Types, DraftOf
<1>2. \A d, e \in DraftOf(c) : d = e
  BY DEF IInv, DraftRows, DraftOf
<1>. QED  BY <1>1, <1>2

(* GetDraft reads one row. *)
LEMMA GetDraftIInv ==
  ASSUME IInv, NEW k \in Clients, NEW c \in Connectors, GetDraft(k, c)
  PROVE  IInv'
<1> DEFINE q == Idle(DraftOf(c))
<1>1. q \in Client /\ RequestOK(q, drafts, uploads) /\ q.pc = "idle"
  BY DraftOfOne, IdleOK
<1>2. client' = [client EXCEPT ![k] = q] /\ UNCHANGED <<connectors, drafts, versions, uploads>>
  BY DEF GetDraft
<1> HIDE DEF q
<1>. QED  BY <1>1, <1>2, RequestStep

(* AbandonRequest forgets what the request read. *)
LEMMA AbandonRequestIInv ==
  ASSUME IInv, NEW k \in Clients, AbandonRequest(k)
  PROVE  IInv'
<1> DEFINE view == client[k].view
           q == Idle(view)
<1>1. view \in SUBSET Draft /\ (view = {} \/ \E d \in view : view = {d})
  BY DEF IInv, Types, Client, RequestsOK, RequestOK
<1>2. client' = [client EXCEPT ![k] = q] /\ UNCHANGED <<connectors, drafts, versions, uploads>>
  BY DEF AbandonRequest
<1>3. q \in Client /\ RequestOK(q, drafts, uploads) /\ q.pc = "idle"
  <2> HIDE DEF view
  <2>. QED  BY <1>1, IdleOK
<1> HIDE DEF q
<1>. QED  BY <1>2, <1>3, RequestStep

(* The row that a registration inserts. *)
LEMMA NewDraftFit ==
  ASSUME uploads \in Nat, NEW c \in Connectors, NEW s \in Sources, NEW v \in Nat,
         NEW rows \in SUBSET Draft, \A d \in rows : d.id <= uploads
  PROVE  /\ NewDraft(c, s, v, rows) \in Draft
         /\ NewDraft(c, s, v, rows).connector = c
         /\ NewDraft(c, s, v, rows).upload = uploads + 1
         /\ NewDraft(c, s, v, rows).id <= uploads + 1
         /\ \A d \in rows : d.id # NewDraft(c, s, v, rows).id
         /\ Coherent(NewDraft(c, s, v, rows).review)
<1>1. /\ NextId(rows) \in Nat
      /\ NextId(rows) <= uploads + 1
      /\ \A d \in rows : d.id # NextId(rows)
  BY NextIdIsNew
<1>2. InitialReview(s) \in Review /\ Coherent(InitialReview(s))
  BY InitialReviewFit
<1>3. Analysis[s].base \in {"present", "missing"}
  BY AnalysisAssumption
<1>. QED  BY <1>1, <1>2, <1>3 DEF NewDraft, Draft

(* BeginRegister prepares a row. *)
LEMMA BeginRegisterIInv ==
  ASSUME IInv, NEW k \in Clients, NEW c \in Connectors, NEW s \in Sources, NEW v \in 0..MaxVersion,
         BeginRegister(k, c, s, v)
  PROVE  IInv'
<1> DEFINE vv == IF v = 0 THEN 1 ELSE v
           draft == NewDraft(c, s, vv, {})
           q == [client[k] EXCEPT !.pc = "register", !.row = {draft}]
<1>1. client[k] \in Client /\ client \in [Clients -> Client] /\ uploads \in Nat
  BY DEF IInv, Types
<1>2. client' = [client EXCEPT ![k] = q] /\ UNCHANGED <<connectors, drafts, versions, uploads>>
  BY <1>1 DEF BeginRegister
<1>3. vv \in Nat
  BY BoundsAssumption
<1>4. draft \in Draft /\ Coherent(draft.review)
  BY <1>1, <1>3, NewDraftFit
<1> HIDE DEF draft
<1>5. q \in Client /\ q.pc = "register" /\ q.row = {draft} /\ q.view = client[k].view
  BY <1>1, <1>4 DEF Client
<1> HIDE DEF q
<1>6. RequestOK(q, drafts, uploads)
  BY <1>4, <1>5 DEF IInv, RequestsOK, RequestOK
<1>7. uploads < MaxUploads
  BY DEF BeginRegister
<1>. QED  BY <1>2, <1>5, <1>6, <1>7, RequestStep

(* A row that is read, or edited in memory. *)
LEMMA ReadStep ==
  ASSUME IInv, NEW k \in Clients, NEW d \in drafts, NEW row \in Draft,
         row.id = d.id, row.upload = d.upload, Coherent(row.review),
         NEW q \in Client, q.pc \in {"update", "publish"}, q.row = {row}, q.view = client[k].view,
         client' = [client EXCEPT ![k] = q], UNCHANGED <<connectors, drafts, versions, uploads>>
  PROVE  IInv'
<1>1. row.upload <= uploads
  BY DEF IInv, DraftRows
<1>2. \A e \in drafts : e.upload = row.upload => e.id = row.id
  BY DEF IInv, DraftRows
<1>3. RequestOK(q, drafts, uploads)
  BY <1>1, <1>2 DEF IInv, RequestsOK, RequestOK
<1>. QED  BY <1>3, RequestStep

(* BeginPublish reads a row. *)
LEMMA BeginPublishIInv ==
  ASSUME IInv, NEW k \in Clients, NEW v \in 0..MaxVersion, BeginPublish(k, v)
  PROVE  IInv'
<1>1. client[k] \in Client /\ client \in [Clients -> Client] /\ drafts \subseteq Draft
  BY DEF IInv, Types
<1>2. PICK d \in drafts :
        client' = [client EXCEPT ![k].pc = "publish", ![k].row = {d},
                                 ![k].version = IF v = 0 THEN d.version ELSE v]
  BY DEF BeginPublish
<1> DEFINE vv == IF v = 0 THEN d.version ELSE v
           q == [client[k] EXCEPT !.pc = "publish", !.row = {d}, !.version = vv]
<1>3. d \in Draft /\ vv \in Nat /\ Coherent(d.review)
  BY <1>1, BoundsAssumption DEF Draft, IInv, DraftRows
<1>4. client' = [client EXCEPT ![k] = q]
  BY <1>1, <1>2
<1> HIDE DEF vv
<1>5. q \in Client /\ q.pc = "publish" /\ q.row = {d} /\ q.view = client[k].view
  BY <1>1, <1>3 DEF Client
<1>6. UNCHANGED <<connectors, drafts, versions, uploads>>
  BY DEF BeginPublish
<1> HIDE DEF q
<1>. QED  BY <1>3, <1>4, <1>5, <1>6, ReadStep

(* What BeginUpdate makes of the row that it read. *)
Edited(d, edit) ==
  [d EXCEPT !.review = ApplyAll(d.review, edit.updates).review, !.revision = @ + 1,
            !.base = Merged(edit.base, @),
            !.version = IF edit.version = 0 THEN @ ELSE edit.version]

(* It is a row of the same identity. *)
LEMMA EditedFit ==
  ASSUME NEW d \in Draft, Coherent(d.review), NEW edit \in Edits
  PROVE  /\ Edited(d, edit) \in Draft
         /\ Edited(d, edit).id = d.id
         /\ Edited(d, edit).connector = d.connector
         /\ Edited(d, edit).source = d.source
         /\ Edited(d, edit).upload = d.upload
         /\ Edited(d, edit).revision = d.revision + 1
         /\ Coherent(Edited(d, edit).review)
<1> DEFINE review == ApplyAll(d.review, edit.updates).review
           base == Merged(edit.base, d.base)
           version == IF edit.version = 0 THEN d.version ELSE edit.version
           revision == d.revision + 1
           row == Edited(d, edit)
<1>1. edit.updates \in Seq(Update) /\ edit.version \in Nat /\ edit.base \in {"keep", "present", "missing"}
  BY EditsAssumption
<1>2. d.review \in Review /\ d.version \in Nat /\ d.base \in {"present", "missing"} /\ d.revision \in Nat
  BY DEF Draft
<1>3. review \in Review /\ Coherent(review)
  BY <1>1, <1>2, ApplyAllFit
<1>4. base \in {"present", "missing"} /\ version \in Nat /\ revision \in Nat
  BY <1>1, <1>2 DEF Merged
<1>5. row = [d EXCEPT !.review = review, !.revision = revision, !.base = base, !.version = version]
  BY DEF Edited, Draft
<1> HIDE DEF review, base, version, revision, row
<1>6. /\ row \in Draft
      /\ row.id = d.id /\ row.connector = d.connector /\ row.source = d.source
      /\ row.upload = d.upload /\ row.revision = revision
      /\ row.review = review
  BY <1>3, <1>4, <1>5 DEF Draft
<1>. QED  BY <1>3, <1>6 DEF row, revision

(* BeginUpdate reads a row and edits it in memory. *)
LEMMA BeginUpdateIInv ==
  ASSUME IInv, NEW k \in Clients, NEW edit \in Edits, BeginUpdate(k, edit)
  PROVE  IInv'
<1>1. client[k] \in Client /\ client \in [Clients -> Client] /\ drafts \subseteq Draft
  BY DEF IInv, Types
<1>2. PICK d \in drafts :
        client' = [client EXCEPT ![k].pc = "update", ![k].row = {Edited(d, edit)},
          ![k].version = edit.version,
          ![k].columns = {col \in {"review", "version", "base"} : Edited(d, edit)[col] # d[col]}]
  BY DEF BeginUpdate, Edited
<1> DEFINE row == Edited(d, edit)
           columns == {col \in {"review", "version", "base"} : row[col] # d[col]}
           q == [client[k] EXCEPT !.pc = "update", !.row = {row}, !.version = edit.version,
                                  !.columns = columns]
<1>3. row \in Draft /\ row.id = d.id /\ row.upload = d.upload /\ Coherent(row.review)
  <2>1. d \in Draft /\ Coherent(d.review)
    BY <1>1 DEF IInv, DraftRows
  <2>. QED  BY <2>1, EditedFit
<1> HIDE DEF row
<1>4. columns \in SUBSET {"review", "version", "base"} /\ edit.version \in Nat
  BY EditsAssumption
<1>5. client' = [client EXCEPT ![k] = q]
  BY <1>1, <1>2 DEF row
<1> HIDE DEF columns
<1>6. q \in Client /\ q.pc = "update" /\ q.row = {row} /\ q.view = client[k].view
  BY <1>1, <1>3, <1>4 DEF Client
<1>7. UNCHANGED <<connectors, drafts, versions, uploads>>
  BY DEF BeginUpdate
<1> HIDE DEF q
<1>. QED  BY <1>3, <1>5, <1>6, <1>7, ReadStep

(* CheckPublish lets a publication pass. *)
LEMMA CheckPublishIInv ==
  ASSUME IInv, NEW k \in Clients, CheckPublish(k)
  PROVE  IInv'
<1> DEFINE q == [client[k] EXCEPT !.pc = "flush"]
<1>1. client[k] \in Client /\ client \in [Clients -> Client]
  BY DEF IInv, Types
<1>2. client' = [client EXCEPT ![k] = q] /\ UNCHANGED <<connectors, drafts, versions, uploads>>
  BY <1>1 DEF CheckPublish
<1>3. q \in Client /\ q.pc = "flush" /\ q.row = client[k].row /\ q.view = client[k].view
  BY <1>1 DEF Client
<1>4. client[k].pc = "publish" /\ \E row \in client[k].row : Ready(row)
  BY DEF CheckPublish
<1>5. RequestOK(client[k], drafts, uploads)
  BY DEF IInv, RequestsOK
<1> HIDE DEF q
<1>6. \A row \in q.row : Ready(row)
  BY <1>3, <1>4, <1>5 DEF RequestOK
<1>7. RequestOK(q, drafts, uploads)
  BY <1>3, <1>4, <1>5, <1>6 DEF RequestOK
<1>. QED  BY <1>2, <1>3, <1>7, RequestStep

(* The requests after a commit: the client's own is over, and what the     *)
(* others know still holds.                                                *)
LEMMA RequestsAfterCommit ==
  ASSUME IInv, Types', NEW k \in Clients, NEW view \in SUBSET Draft,
         view = {} \/ \E d \in view : view = {d},
         client' = [client EXCEPT ![k] = Idle(view)], uploads <= uploads',
         \A d \in drafts' : \/ d.upload > uploads
                            \/ \E e \in drafts : e.upload = d.upload /\ e.id = d.id
  PROVE  RequestsOK'
<1>1. client \in [Clients -> Client] /\ Types
  BY DEF IInv, Types
<1> SUFFICES ASSUME NEW j \in Clients PROVE RequestOK(client'[j], drafts', uploads')
  BY DEF RequestsOK
<1>2. CASE j = k
  BY <1>1, <1>2, IdleOK
<1>3. CASE j # k
  <2>1. client'[j] = client[j] /\ client[j] \in Client /\ RequestOK(client[j], drafts, uploads)
    BY <1>1, <1>3 DEF IInv, RequestsOK
  <2>. QED  BY <1>1, <2>1, RequestKept
<1>. QED  BY <1>2, <1>3

(* The registrations under way after a commit. *)
LEMMA RegisteringAfterCommit ==
  ASSUME IInv, NEW k \in Clients, NEW view, client' = [client EXCEPT ![k] = Idle(view)]
  PROVE  /\ Registering' = Registering \ {k}
         /\ Cardinality(Registering') \in Nat
         /\ Cardinality(Registering') <= Cardinality(Clients)
         /\ Cardinality(Registering') =
              IF client[k].pc = "register" THEN Cardinality(Registering) - 1
                                           ELSE Cardinality(Registering)
<1>1. client \in [Clients -> Client]
  BY DEF IInv, Types
<1>2. Registering' = Registering \ {k}
  BY <1>1 DEF Registering, Idle
<1>3. IsFiniteSet(Registering) /\ Cardinality(Registering) \in Nat /\ IsFiniteSet(Clients)
  BY RegisteringFinite, BoundsAssumption
<1>4. Registering' \subseteq Clients
  BY <1>2 DEF Registering
<1>5. /\ Cardinality(Registering') \in Nat
      /\ Cardinality(Registering') <= Cardinality(Clients)
  BY <1>3, <1>4, FS_Subset, FS_CardinalityType
<1>6. k \in Registering <=> client[k].pc = "register"
  BY DEF Registering
<1>7. Cardinality(Registering \ {k}) =
        IF k \in Registering THEN Cardinality(Registering) - 1 ELSE Cardinality(Registering)
  BY <1>3, FS_RemoveElement
<1>. QED  BY <1>2, <1>5, <1>6, <1>7

(* A registration commits: the new draft takes the place of the old one.   *)
LEMMA InsertDraftIInv ==
  ASSUME IInv, NEW k \in Clients, NEW c \in Connectors, NEW s \in Sources, NEW v \in Nat,
         InsertDraft(k, c, s, v), UNCHANGED versions,
         connectors' = connectors \cup {c},
         client[k].pc = "register" \/ uploads < MaxUploads
  PROVE  IInv'
<1> DEFINE others == drafts \ DraftOf(c)
           draft == NewDraft(c, s, v, others)
<1>1. /\ uploads \in Nat /\ others \in SUBSET Draft
      /\ client \in [Clients -> Client] /\ connectors \subseteq Connectors
      /\ versions \in [Connectors -> Seq(Version)]
  BY DEF IInv, Types
<1>2. \A d \in others : /\ d \in drafts /\ d.connector # c /\ d.id <= uploads /\ d.upload <= uploads
                        /\ d.connector \in connectors /\ Coherent(d.review)
                        /\ d.id \in Nat /\ d.upload \in Nat
  BY DEF IInv, Types, DraftRows, DraftOf, Draft
<1>3. /\ draft \in Draft /\ draft.connector = c /\ draft.upload = uploads + 1
      /\ draft.id <= uploads + 1 /\ \A d \in others : d.id # draft.id
      /\ Coherent(draft.review)
  BY <1>1, <1>2, NewDraftFit
<1>4. drafts' = others \cup {draft} /\ uploads' = uploads + 1 /\ client' = [client EXCEPT ![k] = Idle({draft})]
  BY DEF InsertDraft
<1> HIDE DEF draft, others
<1>5. Types'
  <2>1. Idle({draft}) \in Client
    BY <1>3, IdleOK
  <2>2. client' \in [Clients -> Client]
    BY <1>1, <1>4, <2>1
  <2>. QED  BY <1>1, <1>3, <1>4, <2>2 DEF Types
<1>6. DraftRows'
  <2>1. \A d \in drafts' : /\ d.connector \in connectors' /\ Coherent(d.review)
                           /\ d.id <= uploads' /\ d.upload <= uploads'
    <3> SUFFICES ASSUME NEW d \in drafts' PROVE /\ d.connector \in connectors' /\ Coherent(d.review)
                                                /\ d.id <= uploads' /\ d.upload <= uploads'
      OBVIOUS
    <3>1. CASE d \in others
      BY <1>1, <1>2, <1>4, <3>1
    <3>2. CASE d = draft
      BY <1>1, <1>3, <1>4, <3>2
    <3>. QED  BY <1>4, <3>1, <3>2
  <2>2. \A d, e \in others : d.connector = e.connector \/ d.id = e.id \/ d.upload = e.upload => d = e
    BY <1>2 DEF IInv, DraftRows
  <2>3. \A d \in others : d.connector # draft.connector /\ d.id # draft.id /\ d.upload # draft.upload
    BY <1>1, <1>2, <1>3
  <2>. QED  BY <1>4, <2>1, <2>2, <2>3 DEF DraftRows
<1>7. RequestsOK'
  <2>1. \A d \in drafts' : \/ d.upload > uploads
                           \/ \E e \in drafts : e.upload = d.upload /\ e.id = d.id
    BY <1>1, <1>2, <1>3, <1>4
  <2>2. uploads <= uploads' /\ {draft} \in SUBSET Draft
    BY <1>1, <1>3, <1>4
  <2>. QED  BY <1>4, <1>5, <2>1, <2>2, RequestsAfterCommit
<1>8. UploadsBounded'
  <2>1. Cardinality(Clients) \in Nat /\ Cardinality(Registering) \in Nat
    BY RegisteringFinite
  <2>2. /\ Cardinality(Registering') \in Nat
        /\ Cardinality(Registering') <= Cardinality(Clients)
        /\ client[k].pc = "register" => Cardinality(Registering') = Cardinality(Registering) - 1
    BY <1>4, RegisteringAfterCommit
  <2>3. uploads + Cardinality(Registering) <= MaxUploads + Cardinality(Clients)
    BY DEF IInv, UploadsBounded
  <2>. QED  BY <1>1, <1>4, <2>1, <2>2, <2>3, BoundsAssumption DEF UploadsBounded
<1>9. VersionsRegistered' /\ PublishedDraftConsumed'
  <2>1. \A b \in Connectors : \A i \in DOMAIN versions[b] :
          versions[b][i].upload \in Nat /\ versions[b][i].upload <= uploads
    <3>1. \A b \in Connectors : \A i \in DOMAIN versions[b] : versions[b][i] \in Version
      BY <1>1
    <3>. QED  BY <3>1 DEF Version, IInv, VersionsRegistered
  <2>2. VersionsRegistered'
    BY <1>1, <1>4, <2>1 DEF VersionsRegistered
  <2>3. PublishedDraftConsumed'
    <3>1. \A b \in Connectors : \A i \in DOMAIN versions[b] : draft.upload # versions[b][i].upload
      BY <1>1, <1>3, <2>1
    <3>. QED  BY <1>2, <1>4, <3>1 DEF IInv, PublishedDraftConsumed
  <2>. QED  BY <2>2, <2>3
<1>10. VersionNumbersUnique' /\ PublishedReady'
  BY DEF IInv, VersionNumbersUnique, PublishedReady
<1>. QED  BY <1>5, <1>6, <1>7, <1>8, <1>9, <1>10 DEF IInv

(* RegisterAgain commits a registration of a connector that exists. *)
LEMMA RegisterAgainIInv ==
  ASSUME IInv, NEW k \in Clients, NEW c \in Connectors, NEW s \in Sources, NEW v \in 0..MaxVersion,
         RegisterAgain(k, c, s, v)
  PROVE  IInv'
<1> DEFINE vv == IF v = 0 THEN NextVersion(c) ELSE v
<1>1. vv \in Nat
  BY BoundsAssumption, NextVersionType DEF IInv
<1>2. InsertDraft(k, c, s, vv) /\ UNCHANGED versions /\ uploads < MaxUploads
  BY DEF RegisterAgain
<1>3. connectors' = connectors \cup {c}
  BY DEF RegisterAgain
<1> HIDE DEF vv
<1>. QED  BY <1>1, <1>2, <1>3, InsertDraftIInv

(* CommitRegister commits the registration of a new connector. *)
LEMMA CommitRegisterIInv ==
  ASSUME IInv, NEW k \in Clients, CommitRegister(k)
  PROVE  IInv'
<1>1. PICK row \in client[k].row : /\ connectors' = connectors \cup {row.connector}
                                   /\ InsertDraft(k, row.connector, row.source, row.version)
  BY DEF CommitRegister
<1>2. row \in Draft
  BY DEF IInv, Types, Client
<1>3. row.connector \in Connectors /\ row.source \in Sources /\ row.version \in Nat
  BY <1>2 DEF Draft
<1>4. client[k].pc = "register" /\ UNCHANGED versions
  BY DEF CommitRegister
<1>. QED  BY <1>1, <1>3, <1>4, InsertDraftIInv

(* What the UPDATE of the changed columns makes of a row. *)
LEMMA WrittenFit ==
  ASSUME NEW d \in Draft, NEW row \in Draft, Coherent(d.review), Coherent(row.review), NEW columns
  PROVE  /\ Written(d, row, columns) \in Draft
         /\ Written(d, row, columns).id = d.id
         /\ Written(d, row, columns).connector = d.connector
         /\ Written(d, row, columns).source = d.source
         /\ Written(d, row, columns).upload = d.upload
         /\ Written(d, row, columns).revision = row.revision
         /\ Coherent(Written(d, row, columns).review)
<1> DEFINE review == IF "review" \in columns THEN row.review ELSE d.review
           version == IF "version" \in columns THEN row.version ELSE d.version
           base == IF "base" \in columns THEN row.base ELSE d.base
           new == Written(d, row, columns)
<1>1. /\ review \in Review /\ Coherent(review) /\ version \in Nat /\ base \in {"present", "missing"}
      /\ row.revision \in Nat
  BY DEF Draft
<1>2. new = [d EXCEPT !.revision = row.revision, !.review = review, !.version = version, !.base = base]
  BY DEF Written, Draft
<1> HIDE DEF review, version, base, new
<1>3. /\ new \in Draft
      /\ new.id = d.id /\ new.connector = d.connector /\ new.source = d.source
      /\ new.upload = d.upload /\ new.revision = row.revision
      /\ new.review = review
  BY <1>1, <1>2 DEF Draft
<1>. QED  BY <1>1, <1>3 DEF new

(* CommitUpdate rewrites one row, of whichever draft now has the id. *)
LEMMA CommitUpdateIInv ==
  ASSUME IInv, NEW k \in Clients, CommitUpdate(k)
  PROVE  IInv'
<1>1. PICK row \in client[k].row, d \in drafts :
        /\ drafts' = (drafts \ {d}) \cup {Written(d, row, client[k].columns)}
        /\ client' = [client EXCEPT ![k] = Idle({row})]
  BY DEF CommitUpdate
<1>2. client[k].pc = "update" /\ UNCHANGED <<connectors, versions, uploads>>
  BY DEF CommitUpdate
<1> DEFINE new == Written(d, row, client[k].columns)
<1>3. /\ client \in [Clients -> Client] /\ uploads \in Nat /\ drafts \in SUBSET Draft
      /\ row \in Draft /\ d \in Draft
  BY DEF IInv, Types, Client
<1>4. Coherent(row.review) /\ Coherent(d.review)
  BY DEF IInv, RequestsOK, RequestOK, DraftRows
<1>5. /\ new \in Draft /\ new.id = d.id /\ new.connector = d.connector /\ new.upload = d.upload
      /\ Coherent(new.review)
  BY <1>3, <1>4, WrittenFit
<1> HIDE DEF new
<1>6. drafts' = (drafts \ {d}) \cup {new}
  BY <1>1 DEF new
<1>7. Types'
  <2>1. Idle({row}) \in Client
    BY <1>3, IdleOK
  <2>2. client' \in [Clients -> Client]
    BY <1>1, <1>3, <2>1
  <2>. QED  BY <1>2, <1>3, <1>5, <1>6, <2>2 DEF IInv, Types
<1>8. DraftRows'
  <2>1. \A e \in drafts' : /\ e.connector \in connectors /\ Coherent(e.review)
                           /\ e.id <= uploads /\ e.upload <= uploads
    BY <1>5, <1>6 DEF IInv, DraftRows
  <2>2. \A e, f \in drafts \ {d} : e.connector = f.connector \/ e.id = f.id \/ e.upload = f.upload => e = f
    BY DEF IInv, DraftRows
  <2>3. \A e \in drafts \ {d} : e.connector # new.connector /\ e.id # new.id /\ e.upload # new.upload
    BY <1>5 DEF IInv, DraftRows
  <2>. QED  BY <1>2, <1>6, <2>1, <2>2, <2>3 DEF DraftRows
<1>9. RequestsOK'
  <2>1. \A e \in drafts' : \E f \in drafts : f.upload = e.upload /\ f.id = e.id
    BY <1>5, <1>6
  <2>2. uploads <= uploads' /\ {row} \in SUBSET Draft
    BY <1>2, <1>3
  <2>. QED  BY <1>1, <1>7, <2>1, <2>2, RequestsAfterCommit
<1>10. UploadsBounded'
  <2>1. Cardinality(Registering') = Cardinality(Registering)
    BY <1>1, <1>2, RegisteringAfterCommit
  <2>. QED  BY <1>2, <2>1 DEF IInv, UploadsBounded
<1>11. PublishedDraftConsumed'
  BY <1>2, <1>5, <1>6 DEF IInv, PublishedDraftConsumed
<1>12. VersionsRegistered' /\ VersionNumbersUnique' /\ PublishedReady'
  BY <1>2 DEF IInv, VersionsRegistered, VersionNumbersUnique, PublishedReady
<1>. QED  BY <1>7, <1>8, <1>9, <1>10, <1>11, <1>12 DEF IInv

(* What a published document is made of. *)
LEMMA DocumentFit ==
  ASSUME NEW row \in Draft, NEW v \in Nat
  PROVE  /\ Document(row, v) \in Version
         /\ Document(row, v).version = v
         /\ Document(row, v).upload = row.upload
         /\ Document(row, v).source = row.source
         /\ Document(row, v).base = row.base
         /\ Document(row, v).disabled = FALSE
         /\ DOMAIN Document(row, v).tools = Included(row.review)
         /\ \A op \in Included(row.review) : Document(row, v).tools[op] = row.review[op]
<1> DEFINE tools == [op \in Included(row.review) |-> row.review[op]]
<1>1. row.review \in Review
  BY DEF Draft
<1>2. row.review \in [DOMAIN row.review -> Entry] /\ DOMAIN row.review \subseteq Operations
  BY <1>1, ReviewParts
<1>3. Included(row.review) \subseteq DOMAIN row.review
  BY DEF Included
<1>4. tools \in [Included(row.review) -> Entry]
  BY <1>2, <1>3
<1>5. DOMAIN tools = Included(row.review) /\ \A op \in Included(row.review) : tools[op] = row.review[op]
  OBVIOUS
<1>6. tools \in Review
  BY <1>2, <1>3, <1>4, <1>5, ReviewParts
<1>7. Document(row, v) = [version |-> v, source |-> row.source, upload |-> row.upload,
                          base |-> row.base, tools |-> tools, disabled |-> FALSE]
  BY DEF Document
<1> HIDE DEF tools
<1>. QED  BY <1>5, <1>6, <1>7 DEF Version, Draft

(* A document that passed review_readiness is as PublishedReady says. *)
LEMMA ReadyDocument ==
  ASSUME NEW row \in Draft, NEW v \in Nat, Ready(row), Coherent(row.review)
  PROVE  LET document == Document(row, v)
         IN /\ document.base = "present"
            /\ DOMAIN document.tools # {}
            /\ DOMAIN document.tools \subseteq Analysis[document.source].operations
            /\ \A op \in DOMAIN document.tools :
                 /\ document.tools[op].origin # "generated"
                 /\ (document.tools[op].access = "restricted") <=> (document.tools[op].roles = "some")
<1> DEFINE document == Document(row, v)
           ops == Included(row.review)
<1>1. ops \subseteq DOMAIN row.review
  BY DEF Included
<1>2. /\ document.source = row.source /\ document.base = row.base
      /\ DOMAIN document.tools = ops
      /\ \A op \in ops : document.tools[op] = row.review[op]
  BY DocumentFit, Zenon
<1>3. row.base = "present" /\ ops # {} /\ DOMAIN row.review = Analysis[row.source].operations
  BY Zenon DEF Ready
<1>4. \A op \in ops : row.review[op].origin # "generated"
  BY Zenon DEF Ready
<1>5. \A op \in ops : (row.review[op].access = "restricted") <=> (row.review[op].roles = "some")
  BY <1>1, Zenon DEF Coherent
<1> HIDE DEF document, ops
<1>6. \A op \in DOMAIN document.tools :
        /\ document.tools[op].origin # "generated"
        /\ (document.tools[op].access = "restricted") <=> (document.tools[op].roles = "some")
  BY <1>2, <1>4, <1>5
<1>. QED  BY <1>1, <1>2, <1>3, <1>6 DEF document

(* FlushPublish appends a document and deletes the draft. *)
LEMMA FlushPublishIInv ==
  ASSUME IInv, NEW k \in Clients, FlushPublish(k)
  PROVE  IInv'
<1>1. PICK row \in client[k].row :
        /\ VersionFree(row.connector, client[k].version)
        /\ versions' = [versions EXCEPT ![row.connector] = Append(@, Document(row, client[k].version))]
        /\ drafts' = {d \in drafts : d.id # row.id}
  BY DEF FlushPublish
<1>2. client[k].pc = "flush" /\ client' = [client EXCEPT ![k] = Idle({})] /\ UNCHANGED <<connectors, uploads>>
  BY DEF FlushPublish
<1> DEFINE v == client[k].version
           c == row.connector
           document == Document(row, v)
           n == Len(versions[c])
<1>3. /\ client \in [Clients -> Client] /\ uploads \in Nat /\ drafts \in SUBSET Draft
      /\ versions \in [Connectors -> Seq(Version)] /\ connectors \subseteq Connectors
      /\ row \in Draft /\ v \in Nat /\ c \in Connectors
  BY DEF IInv, Types, Client, Draft
<1>4. /\ Coherent(row.review) /\ Ready(row) /\ row.upload <= uploads
      /\ \A d \in drafts : d.upload = row.upload => d.id = row.id
  BY <1>2 DEF IInv, RequestsOK, RequestOK
<1>5. document \in Version /\ document.version = v /\ document.upload = row.upload
  BY <1>3, DocumentFit
<1>6. /\ versions' \in [Connectors -> Seq(Version)]
      /\ \A b \in Connectors \ {c} : versions'[b] = versions[b]
      /\ n \in Nat /\ DOMAIN versions[c] = 1..n /\ DOMAIN versions'[c] = 1..(n + 1)
      /\ versions'[c][n + 1] = document
      /\ \A i \in 1..n : versions'[c][i] = versions[c][i]
  <2>1. versions' = [versions EXCEPT ![c] = Append(versions[c], document)]
    BY <1>1
  <2>2. versions[c] \in Seq(Version)
    BY <1>3
  <2> HIDE DEF document
  <2>3. Append(versions[c], document) \in Seq(Version)
    BY <1>5, <2>2
  <2>4. versions'[c] = Append(versions[c], document)
    BY <1>3, <2>1
  <2>. QED  BY <1>3, <1>5, <2>1, <2>2, <2>3, <2>4
<1>7. \A b \in Connectors : \A i \in DOMAIN versions'[b] :
        \/ i \in DOMAIN versions[b] /\ versions'[b][i] = versions[b][i]
        \/ b = c /\ i = n + 1 /\ versions'[b][i] = document
  <2> SUFFICES ASSUME NEW b \in Connectors, NEW i \in DOMAIN versions'[b]
               PROVE  \/ i \in DOMAIN versions[b] /\ versions'[b][i] = versions[b][i]
                      \/ b = c /\ i = n + 1 /\ versions'[b][i] = document
    OBVIOUS
  <2> HIDE DEF document, n
  <2>1. CASE b # c
    BY <1>6, <2>1
  <2>2. CASE b = c
    <3>1. i \in 1..n \/ i = n + 1
      BY <1>6, <2>2
    <3>. QED  BY <1>6, <2>2, <3>1
  <2>. QED  BY <2>1, <2>2
<1>8. Types'
  <2>1. Idle({}) \in Client
    BY IdleOK
  <2>2. client' \in [Clients -> Client]
    BY <1>2, <1>3, <2>1
  <2>. QED  BY <1>1, <1>2, <1>3, <1>6, <2>2 DEF Types
<1>9. DraftRows'
  BY <1>1, <1>2 DEF IInv, DraftRows
<1>10. RequestsOK'
  <2>1. \A d \in drafts' : \E e \in drafts : e.upload = d.upload /\ e.id = d.id
    BY <1>1
  <2>2. uploads <= uploads' /\ {} \in SUBSET Draft
    BY <1>2, <1>3
  <2>. QED  BY <1>2, <1>8, <2>1, <2>2, RequestsAfterCommit
<1>11. UploadsBounded'
  <2>1. Cardinality(Registering') = Cardinality(Registering)
    BY <1>2, RegisteringAfterCommit
  <2>. QED  BY <1>2, <2>1 DEF IInv, UploadsBounded
<1> HIDE DEF document, v, n, c
<1>12. VersionsRegistered'
  BY <1>2, <1>4, <1>5, <1>7 DEF IInv, VersionsRegistered
<1>13. VersionNumbersUnique'
  <2> SUFFICES ASSUME NEW b \in Connectors, NEW i \in DOMAIN versions'[b], NEW j \in DOMAIN versions'[b],
                      versions'[b][i].version = versions'[b][j].version
               PROVE  i = j
    BY DEF VersionNumbersUnique
  <2>1. \A h \in DOMAIN versions[c] : versions[c][h].version # v
    BY <1>1 DEF VersionFree, PublishedVersions, v, c
  <2>. QED  BY <1>5, <1>7, <2>1 DEF IInv, VersionNumbersUnique
<1>14. PublishedDraftConsumed'
  BY <1>1, <1>4, <1>5, <1>7 DEF IInv, PublishedDraftConsumed
<1>15. PublishedReady'
  <2> SUFFICES ASSUME NEW b \in Connectors, NEW i \in DOMAIN versions'[b]
               PROVE  LET d == versions'[b][i]
                      IN /\ d.base = "present"
                         /\ DOMAIN d.tools # {}
                         /\ DOMAIN d.tools \subseteq Analysis[d.source].operations
                         /\ \A op \in DOMAIN d.tools :
                              /\ d.tools[op].origin # "generated"
                              /\ (d.tools[op].access = "restricted") <=> (d.tools[op].roles = "some")
    BY DEF PublishedReady
  <2>1. CASE i \in DOMAIN versions[b] /\ versions'[b][i] = versions[b][i]
    BY <2>1 DEF IInv, PublishedReady
  <2>2. CASE versions'[b][i] = document
    BY <1>3, <1>4, <2>2, ReadyDocument DEF document
  <2>. QED  BY <1>7, <2>1, <2>2
<1>. QED  BY <1>8, <1>9, <1>10, <1>11, <1>12, <1>13, <1>14, <1>15 DEF IInv

(* DisableVersion changes one column of one row. *)
LEMMA DisableVersionStep ==
  ASSUME Types, NEW c \in Connectors, NEW i, DisableVersion(c, i)
  PROVE  /\ versions' \in [Connectors -> Seq(Version)]
         /\ \A b \in Connectors : DOMAIN versions'[b] = DOMAIN versions[b]
         /\ \A b \in Connectors : \A j \in DOMAIN versions[b] :
              \/ versions'[b][j] = versions[b][j]
              \/ versions'[b][j] = [versions[b][j] EXCEPT !.disabled = TRUE]
<1> DEFINE old == versions[c][i]
           new == [old EXCEPT !.disabled = TRUE]
           line == [versions[c] EXCEPT ![i] = new]
<1>1. /\ versions \in [Connectors -> Seq(Version)] /\ versions[c] \in Seq(Version)
      /\ i \in DOMAIN versions[c]
  BY DEF Types, DisableVersion
<1>2. versions' = [versions EXCEPT ![c] = line]
  BY <1>1 DEF DisableVersion
<1>3. old \in Version
  BY <1>1
<1>4. new \in Version
  BY <1>3 DEF Version
<1> HIDE DEF new
<1>5. line \in Seq(Version) /\ DOMAIN line = DOMAIN versions[c]
  BY <1>1, <1>4
<1>6. line[i] = new /\ \A j \in DOMAIN versions[c] \ {i} : line[j] = versions[c][j]
  BY <1>1
<1> HIDE DEF line
<1>7. versions'[c] = line /\ \A b \in Connectors \ {c} : versions'[b] = versions[b]
  BY <1>1, <1>2
<1>8. versions' \in [Connectors -> Seq(Version)]
  BY <1>1, <1>2, <1>5
<1>. QED  BY <1>5, <1>6, <1>7, <1>8 DEF new

(* DisableVersion leaves what the invariant says of the rows. *)
LEMMA DisableVersionIInv ==
  ASSUME IInv, NEW c \in Connectors, NEW i, DisableVersion(c, i)
  PROVE  IInv'
<1>1. UNCHANGED <<connectors, drafts, uploads, client>>
  BY DEF DisableVersion
<1>2. /\ versions' \in [Connectors -> Seq(Version)]
      /\ \A b \in Connectors : DOMAIN versions'[b] = DOMAIN versions[b]
      /\ \A b \in Connectors : \A j \in DOMAIN versions[b] :
           \/ versions'[b][j] = versions[b][j]
           \/ versions'[b][j] = [versions[b][j] EXCEPT !.disabled = TRUE]
  BY DisableVersionStep DEF IInv
<1>3. \A b \in Connectors : \A j \in DOMAIN versions[b] :
        /\ versions'[b][j].version = versions[b][j].version
        /\ versions'[b][j].source = versions[b][j].source
        /\ versions'[b][j].upload = versions[b][j].upload
        /\ versions'[b][j].base = versions[b][j].base
        /\ versions'[b][j].tools = versions[b][j].tools
  <2> SUFFICES ASSUME NEW b \in Connectors, NEW j \in DOMAIN versions[b]
               PROVE  /\ versions'[b][j].version = versions[b][j].version
                      /\ versions'[b][j].source = versions[b][j].source
                      /\ versions'[b][j].upload = versions[b][j].upload
                      /\ versions'[b][j].base = versions[b][j].base
                      /\ versions'[b][j].tools = versions[b][j].tools
    OBVIOUS
  <2> DEFINE old == versions[b][j]
  <2>1. old \in Version
    BY DEF IInv, Types
  <2> HIDE DEF old
  <2>2. /\ [old EXCEPT !.disabled = TRUE].version = old.version
        /\ [old EXCEPT !.disabled = TRUE].source = old.source
        /\ [old EXCEPT !.disabled = TRUE].upload = old.upload
        /\ [old EXCEPT !.disabled = TRUE].base = old.base
        /\ [old EXCEPT !.disabled = TRUE].tools = old.tools
    BY <2>1 DEF Version
  <2>3. versions'[b][j] = old \/ versions'[b][j] = [old EXCEPT !.disabled = TRUE]
    BY <1>2 DEF old
  <2>. QED  BY <2>2, <2>3 DEF old
<1>4. Types'
  BY <1>1, <1>2 DEF IInv, Types
<1>5. DraftRows' /\ RequestsOK'
  BY <1>1 DEF IInv, DraftRows, RequestsOK
<1>6. UploadsBounded'
  BY <1>1 DEF IInv, UploadsBounded, Registering
<1>7. VersionsRegistered' /\ PublishedDraftConsumed'
  <2>1. VersionsRegistered'
    BY <1>1, <1>2, <1>3 DEF IInv, VersionsRegistered
  <2>2. PublishedDraftConsumed'
    BY <1>1, <1>2, <1>3 DEF IInv, PublishedDraftConsumed
  <2>. QED  BY <2>1, <2>2
<1>8. VersionNumbersUnique'
  BY <1>2, <1>3 DEF IInv, VersionNumbersUnique
<1>9. PublishedReady'
  BY <1>2, <1>3 DEF IInv, PublishedReady
<1>. QED  BY <1>4, <1>5, <1>6, <1>7, <1>8, <1>9 DEF IInv

(* Nothing changes, nothing breaks. *)
LEMMA StutterIInv ==
  ASSUME IInv, UNCHANGED vars
  PROVE  IInv'
<1>1. Types' /\ DraftRows' /\ RequestsOK'
  BY DEF IInv, vars, Types, DraftRows, RequestsOK
<1>2. UploadsBounded' /\ VersionsRegistered' /\ VersionNumbersUnique'
  BY DEF IInv, vars, UploadsBounded, Registering, VersionsRegistered, VersionNumbersUnique
<1>3. PublishedDraftConsumed' /\ PublishedReady'
  BY DEF IInv, vars, PublishedDraftConsumed, PublishedReady
<1>. QED  BY <1>1, <1>2, <1>3 DEF IInv

(* Every step keeps the invariant. *)
LEMMA NextIInv == IInv /\ [Next]_vars => IInv'
<1> SUFFICES ASSUME IInv, [Next]_vars PROVE IInv'
  OBVIOUS
<1>1. CASE \E k \in Clients, c \in Connectors, s \in Sources, v \in 0..MaxVersion : RegisterAgain(k, c, s, v)
  BY <1>1, RegisterAgainIInv
<1>2. CASE \E k \in Clients, c \in Connectors, s \in Sources, v \in 0..MaxVersion : BeginRegister(k, c, s, v)
  BY <1>2, BeginRegisterIInv
<1>3. CASE \E k \in Clients : CommitRegister(k)
  BY <1>3, CommitRegisterIInv
<1>4. CASE \E k \in Clients, c \in Connectors : GetDraft(k, c)
  BY <1>4, GetDraftIInv
<1>5. CASE \E k \in Clients, edit \in Edits : BeginUpdate(k, edit)
  BY <1>5, BeginUpdateIInv
<1>6. CASE \E k \in Clients : CommitUpdate(k)
  BY <1>6, CommitUpdateIInv
<1>7. CASE \E k \in Clients, v \in 0..MaxVersion : BeginPublish(k, v)
  BY <1>7, BeginPublishIInv
<1>8. CASE \E k \in Clients : CheckPublish(k)
  BY <1>8, CheckPublishIInv
<1>9. CASE \E k \in Clients : FlushPublish(k)
  BY <1>9, FlushPublishIInv
<1>10. CASE \E c \in Connectors, i \in 1..MaxVersion : DisableVersion(c, i)
  BY <1>10, DisableVersionIInv
<1>11. CASE \E k \in Clients : AbandonRequest(k)
  BY <1>11, AbandonRequestIInv
<1>12. CASE UNCHANGED vars
  BY <1>12, StutterIInv
<1>. QED  BY <1>1, <1>2, <1>3, <1>4, <1>5, <1>6, <1>7, <1>8, <1>9, <1>10, <1>11, <1>12 DEF Next

(* The invariant holds in every reachable state. *)
LEMMA IInvHolds == Spec => []IInv
BY InitIInv, NextIInv, PTL DEF Spec

-----------------------------------------------------------------------------
(* What follows for requests that overlap in any way. *)

(* The tables hold what TypeOK says. *)
LEMMA IInvTypeOK == IInv => TypeOK
<1> SUFFICES ASSUME IInv PROVE TypeOK
  OBVIOUS
<1>1. \A d \in drafts : d \in Draft /\ d.connector \in connectors
  BY DEF IInv, Types, DraftRows
<1>2. \A d, e \in drafts : d.connector = e.connector \/ d.id = e.id => d = e
  BY DEF IInv, DraftRows
<1>3. \A c \in Connectors : \A i \in DOMAIN versions[c] : versions[c][i] \in Version
  BY DEF IInv, Types
<1>4. uploads \in 0..MaxUploads + Cardinality(Clients)
  BY RegisteringFinite, BoundsAssumption DEF IInv, Types, UploadsBounded
<1>5. ASSUME NEW k \in Clients
      PROVE  /\ client[k].pc \in {"idle", "register", "update", "publish", "flush"}
             /\ \A d \in client[k].view \cup client[k].row : d \in Draft
             /\ Cardinality(client[k].view) <= 1
             /\ Cardinality(client[k].row) = (IF client[k].pc = "idle" THEN 0 ELSE 1)
  <2>1. client[k] \in Client /\ RequestOK(client[k], drafts, uploads)
    BY DEF IInv, Types, RequestsOK
  <2>2. Cardinality({}) = 0 /\ \A d : Cardinality({d}) = 1
    BY FS_EmptySet, FS_Singleton
  <2>3. Cardinality(client[k].view) <= 1
    <3>1. client[k].view = {} \/ \E d : client[k].view = {d}
      BY <2>1 DEF RequestOK
    <3>2. Cardinality(client[k].view) \in {0, 1}
      BY <2>2, <3>1
    <3>. QED  BY <3>2
  <2>4. Cardinality(client[k].row) = (IF client[k].pc = "idle" THEN 0 ELSE 1)
    BY <2>1, <2>2 DEF RequestOK
  <2>. QED  BY <2>1, <2>3, <2>4 DEF Client
<1>6. connectors \subseteq Connectors
  BY DEF IInv, Types
<1>. QED  BY <1>1, <1>2, <1>3, <1>4, <1>5, <1>6 DEF TypeOK

(* However the registrations, edits and publications of any number of      *)
(* clients overlap (service.py on SQLite), the tables hold rows of their   *)
(* kinds, one draft per connector and id, one document per version number, *)
(* and no draft of a registration that is published.                       *)
THEOREM TablesStayConsistent == Spec => []TablesConsistent
<1>1. IInv => TablesConsistent
  BY IInvTypeOK DEF IInv, TablesConsistent
<1>. QED  BY <1>1, IInvHolds, PTL

(* However requests overlap, what is published passed review_readiness and *)
(* names only operations of its own source document.                       *)
THEOREM PublicationsAreReady == Spec => []PublishedReady
<1>1. IInv => PublishedReady
  BY DEF IInv
<1>. QED  BY <1>1, IInvHolds, PTL

(* A published version is only ever disabled, and for good: no step of any *)
(* request rewrites, reorders or removes it.                               *)
THEOREM VersionsAreImmutable == Spec => VersionsImmutable
<1> DEFINE Kept(c, i) ==
             /\ i \in DOMAIN versions'[c]
             /\ [versions'[c][i] EXCEPT !.disabled = FALSE] = [versions[c][i] EXCEPT !.disabled = FALSE]
             /\ versions[c][i].disabled => versions'[c][i].disabled
<1>1. ASSUME IInv, [Next]_vars
      PROVE  [\A c \in Connectors : \A i \in DOMAIN versions[c] : Kept(c, i)]_vars
  <2> SUFFICES ASSUME NEW c \in Connectors, NEW i \in DOMAIN versions[c]
               PROVE  Kept(c, i)
    OBVIOUS
  <2>1. CASE UNCHANGED versions
    BY <2>1
  <2>2. CASE \E k \in Clients : FlushPublish(k)
    <3>1. PICK row, v : versions' = [versions EXCEPT ![row.connector] = Append(@, Document(row, v))]
      BY <2>2 DEF FlushPublish
    <3>2. versions \in [Connectors -> Seq(Version)] /\ versions[c] \in Seq(Version)
      BY <1>1 DEF IInv, Types
    <3>3. versions'[c] = versions[c] \/ versions'[c] = Append(versions[c], Document(row, v))
      BY <3>1, <3>2
    <3>4. i \in DOMAIN versions'[c] /\ versions'[c][i] = versions[c][i]
      BY <3>2, <3>3
    <3>. QED  BY <3>4
  <2>3. CASE \E b \in Connectors, j \in 1..MaxVersion : DisableVersion(b, j)
    <3> DEFINE old == versions[c][i]
    <3>1. PICK b \in Connectors, j \in 1..MaxVersion : DisableVersion(b, j)
      BY <2>3
    <3>2. /\ DOMAIN versions'[c] = DOMAIN versions[c]
          /\ versions'[c][i] = old \/ versions'[c][i] = [old EXCEPT !.disabled = TRUE]
      BY <1>1, <3>1, DisableVersionStep DEF IInv
    <3>3. old \in Version
      BY <1>1 DEF IInv, Types
    <3> HIDE DEF old
    <3>4. /\ [[old EXCEPT !.disabled = TRUE] EXCEPT !.disabled = FALSE] = [old EXCEPT !.disabled = FALSE]
          /\ [old EXCEPT !.disabled = TRUE].disabled
      BY <3>3 DEF Version
    <3>. QED  BY <3>2, <3>4 DEF old
  <2>4. \/ UNCHANGED versions
        \/ \E k \in Clients : FlushPublish(k)
        \/ \E b \in Connectors, j \in 1..MaxVersion : DisableVersion(b, j)
    BY <1>1 DEF Next, vars, RegisterAgain, BeginRegister, CommitRegister, GetDraft, BeginUpdate,
                CommitUpdate, BeginPublish, CheckPublish, AbandonRequest
  <2>. QED  BY <2>1, <2>2, <2>3, <2>4
<1>. QED  BY <1>1, IInvHolds, PTL DEF Spec, VersionsImmutable

-----------------------------------------------------------------------------
(* Requests that do not overlap. *)

(* At most one request is in its handler. *)
Alone == \A j, k \in Clients : client[j].pc # "idle" /\ client[k].pc # "idle" => j = k

(* An edit that is under way is of a row that is still in the table, one   *)
(* revision on, and the UPDATE of its changed columns stores all of it.    *)
EditPending(row, columns, rows) ==
  \E d \in rows :
    /\ d.id = row.id
    /\ d.upload = row.upload
    /\ row.revision = d.revision + 1
    /\ Written(d, row, columns) = row

(* v is higher than every version of a connector's line. *)
Above(v, line) == \A i \in DOMAIN line : v > line[i].version

(* A row as a client saw it is not ahead of the table, and equal to the    *)
(* stored one at the same revision.                                        *)
SeenOK(seen, rows, n) ==
  /\ seen.upload <= n
  /\ \A d \in rows : seen.upload = d.upload =>
       seen.revision <= d.revision /\ (seen.revision = d.revision => seen = d)

(* What the one request that is under way may rely on. *)
RequestsCurrent ==
  \A k \in Clients :
    /\ client[k].pc = "update" => \A row \in client[k].row : EditPending(row, client[k].columns, drafts)
    /\ client[k].pc = "flush" => \A row \in client[k].row : Above(client[k].version, versions[row.connector])

ViewsCurrent == \A k \in Clients : \A seen \in client[k].view : SeenOK(seen, drafts, uploads)

(* The inductive invariant behind RevisionIdentifiesContent and            *)
(* VersionsIncrease.                                                       *)
SequentialInv == IInv /\ Alone /\ RequestsCurrent /\ ViewsCurrent /\ VersionsIncrease

(* Nothing is under way at the start. *)
LEMMA InitSequential == Init => SequentialInv
<1> SUFFICES ASSUME Init PROVE SequentialInv
  OBVIOUS
<1>1. \A k \in Clients : client[k].pc = "idle" /\ client[k].view = {}
  BY DEF Init, Idle
<1>2. VersionsIncrease
  BY DEF Init, VersionsIncrease
<1>. QED  BY <1>1, <1>2, InitIInv DEF SequentialInv, Alone, RequestsCurrent, ViewsCurrent

(* The others of a request in its handler are idle. *)
OthersIdle(k) == \A j \in Clients \ {k} : client[j].pc = "idle"

(* With one request at a time, an arriving one finds all others idle, and  *)
(* one that is in its handler knows that they are.                         *)
LEMMA OthersAreIdle ==
  ASSUME MaxInFlight = 1, SequentialInv, NEW k \in Clients, Arrives(k) \/ client[k].pc # "idle"
  PROVE  OthersIdle(k)
<1>1. CASE client[k].pc # "idle"
  BY <1>1 DEF SequentialInv, Alone, OthersIdle
<1>2. CASE Arrives(k)
  <2> DEFINE busy == {j \in Clients : client[j].pc # "idle"}
  <2>1. IsFiniteSet(busy) /\ Cardinality(busy) \in Nat
    <3>1. busy \subseteq Clients
      OBVIOUS
    <3> HIDE DEF busy
    <3>. QED  BY <3>1, BoundsAssumption, FS_Subset, FS_CardinalityType
  <2>2. Cardinality(busy) < 1
    BY <1>2 DEF Arrives
  <2>3. Cardinality(busy) = 0
    BY <2>1, <2>2
  <2>4. busy = {}
    BY <2>1, <2>3, FS_EmptySet
  <2>. QED  BY <2>4 DEF OthersIdle
<1>. QED  BY <1>1, <1>2

(* A step of one client, while the others are idle. *)
LEMMA SequentialStep ==
  ASSUME SequentialInv, IInv', VersionsIncrease', NEW k \in Clients, OthersIdle(k),
         NEW q, client' = [client EXCEPT ![k] = q],
         q.pc = "update" => \A row \in q.row : EditPending(row, q.columns, drafts'),
         q.pc = "flush" => \A row \in q.row : Above(q.version, versions'[row.connector]),
         \A seen \in q.view : SeenOK(seen, drafts', uploads'),
         \A seen \in Draft : SeenOK(seen, drafts, uploads) => SeenOK(seen, drafts', uploads')
  PROVE  SequentialInv'
<1>1. client \in [Clients -> Client]
  BY DEF SequentialInv, IInv, Types
<1>2. client'[k] = q /\ \A j \in Clients \ {k} : client'[j] = client[j] /\ client[j].pc = "idle"
  BY <1>1 DEF OthersIdle
<1>3. Alone'
  BY <1>2 DEF Alone
<1>4. RequestsCurrent'
  <2> SUFFICES ASSUME NEW j \in Clients
               PROVE  /\ client'[j].pc = "update" =>
                           \A row \in client'[j].row : EditPending(row, client'[j].columns, drafts')
                      /\ client'[j].pc = "flush" =>
                           \A row \in client'[j].row : Above(client'[j].version, versions'[row.connector])
    BY DEF RequestsCurrent
  <2>1. CASE j = k
    BY <1>2, <2>1
  <2>2. CASE j # k
    BY <1>2, <2>2
  <2>. QED  BY <2>1, <2>2
<1>5. ViewsCurrent'
  <2> SUFFICES ASSUME NEW j \in Clients, NEW seen \in client'[j].view
               PROVE  SeenOK(seen, drafts', uploads')
    BY DEF ViewsCurrent
  <2>1. CASE j = k
    BY <1>2, <2>1
  <2>2. CASE j # k
    <3>1. seen \in client[j].view /\ seen \in Draft
      BY <1>1, <1>2, <2>2 DEF Client
    <3>. QED  BY <3>1 DEF SequentialInv, ViewsCurrent
  <2>. QED  BY <2>1, <2>2
<1>. QED  BY <1>3, <1>4, <1>5 DEF SequentialInv

(* The row that a client has just read or written is current. *)
LEMMA StoredIsSeen ==
  ASSUME IInv, NEW d \in drafts
  PROVE  SeenOK(d, drafts, uploads)
<1>1. d.revision \in Nat
  BY DEF IInv, Types, Draft
<1>2. d.upload <= uploads /\ \A e \in drafts : d.upload = e.upload => d = e
  BY DEF IInv, DraftRows
<1>. QED  BY <1>1, <1>2 DEF SeenOK

(* A registration commits while no other request is under way. *)
LEMMA InsertDraftSequential ==
  ASSUME SequentialInv, IInv', NEW k \in Clients, OthersIdle(k), UNCHANGED versions,
         NEW c, NEW s, NEW v, InsertDraft(k, c, s, v)
  PROVE  SequentialInv'
<1> DEFINE draft == NewDraft(c, s, v, drafts \ DraftOf(c))
<1>1. /\ drafts' = (drafts \ DraftOf(c)) \cup {draft} /\ uploads' = uploads + 1
      /\ client' = [client EXCEPT ![k] = Idle({draft})]
  BY DEF InsertDraft
<1>2. draft.upload = uploads + 1 /\ uploads \in Nat
  BY DEF NewDraft, SequentialInv, IInv, Types
<1> HIDE DEF draft
<1>3. VersionsIncrease'
  BY DEF SequentialInv, VersionsIncrease
<1>4. Idle({draft}).pc = "idle" /\ Idle({draft}).view = {draft}
  BY DEF Idle
<1>5. SeenOK(draft, drafts', uploads')
  <2>1. draft \in drafts'
    BY <1>1
  <2>2. draft.revision \in Nat /\ draft.upload <= uploads' /\ \A e \in drafts' : draft.upload = e.upload => draft = e
    BY <2>1 DEF IInv, Types, Draft, DraftRows
  <2>. QED  BY <2>2 DEF SeenOK
<1>6. ASSUME NEW seen \in Draft, SeenOK(seen, drafts, uploads)
      PROVE  SeenOK(seen, drafts', uploads')
  <2>1. seen.upload \in Nat /\ seen.upload <= uploads
    BY <1>6 DEF SeenOK, Draft
  <2>2. seen.upload <= uploads' /\ seen.upload # draft.upload
    BY <1>1, <1>2, <2>1
  <2>. QED  BY <1>1, <1>6, <2>2 DEF SeenOK
<1>. QED  BY <1>1, <1>3, <1>4, <1>5, <1>6, SequentialStep

(* A step that leaves the tables alone. *)
LEMMA TablesKeptSequential ==
  ASSUME SequentialInv, IInv', NEW k \in Clients, OthersIdle(k),
         UNCHANGED <<connectors, drafts, versions, uploads>>,
         NEW q, client' = [client EXCEPT ![k] = q],
         q.pc = "update" => \A row \in q.row : EditPending(row, q.columns, drafts),
         q.pc = "flush" => \A row \in q.row : Above(q.version, versions[row.connector]),
         \A seen \in q.view : SeenOK(seen, drafts, uploads)
  PROVE  SequentialInv'
<1>1. VersionsIncrease'
  BY DEF SequentialInv, VersionsIncrease
<1>2. drafts' = drafts /\ uploads' = uploads /\ versions' = versions
  OBVIOUS
<1>. QED  BY <1>1, <1>2, SequentialStep

(* What an edit changed is in the columns that its UPDATE writes. *)
LEMMA WrittenIsEdited ==
  ASSUME NEW d \in Draft, Coherent(d.review), NEW edit \in Edits,
         NEW columns,
         columns = {col \in {"review", "version", "base"} : Edited(d, edit)[col] # d[col]}
  PROVE  Written(d, Edited(d, edit), columns) = Edited(d, edit)
<1> DEFINE row == Edited(d, edit)
           new == Written(d, row, columns)
<1>1. /\ row \in Draft /\ row.id = d.id /\ row.connector = d.connector /\ row.source = d.source
      /\ row.upload = d.upload /\ Coherent(row.review)
  BY EditedFit
<1>2. /\ "review" \notin columns => row.review = d.review
      /\ "version" \notin columns => row.version = d.version
      /\ "base" \notin columns => row.base = d.base
  <2>1. row["review"] = row.review /\ row["version"] = row.version /\ row["base"] = row.base
    OBVIOUS
  <2> HIDE DEF row
  <2>. QED  BY DEF row
<1> HIDE DEF row
<1>3. /\ new \in Draft /\ new.id = d.id /\ new.connector = d.connector /\ new.source = d.source
      /\ new.upload = d.upload /\ new.revision = row.revision
  BY <1>1, WrittenFit
<1>4. new.review = row.review /\ new.version = row.version /\ new.base = row.base
  BY <1>2 DEF Written, Draft
<1> HIDE DEF new
<1>5. new = row
  BY <1>1, <1>3, <1>4 DEF Draft
<1>. QED  BY <1>5 DEF row, new

(* An edit begins. *)
LEMMA BeginUpdateSequential ==
  ASSUME SequentialInv, IInv', NEW k \in Clients, OthersIdle(k), NEW edit \in Edits, BeginUpdate(k, edit)
  PROVE  SequentialInv'
<1>1. client[k] \in Client /\ client \in [Clients -> Client] /\ drafts \subseteq Draft
  BY DEF SequentialInv, IInv, Types
<1>2. PICK d \in drafts :
        client' = [client EXCEPT ![k].pc = "update", ![k].row = {Edited(d, edit)},
          ![k].version = edit.version,
          ![k].columns = {col \in {"review", "version", "base"} : Edited(d, edit)[col] # d[col]}]
  BY DEF BeginUpdate, Edited
<1> DEFINE row == Edited(d, edit)
           columns == {col \in {"review", "version", "base"} : row[col] # d[col]}
           q == [client[k] EXCEPT !.pc = "update", !.row = {row}, !.version = edit.version,
                                  !.columns = columns]
<1>3. d \in Draft /\ Coherent(d.review)
  BY <1>1 DEF SequentialInv, IInv, DraftRows
<1>4. EditPending(row, columns, drafts)
  <2>1. row.id = d.id /\ row.upload = d.upload /\ row.revision = d.revision + 1
    BY <1>3, EditedFit
  <2>2. Written(d, row, columns) = row
    BY <1>3, WrittenIsEdited
  <2>. QED  BY <2>1, <2>2 DEF EditPending
<1>5. client' = [client EXCEPT ![k] = q]
  BY <1>1, <1>2
<1> HIDE DEF row, columns
<1>6. q.pc = "update" /\ q.row = {row} /\ q.columns = columns /\ q.view = client[k].view
  BY <1>1 DEF Client
<1>7. UNCHANGED <<connectors, drafts, versions, uploads>>
  BY DEF BeginUpdate
<1>8. \A seen \in q.view : SeenOK(seen, drafts, uploads)
  BY <1>6 DEF SequentialInv, ViewsCurrent
<1> HIDE DEF q
<1>. QED  BY <1>4, <1>5, <1>6, <1>7, <1>8, TablesKeptSequential

(* An edit commits: the row that it read is the one that it writes. *)
LEMMA CommitUpdateSequential ==
  ASSUME SequentialInv, IInv', NEW k \in Clients, OthersIdle(k), CommitUpdate(k)
  PROVE  SequentialInv'
<1>1. PICK row \in client[k].row, d \in drafts :
        /\ d.id = row.id
        /\ drafts' = (drafts \ {d}) \cup {Written(d, row, client[k].columns)}
        /\ client' = [client EXCEPT ![k] = Idle({row})]
  BY DEF CommitUpdate
<1>2. client[k].pc = "update" /\ UNCHANGED <<connectors, versions, uploads>>
  BY DEF CommitUpdate
<1>3. d.upload = row.upload /\ row.revision = d.revision + 1 /\ Written(d, row, client[k].columns) = row
  <2>1. EditPending(row, client[k].columns, drafts)
    BY <1>2 DEF SequentialInv, RequestsCurrent
  <2>2. \A e \in drafts : e.id = row.id => e = d
    BY <1>1 DEF SequentialInv, IInv, DraftRows
  <2>. QED  BY <2>1, <2>2 DEF EditPending
<1>4. drafts' = (drafts \ {d}) \cup {row}
  BY <1>1, <1>3
<1>5. d \in Draft /\ d.revision \in Nat /\ uploads \in Nat
  BY DEF SequentialInv, IInv, Types, Draft
<1>6. VersionsIncrease'
  BY <1>2 DEF SequentialInv, VersionsIncrease
<1>7. Idle({row}).pc = "idle" /\ Idle({row}).view = {row}
  BY DEF Idle
<1>8. SeenOK(row, drafts', uploads')
  <2>1. row \in drafts'
    BY <1>4
  <2>2. row.revision \in Nat /\ row.upload <= uploads' /\ \A e \in drafts' : row.upload = e.upload => row = e
    BY <2>1 DEF IInv, Types, Draft, DraftRows
  <2>. QED  BY <2>2 DEF SeenOK
<1>9. ASSUME NEW seen \in Draft, SeenOK(seen, drafts, uploads)
      PROVE  SeenOK(seen, drafts', uploads')
  <2>1. seen.revision \in Nat
    BY DEF Draft
  <2>2. seen.upload = row.upload => seen.revision <= row.revision /\ seen.revision # row.revision
    <3>1. seen.upload = row.upload => seen.revision <= d.revision
      BY <1>3, <1>9 DEF SeenOK
    <3>. QED  BY <1>3, <1>5, <2>1, <3>1
  <2>3. seen.upload <= uploads'
    BY <1>2, <1>9 DEF SeenOK
  <2>4. \A e \in drafts \ {d} : seen.upload = e.upload =>
          seen.revision <= e.revision /\ (seen.revision = e.revision => seen = e)
    BY <1>9 DEF SeenOK
  <2>. QED  BY <1>4, <2>2, <2>3, <2>4 DEF SeenOK
<1>. QED  BY <1>1, <1>6, <1>7, <1>8, <1>9, SequentialStep

(* A publication is checked. *)
LEMMA CheckPublishSequential ==
  ASSUME SequentialInv, IInv', NEW k \in Clients, OthersIdle(k), CheckPublish(k)
  PROVE  SequentialInv'
<1> DEFINE q == [client[k] EXCEPT !.pc = "flush"]
<1>1. client[k] \in Client /\ client \in [Clients -> Client]
  BY DEF SequentialInv, IInv, Types
<1>2. client' = [client EXCEPT ![k] = q] /\ UNCHANGED <<connectors, drafts, versions, uploads>>
  BY <1>1 DEF CheckPublish
<1>3. q.pc = "flush" /\ q.row = client[k].row /\ q.view = client[k].view /\ q.version = client[k].version
  BY <1>1 DEF Client
<1> HIDE DEF q
<1>4. PICK row \in client[k].row : Exceeds(row.connector, client[k].version)
  BY DEF CheckPublish
<1>5. client[k].row = {row}
  <2>1. client[k].pc = "publish" /\ RequestOK(client[k], drafts, uploads)
    BY DEF CheckPublish, SequentialInv, IInv, RequestsOK
  <2>2. \E d \in client[k].row : client[k].row = {d}
    BY <2>1 DEF RequestOK
  <2>. QED  BY <2>2
<1>6. Above(q.version, versions[row.connector])
  BY <1>3, <1>4 DEF Above, Exceeds, PublishedVersions
<1>7. \A seen \in q.view : SeenOK(seen, drafts, uploads)
  BY <1>3 DEF SequentialInv, ViewsCurrent
<1>. QED  BY <1>2, <1>3, <1>5, <1>6, <1>7, TablesKeptSequential

(* A publication commits the version that was checked. *)
LEMMA FlushPublishSequential ==
  ASSUME SequentialInv, IInv', NEW k \in Clients, OthersIdle(k), FlushPublish(k)
  PROVE  SequentialInv'
<1>1. PICK row \in client[k].row :
        /\ versions' = [versions EXCEPT ![row.connector] = Append(@, Document(row, client[k].version))]
        /\ drafts' = {d \in drafts : d.id # row.id}
  BY DEF FlushPublish
<1>2. client[k].pc = "flush" /\ client' = [client EXCEPT ![k] = Idle({})] /\ uploads' = uploads
  BY DEF FlushPublish
<1> DEFINE v == client[k].version
           c == row.connector
           document == Document(row, v)
           n == Len(versions[c])
<1>3. /\ versions \in [Connectors -> Seq(Version)] /\ versions[c] \in Seq(Version)
      /\ row \in Draft /\ v \in Nat /\ c \in Connectors
  BY DEF SequentialInv, IInv, Types, Client, Draft
<1>4. document \in Version /\ document.version = v
  BY <1>3, DocumentFit
<1>5. Above(v, versions[c])
  BY <1>2 DEF SequentialInv, RequestsCurrent
<1>6. VersionsIncrease'
  <2> SUFFICES ASSUME NEW b \in Connectors, NEW i \in DOMAIN versions'[b], NEW j \in DOMAIN versions'[b],
                      i < j
               PROVE  versions'[b][i].version < versions'[b][j].version
    BY DEF VersionsIncrease
  <2> HIDE DEF document, v
  <2>1. CASE b # c
    <3>1. versions'[b] = versions[b]
      BY <1>1, <1>3, <2>1
    <3>. QED  BY <3>1 DEF SequentialInv, VersionsIncrease
  <2>2. CASE b = c
    <3>1. versions'[c] = Append(versions[c], document)
      BY <1>1, <1>3 DEF document, v
    <3>2. n \in Nat /\ DOMAIN versions[c] = 1..n /\ DOMAIN versions'[c] = 1..(n + 1)
      BY <1>3, <3>1
    <3>3. versions'[c][n + 1] = document /\ \A h \in 1..n : versions'[c][h] = versions[c][h]
      BY <1>3, <1>4, <3>1
    <3>4. i \in 1..n /\ (j \in 1..n \/ j = n + 1)
      BY <2>2, <3>2
    <3>5. CASE j \in 1..n
      BY <2>2, <3>2, <3>3, <3>4, <3>5 DEF SequentialInv, VersionsIncrease
    <3>6. CASE j = n + 1
      <4>1. versions[c][i].version \in Nat
        <5>1. versions[c][i] \in Version
          BY <1>3, <3>2, <3>4
        <5>. QED  BY <5>1 DEF Version
      <4>2. v > versions[c][i].version
        BY <1>5, <3>2, <3>4 DEF Above
      <4>. QED  BY <1>3, <1>4, <2>2, <3>3, <3>4, <3>6, <4>1, <4>2
    <3>. QED  BY <3>4, <3>5, <3>6
  <2>. QED  BY <2>1, <2>2
<1>7. Idle({}).pc = "idle" /\ Idle({}).view = {}
  BY DEF Idle
<1>8. \A seen \in Draft : SeenOK(seen, drafts, uploads) => SeenOK(seen, drafts', uploads')
  BY <1>1, <1>2 DEF SeenOK
<1>. QED  BY <1>2, <1>6, <1>7, <1>8, SequentialStep

(* DisableVersion leaves the version numbers. *)
LEMMA DisableVersionSequential ==
  ASSUME SequentialInv, IInv', NEW c \in Connectors, NEW i, DisableVersion(c, i)
  PROVE  SequentialInv'
<1>1. UNCHANGED <<connectors, drafts, uploads, client>>
  BY DEF DisableVersion
<1>2. \A b \in Connectors :
        /\ DOMAIN versions'[b] = DOMAIN versions[b]
        /\ \A j \in DOMAIN versions[b] : versions'[b][j].version = versions[b][j].version
  <2> SUFFICES ASSUME NEW b \in Connectors
               PROVE  /\ DOMAIN versions'[b] = DOMAIN versions[b]
                      /\ \A j \in DOMAIN versions[b] : versions'[b][j].version = versions[b][j].version
    OBVIOUS
  <2>1. /\ DOMAIN versions'[b] = DOMAIN versions[b]
        /\ \A j \in DOMAIN versions[b] :
             \/ versions'[b][j] = versions[b][j]
             \/ versions'[b][j] = [versions[b][j] EXCEPT !.disabled = TRUE]
    BY DisableVersionStep DEF SequentialInv, IInv
  <2>2. ASSUME NEW j \in DOMAIN versions[b] PROVE versions'[b][j].version = versions[b][j].version
    <3> DEFINE old == versions[b][j]
    <3>1. old \in Version
      BY DEF SequentialInv, IInv, Types
    <3> HIDE DEF old
    <3>2. [old EXCEPT !.disabled = TRUE].version = old.version
      BY <3>1 DEF Version
    <3>. QED  BY <2>1, <3>2 DEF old
  <2>. QED  BY <2>1, <2>2
<1>3. VersionsIncrease'
  BY <1>2 DEF SequentialInv, VersionsIncrease
<1>4. Alone' /\ ViewsCurrent'
  BY <1>1 DEF SequentialInv, Alone, ViewsCurrent
<1>5. RequestsCurrent'
  <2>1. \A k \in Clients : \A row \in client[k].row : row.connector \in Connectors
    BY DEF SequentialInv, IInv, Types, Client, Draft
  <2>2. \A b \in Connectors : \A v : Above(v, versions[b]) => Above(v, versions'[b])
    BY <1>2 DEF Above
  <2>. QED  BY <1>1, <2>1, <2>2 DEF SequentialInv, RequestsCurrent
<1>. QED  BY <1>3, <1>4, <1>5 DEF SequentialInv

(* Every step keeps the sequential invariant. *)
LEMMA NextSequential ==
  ASSUME MaxInFlight = 1
  PROVE  SequentialInv /\ [Next]_vars => SequentialInv'
<1> SUFFICES ASSUME SequentialInv, [Next]_vars PROVE SequentialInv'
  OBVIOUS
<1>0. IInv'
  BY NextIInv DEF SequentialInv
<1>1. ASSUME NEW k \in Clients, NEW c \in Connectors, NEW s \in Sources, NEW v \in 0..MaxVersion,
             RegisterAgain(k, c, s, v)
      PROVE  SequentialInv'
  <2>1. OthersIdle(k)
    BY <1>1, OthersAreIdle DEF RegisterAgain
  <2>2. UNCHANGED versions /\ InsertDraft(k, c, s, IF v = 0 THEN NextVersion(c) ELSE v)
    BY <1>1 DEF RegisterAgain
  <2>. QED  BY <1>0, <2>1, <2>2, InsertDraftSequential
<1>2. ASSUME NEW k \in Clients, NEW c \in Connectors, NEW s \in Sources, NEW v \in 0..MaxVersion,
             BeginRegister(k, c, s, v)
      PROVE  SequentialInv'
  <2> DEFINE q == [client[k] EXCEPT !.pc = "register", !.row = {NewDraft(c, s, IF v = 0 THEN 1 ELSE v, {})}]
  <2>1. OthersIdle(k)
    BY <1>2, OthersAreIdle DEF BeginRegister
  <2>2. client[k] \in Client /\ client \in [Clients -> Client]
    BY DEF SequentialInv, IInv, Types
  <2>3. client' = [client EXCEPT ![k] = q] /\ UNCHANGED <<connectors, drafts, versions, uploads>>
    BY <1>2, <2>2 DEF BeginRegister
  <2>4. q.pc = "register" /\ q.view = client[k].view
    BY <2>2 DEF Client
  <2>5. \A seen \in q.view : SeenOK(seen, drafts, uploads)
    BY <2>4 DEF SequentialInv, ViewsCurrent
  <2> HIDE DEF q
  <2>. QED  BY <1>0, <2>1, <2>3, <2>4, <2>5, TablesKeptSequential
<1>3. ASSUME NEW k \in Clients, CommitRegister(k)
      PROVE  SequentialInv'
  <2>1. OthersIdle(k) /\ UNCHANGED versions
    BY <1>3, OthersAreIdle DEF CommitRegister
  <2>2. PICK row \in client[k].row : InsertDraft(k, row.connector, row.source, row.version)
    BY <1>3 DEF CommitRegister
  <2>. QED  BY <1>0, <2>1, <2>2, InsertDraftSequential
<1>4. ASSUME NEW k \in Clients, NEW c \in Connectors, GetDraft(k, c)
      PROVE  SequentialInv'
  <2> DEFINE q == Idle(DraftOf(c))
  <2>1. OthersIdle(k)
    BY <1>4, OthersAreIdle DEF GetDraft
  <2>2. client' = [client EXCEPT ![k] = q] /\ UNCHANGED <<connectors, drafts, versions, uploads>>
    BY <1>4 DEF GetDraft
  <2>3. q.pc = "idle" /\ q.view \subseteq drafts
    BY DEF Idle, DraftOf
  <2>4. \A seen \in q.view : SeenOK(seen, drafts, uploads)
    BY <2>3, StoredIsSeen DEF SequentialInv
  <2> HIDE DEF q
  <2>. QED  BY <1>0, <2>1, <2>2, <2>3, <2>4, TablesKeptSequential
<1>5. ASSUME NEW k \in Clients, NEW edit \in Edits, BeginUpdate(k, edit)
      PROVE  SequentialInv'
  <2>1. OthersIdle(k)
    BY <1>5, OthersAreIdle DEF BeginUpdate
  <2>. QED  BY <1>0, <1>5, <2>1, BeginUpdateSequential
<1>6. ASSUME NEW k \in Clients, CommitUpdate(k)
      PROVE  SequentialInv'
  <2>1. OthersIdle(k)
    BY <1>6, OthersAreIdle DEF CommitUpdate
  <2>. QED  BY <1>0, <1>6, <2>1, CommitUpdateSequential
<1>7. ASSUME NEW k \in Clients, NEW v \in 0..MaxVersion, BeginPublish(k, v)
      PROVE  SequentialInv'
  <2>1. OthersIdle(k)
    BY <1>7, OthersAreIdle DEF BeginPublish
  <2>2. client[k] \in Client /\ client \in [Clients -> Client]
    BY DEF SequentialInv, IInv, Types
  <2>3. PICK d \in drafts :
          client' = [client EXCEPT ![k].pc = "publish", ![k].row = {d},
                                   ![k].version = IF v = 0 THEN d.version ELSE v]
    BY <1>7 DEF BeginPublish
  <2> DEFINE q == [client[k] EXCEPT !.pc = "publish", !.row = {d},
                                    !.version = IF v = 0 THEN d.version ELSE v]
  <2>4. client' = [client EXCEPT ![k] = q] /\ UNCHANGED <<connectors, drafts, versions, uploads>>
    BY <1>7, <2>2, <2>3 DEF BeginPublish
  <2>5. q.pc = "publish" /\ q.view = client[k].view
    BY <2>2 DEF Client
  <2>6. \A seen \in q.view : SeenOK(seen, drafts, uploads)
    BY <2>5 DEF SequentialInv, ViewsCurrent
  <2> HIDE DEF q
  <2>. QED  BY <1>0, <2>1, <2>4, <2>5, <2>6, TablesKeptSequential
<1>8. ASSUME NEW k \in Clients, CheckPublish(k)
      PROVE  SequentialInv'
  <2>1. OthersIdle(k)
    BY <1>8, OthersAreIdle DEF CheckPublish
  <2>. QED  BY <1>0, <1>8, <2>1, CheckPublishSequential
<1>9. ASSUME NEW k \in Clients, FlushPublish(k)
      PROVE  SequentialInv'
  <2>1. OthersIdle(k)
    BY <1>9, OthersAreIdle DEF FlushPublish
  <2>. QED  BY <1>0, <1>9, <2>1, FlushPublishSequential
<1>10. ASSUME NEW k \in Clients, AbandonRequest(k)
       PROVE  SequentialInv'
  <2> DEFINE q == Idle(client[k].view)
  <2>1. OthersIdle(k)
    BY <1>10, OthersAreIdle DEF AbandonRequest
  <2>2. client' = [client EXCEPT ![k] = q] /\ UNCHANGED <<connectors, drafts, versions, uploads>>
    BY <1>10 DEF AbandonRequest
  <2>3. q.pc = "idle" /\ q.view = client[k].view
    BY DEF Idle
  <2>4. \A seen \in q.view : SeenOK(seen, drafts, uploads)
    BY <2>3 DEF SequentialInv, ViewsCurrent
  <2> HIDE DEF q
  <2>. QED  BY <1>0, <2>1, <2>2, <2>3, <2>4, TablesKeptSequential
<1>11. CASE UNCHANGED vars
  BY <1>0, <1>11 DEF SequentialInv, vars, Alone, RequestsCurrent, ViewsCurrent, VersionsIncrease
<1>. QED
  BY <1>0, <1>1, <1>2, <1>3, <1>4, <1>5, <1>6, <1>7, <1>8, <1>9, <1>10, <1>11, DisableVersionSequential DEF Next

(* The sequential invariant holds in every reachable state. *)
LEMMA SequentialInvHolds == ASSUME MaxInFlight = 1 PROVE Spec => []SequentialInv
BY InitSequential, NextSequential, PTL DEF Spec

(* If requests do not overlap, versions are published in their order:      *)
(* _reject_version_regression compares with all that is published, and     *)
(* nothing is published before the flush.                                  *)
THEOREM SequentialVersionsIncrease == ASSUME MaxInFlight = 1 PROVE Spec => []VersionsIncrease
<1>1. SequentialInv => VersionsIncrease
  BY DEF SequentialInv
<1>. QED  BY <1>1, SequentialInvHolds, PTL

(* If requests do not overlap, what a client saw of a draft is what the    *)
(* draft holds, as long as the revision is the one that the client saw:    *)
(* expected_revision means what models.py says.                            *)
THEOREM SequentialRevisionsIdentify ==
  ASSUME MaxInFlight = 1 PROVE Spec => []RevisionIdentifiesContent
<1>1. SequentialInv => RevisionIdentifiesContent
  BY DEF SequentialInv, ViewsCurrent, SeenOK, RevisionIdentifiesContent
<1>. QED  BY <1>1, SequentialInvHolds, PTL
=============================================================================
