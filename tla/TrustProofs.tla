---------------------------- MODULE TrustProofs ----------------------------
(***************************************************************************)
(* Proofs about Trust, for any set of runtimes, keys and builds.  What the *)
(* module assumes of its constants is a hypothesis of every theorem.       *)
(***************************************************************************)
EXTENDS Trust, TLAPS

(* A snapshot document, as it is published and as it may arrive. *)
Document ==
    [version : Builds, content : Nat, digest : Builds \X Nat,
     signature : SUBSET [key : Keys, over : Builds \X Nat \X (Builds \X Nat)]]

(* The settings and the held snapshot of one runtime. *)
Runtime ==
    [build : Builds, mode : {"required", "disabled"}, ring : SUBSET Keys,
     held : SUBSET Document]

(* Every variable holds a value of its kind. *)
TypeOK ==
    /\ producer \in [build : Builds, key : SUBSET Keys]
    /\ published \in Seq(Document)
    /\ runtime \in [Runtimes -> Runtime]

(* What create_snapshot writes: content, digest and signature that agree.  *)
(* Content 0 stands for what was never published.                          *)
PublishedSealed ==
    \A i \in DOMAIN published :
        /\ published[i].content # 0
        /\ IntactDigest(published[i])
        /\ \A block \in published[i].signature : block.over = SigningInput(published[i])

(* The inductive invariant behind HeldAuthentic. *)
AuthenticInv == TypeOK /\ PublishedSealed /\ HeldAuthentic

-----------------------------------------------------------------------------
(* A signature depends on what it is taken over, and on nothing else. *)
LEMMA SignsInput ==
    ASSUME NEW d, NEW e, SigningInput(d) = SigningInput(e), NEW keys
    PROVE  SignDocument(d, keys) = SignDocument(e, keys)
<1>1. \A o, p : o = p => {[key |-> k, over |-> o] : k \in keys} = {[key |-> k, over |-> p] : k \in keys}
  OBVIOUS
<1>. QED  BY <1>1 DEF SignDocument

(* The document that create_snapshot seals is one, intact and signed over  *)
(* its own content.                                                        *)
LEMMA SealedDocument ==
    ASSUME TypeOK, NEW n \in Nat,
           NEW d, d = [Unsealed(n) EXCEPT !.signature = SignDocument(Unsealed(n), producer.key)]
    PROVE  /\ d \in Document
           /\ d.version = producer.build
           /\ d.content = n
           /\ IntactDigest(d)
           /\ d.signature = SignDocument(d, producer.key)
           /\ \A block \in d.signature : block.over = SigningInput(d)
<1>1. producer.build \in Builds /\ producer.key \subseteq Keys
  BY DEF TypeOK
<1>2. /\ d.version = producer.build
      /\ d.content = n
      /\ d.digest = <<producer.build, n>>
      /\ d.signature = SignDocument(Unsealed(n), producer.key)
      /\ d = [version |-> d.version, content |-> d.content, digest |-> d.digest,
              signature |-> d.signature]
  BY DEF Unsealed, DigestOf
<1>3. SigningInput(Unsealed(n)) = SigningInput(d)
  BY <1>2 DEF SigningInput, Unsealed, DigestOf
<1>4. d.signature = SignDocument(d, producer.key)
  BY <1>2, <1>3, SignsInput
<1>5. SigningInput(d) \in Builds \X Nat \X (Builds \X Nat)
  BY <1>1, <1>2 DEF SigningInput
<1>6. d.signature \subseteq [key : Keys, over : Builds \X Nat \X (Builds \X Nat)]
  <2>1. \A Over : \A over \in Over :
          {[key |-> k, over |-> over] : k \in producer.key} \subseteq [key : Keys, over : Over]
    BY <1>1
  <2>. QED  BY <1>4, <1>5, <2>1, Zenon DEF SignDocument
<1>7. d \in Document
  BY <1>1, <1>2, <1>6 DEF Document
<1>8. IntactDigest(d)
  BY <1>2 DEF IntactDigest, DigestOf
<1>9. \A block \in d.signature : block.over = SigningInput(d)
  BY <1>4 DEF SignDocument
<1>. QED  BY <1>2, <1>4, <1>7, <1>8, <1>9

(* A publication appends a sealed document and touches nothing else. *)
LEMMA PublishAppends ==
    ASSUME TypeOK, Publish
    PROVE  \E d \in Document :
             /\ published' = Append(published, d)
             /\ d.version = producer.build
             /\ d.content # 0
             /\ IntactDigest(d)
             /\ d.signature = SignDocument(d, producer.key)
             /\ \A block \in d.signature : block.over = SigningInput(d)
             /\ UNCHANGED <<producer, runtime>>
<1> DEFINE n == Len(published) + 1
           d == [Unsealed(n) EXCEPT !.signature = SignDocument(Unsealed(n), producer.key)]
<1>1. n \in Nat /\ n # 0
  BY DEF TypeOK
<1>2. published' = Append(published, d) /\ UNCHANGED <<producer, runtime>>
  BY DEF Publish
<1>3. /\ d \in Document
      /\ d.version = producer.build
      /\ d.content = n
      /\ IntactDigest(d)
      /\ d.signature = SignDocument(d, producer.key)
      /\ \A block \in d.signature : block.over = SigningInput(d)
  <2> HIDE DEF n
  <2>. QED  BY <1>1, SealedDocument
<1> HIDE DEF d
<1>. QED  BY <1>1, <1>2, <1>3

(* What is active is one of the published documents. *)
LEMMA ActiveIsPublished ==
    ASSUME TypeOK, published # <<>>
    PROVE  /\ Len(published) \in DOMAIN published
           /\ Active \in Document
           /\ \E i \in DOMAIN published : published[i] = Active
BY DEF TypeOK, Active

-----------------------------------------------------------------------------
(* Whatever arrives is a document, perhaps a damaged one. *)
LEMMA DeliveriesType ==
    ASSUME NEW a \in Document, NEW d \in Deliveries(a)
    PROVE  d \in Document
<1>1. a.version \in Builds /\ DigestOf(a.version, 0) \in Builds \X Nat
  BY DEF Document, DigestOf
<1>2. a = [version |-> a.version, content |-> a.content, digest |-> a.digest,
           signature |-> a.signature]
  BY DEF Document
<1>3. /\ d = [version |-> d.version, content |-> d.content, digest |-> d.digest,
              signature |-> d.signature]
      /\ d.version = a.version
      /\ d.content \in {a.content, 0}
      /\ d.digest \in {a.digest, DigestOf(a.version, 0)}
      /\ d.signature \in {a.signature, {}}
  BY <1>2 DEF Deliveries
<1>. QED  BY <1>1, <1>3 DEF Document

(* A signature vouches for the document that it was taken over: of what    *)
(* may arrive for a sealed document, only that document verifies.          *)
LEMMA OnlyOriginalVerifies ==
    ASSUME NEW a \in Document, a.content # 0,
           \A block \in a.signature : block.over = SigningInput(a),
           NEW d \in Deliveries(a), NEW ring, Verifies(d, ring)
    PROVE  d = a
<1>1. PICK block \in d.signature : block.over = SigningInput(d)
  BY DEF Verifies
<1>2. d = a \/ d.content = 0 \/ d.signature = {}
  BY DEF Deliveries, Document
<1>3. d.signature = a.signature \/ d.signature = {}
  BY DEF Deliveries, Document
<1>4. SigningInput(d) = SigningInput(a)
  BY <1>1, <1>3
<1>5. d.content = a.content
  BY <1>4 DEF SigningInput
<1>. QED  BY <1>1, <1>2, <1>5

(* The key that verified a signature is the key that it names. *)
LEMMA VerifiedByRing ==
    ASSUME TrustAssumption, NEW d \in Document, NEW ring \in SUBSET Keys, Verifies(d, ring)
    PROVE  \E block \in d.signature : block.key \in ring
<1>1. PICK block \in d.signature, k \in ring : k.id = block.key.id /\ k.pair = block.key.pair
  BY DEF Verifies, Find
<1>2. block.key \in Keys
  BY DEF Document
<1>3. k = block.key
  BY <1>1, <1>2 DEF TrustAssumption
<1>. QED  BY <1>1, <1>3

-----------------------------------------------------------------------------
(* Only authentic snapshots are held. *)

(* The first moment: nothing published, nothing held. *)
LEMMA InitAuthentic == TrustAssumption /\ Init => AuthenticInv
<1> SUFFICES ASSUME TrustAssumption, Init PROVE AuthenticInv
  OBVIOUS
<1>1. PICK b \in Builds :
        /\ producer = [build |-> b, key |-> {OldKey}]
        /\ runtime = [r \in Runtimes |->
              [build |-> b, mode |-> "required", ring |-> {OldKey}, held |-> {}]]
  BY DEF Init
<1>2. published = <<>> /\ OldKey \in Keys
  BY DEF Init, TrustAssumption
<1>3. TypeOK
  BY <1>1, <1>2 DEF TypeOK, Runtime
<1>4. PublishedSealed
  BY <1>2 DEF PublishedSealed
<1>5. HeldAuthentic
  BY <1>1 DEF HeldAuthentic
<1>. QED  BY <1>3, <1>4, <1>5 DEF AuthenticInv

(* A publication leaves what is held, and what was published before it. *)
LEMMA PublishAuthentic == AuthenticInv /\ Publish => AuthenticInv'
<1> SUFFICES ASSUME AuthenticInv, Publish PROVE AuthenticInv'
  OBVIOUS
<1>1. PICK d \in Document :
        /\ published' = Append(published, d)
        /\ d.content # 0
        /\ IntactDigest(d)
        /\ \A block \in d.signature : block.over = SigningInput(d)
        /\ UNCHANGED <<producer, runtime>>
  BY PublishAppends DEF AuthenticInv
<1>2. published \in Seq(Document)
  BY DEF AuthenticInv, TypeOK
<1>3. TypeOK'
  BY <1>1, <1>2 DEF AuthenticInv, TypeOK
<1>4. \A i \in DOMAIN published' :
        \/ published'[i] = d
        \/ i \in DOMAIN published /\ published'[i] = published[i]
  <2>1. /\ DOMAIN published' = 1..(Len(published) + 1)
        /\ DOMAIN published = 1..Len(published)
        /\ Len(published) \in Nat
    BY <1>1, <1>2
  <2>2. /\ published'[Len(published) + 1] = d
        /\ \A i \in 1..Len(published) : published'[i] = published[i]
    BY <1>1, <1>2
  <2>. QED  BY <2>1, <2>2
<1>5. PublishedSealed'
  BY <1>1, <1>4 DEF AuthenticInv, PublishedSealed
<1>6. \A i \in DOMAIN published : i \in DOMAIN published' /\ published'[i] = published[i]
  BY <1>1, <1>2
<1>7. HeldAuthentic'
  BY <1>1, <1>6 DEF AuthenticInv, HeldAuthentic
<1>. QED  BY <1>3, <1>5, <1>7 DEF AuthenticInv

(* A refresh, whatever arrives: what loads and is signed is the active     *)
(* snapshot, and its key is in the ring that it was checked with.          *)
LEMMA ReceiveAuthentic ==
    ASSUME TrustAssumption, AuthenticInv, NEW r \in Runtimes, published # <<>>,
           NEW d \in Deliveries(Active), Receive(r, d)
    PROVE  AuthenticInv'
<1>1. /\ Active \in Document
      /\ \E i \in DOMAIN published : published[i] = Active
      /\ Active.content # 0
      /\ \A block \in Active.signature : block.over = SigningInput(Active)
  BY ActiveIsPublished DEF AuthenticInv, PublishedSealed
<1>2. d \in Document
  BY <1>1, DeliveriesType
<1>3. runtime[r] \in Runtime
  BY DEF AuthenticInv, TypeOK
<1>4. /\ UNCHANGED <<producer, published>>
      /\ \A s \in Runtimes : s # r => runtime'[s] = runtime[s]
      /\ runtime'[r].mode = runtime[r].mode
      /\ runtime'[r].ring = runtime[r].ring
      /\ runtime'[r].held = IF Loads(r, d) THEN {d} ELSE runtime[r].held
      /\ runtime' \in [Runtimes -> Runtime]
  BY <1>2, <1>3 DEF Receive, AuthenticInv, TypeOK, Runtime
<1>5. TypeOK' /\ PublishedSealed'
  BY <1>4 DEF AuthenticInv, TypeOK, PublishedSealed, IntactDigest
<1>6. ASSUME Loads(r, d), runtime[r].mode = "required" \/ d.signature # {}
      PROVE  /\ \E block \in d.signature : block.key \in runtime[r].ring
             /\ \E i \in DOMAIN published : published[i] = d
  <2>1. Verifies(d, runtime[r].ring)
    BY <1>6 DEF Loads, Check
  <2>2. d = Active
    BY <1>1, <2>1, OnlyOriginalVerifies
  <2>3. \E block \in d.signature : block.key \in runtime[r].ring
    BY <1>2, <1>3, <2>1, VerifiedByRing DEF Runtime
  <2>. QED  BY <1>1, <2>2, <2>3
<1>7. HeldAuthentic'
  <2> SUFFICES ASSUME NEW s \in Runtimes, NEW e \in runtime'[s].held,
                      runtime'[s].mode = "required" \/ e.signature # {}
               PROVE  /\ \E block \in e.signature : block.key \in runtime'[s].ring
                      /\ \E i \in DOMAIN published' : published'[i] = e
    BY DEF HeldAuthentic
  <2>1. CASE s = r /\ Loads(r, d)
    BY <1>4, <1>6, <2>1
  <2>2. CASE ~(s = r /\ Loads(r, d))
    BY <1>4, <2>2 DEF AuthenticInv, HeldAuthentic
  <2>. QED  BY <2>1, <2>2
<1>. QED  BY <1>5, <1>7 DEF AuthenticInv

(* A restart, with the settings as they were or with others, holds nothing *)
(* that the new settings have not checked.                                 *)
LEMMA RestartAuthentic ==
    ASSUME AuthenticInv, NEW r \in Runtimes, UNCHANGED <<producer, published>>,
           NEW new \in Runtime, new.held = {}, runtime' = [runtime EXCEPT ![r] = new]
    PROVE  AuthenticInv'
<1>1. \A s \in Runtimes : runtime'[s] = IF s = r THEN new ELSE runtime[s]
  BY DEF AuthenticInv, TypeOK
<1>2. TypeOK' /\ PublishedSealed'
  BY DEF AuthenticInv, TypeOK, PublishedSealed, IntactDigest
<1>3. HeldAuthentic'
  BY <1>1 DEF AuthenticInv, HeldAuthentic
<1>. QED  BY <1>2, <1>3 DEF AuthenticInv

(* Every step keeps the inductive invariant, restarts and damaged          *)
(* deliveries included.                                                    *)
LEMMA FreeStepAuthentic == TrustAssumption /\ AuthenticInv /\ [FreeNext]_vars => AuthenticInv'
<1> SUFFICES ASSUME TrustAssumption, AuthenticInv, [FreeNext]_vars PROVE AuthenticInv'
  OBVIOUS
<1>1. CASE Publish
  BY <1>1, PublishAuthentic
<1>2. ASSUME NEW r \in Runtimes, FetchUnreliably(r)
      PROVE  AuthenticInv'
  BY <1>2, ReceiveAuthentic DEF FetchUnreliably
<1>3. ASSUME NEW r \in Runtimes, Crash(r)
      PROVE  AuthenticInv'
  <2>1. [runtime[r] EXCEPT !.held = {}] \in Runtime /\ [runtime[r] EXCEPT !.held = {}].held = {}
    BY DEF AuthenticInv, TypeOK, Runtime
  <2>2. /\ runtime' = [runtime EXCEPT ![r] = [runtime[r] EXCEPT !.held = {}]]
        /\ UNCHANGED <<producer, published>>
    BY <1>3 DEF Crash, AuthenticInv, TypeOK
  <2>. QED  BY <2>1, <2>2, RestartAuthentic
<1>4. ASSUME NEW r \in Runtimes, NEW mode \in {"required", "disabled"}, NEW ring \in SUBSET Keys,
             Configure(r, mode, ring)
      PROVE  AuthenticInv'
  <2> DEFINE new == [runtime[r] EXCEPT !.mode = mode, !.ring = ring, !.held = {}]
  <2>1. new \in Runtime /\ new.held = {}
    BY DEF AuthenticInv, TypeOK, Runtime
  <2>2. runtime' = [runtime EXCEPT ![r] = new] /\ UNCHANGED <<producer, published>>
    BY <1>4 DEF Configure, AuthenticInv, TypeOK
  <2> HIDE DEF new
  <2>. QED  BY <2>1, <2>2, RestartAuthentic
<1>5. ASSUME NEW keys \in SUBSET Keys, ConfigureProducer(keys)
      PROVE  AuthenticInv'
  BY <1>5 DEF ConfigureProducer, AuthenticInv, TypeOK, PublishedSealed, IntactDigest,
              HeldAuthentic
<1>6. CASE UNCHANGED vars
  BY <1>6 DEF vars, AuthenticInv, TypeOK, PublishedSealed, IntactDigest, HeldAuthentic
<1>. QED  BY <1>1, <1>2, <1>3, <1>4, <1>5, <1>6 DEF FreeNext

(* Whatever the settings of either side become and whatever arrives, a     *)
(* runtime that requires a signature, or that holds a signed snapshot,     *)
(* holds what the control plane published, signed by a key of its ring.    *)
THEOREM HeldSnapshotsAuthentic ==
    ASSUME TrustAssumption
    PROVE  FreeSpec => []HeldAuthentic
<1>1. Init => AuthenticInv
  BY InitAuthentic
<1>2. AuthenticInv /\ [FreeNext]_vars => AuthenticInv'
  BY FreeStepAuthentic
<1>3. AuthenticInv => HeldAuthentic
  BY DEF AuthenticInv
<1>. QED  BY <1>1, <1>2, <1>3, PTL DEF FreeSpec

-----------------------------------------------------------------------------
(* What a rotation and an upgrade take from a runtime. *)

SignedBy(d, k) == d.signature = SignDocument(d, {k})

(* The settings that the documented rotation passes through. *)
RotationSettings ==
    /\ producer.key \in {{OldKey}, {NewKey}}
    /\ \A r \in Runtimes :
          /\ runtime[r].mode = "required"
          /\ runtime[r].ring \in {{OldKey}, {OldKey, NewKey}, {NewKey}}
          /\ runtime[r].build.major = producer.build.major

(* Every snapshot is intact and signed by one of the two keys, and what is *)
(* held was published.                                                     *)
RotationDocuments ==
    /\ \A i \in DOMAIN published :
          /\ IntactDigest(published[i])
          /\ SignedBy(published[i], OldKey) \/ SignedBy(published[i], NewKey)
    /\ \A r \in Runtimes : \A d \in runtime[r].held : \E i \in DOMAIN published : published[i] = d

(* The order of the rotation: the producer switches once every ring knows  *)
(* the new key, what follows a snapshot with the new key has the new key,  *)
(* and a ring has lost the old key only if the producer has switched.      *)
RotationOrder ==
    /\ producer.key = {NewKey} => \A r \in Runtimes : NewKey \in runtime[r].ring
    /\ \A i \in DOMAIN published :
          SignedBy(published[i], NewKey) => producer.key = {NewKey} /\ SignedBy(Active, NewKey)
    /\ \A r \in Runtimes : runtime[r].ring = {NewKey} => producer.key = {NewKey}

(* The inductive invariant behind LossesExplained. *)
RotationInv == TypeOK /\ RotationSettings /\ RotationDocuments /\ RotationOrder

(* A signature by one key is one block, which names it. *)
LEMMA OneBlock ==
    ASSUME NEW d, NEW k, SignedBy(d, k)
    PROVE  d.signature = {[key |-> k, over |-> SigningInput(d)]}
BY DEF SignedBy, SignDocument

(* A signature by a key of the ring verifies. *)
LEMMA SignedVerifies ==
    ASSUME NEW d, NEW k, SignedBy(d, k), NEW ring, k \in ring
    PROVE  Verifies(d, ring)
<1>1. d.signature = {[key |-> k, over |-> SigningInput(d)]}
  BY OneBlock
<1>2. [key |-> k, over |-> SigningInput(d)] \in d.signature
  BY <1>1
<1>. QED  BY <1>2 DEF Verifies, Find

(* No document is signed by both keys. *)
LEMMA OneSigner ==
    ASSUME TrustAssumption, NEW d, SignedBy(d, OldKey)
    PROVE  /\ ~SignedBy(d, NewKey)
           /\ d.signature # {} /\ \A block \in d.signature : block.key = OldKey
<1>1. d.signature = {[key |-> OldKey, over |-> SigningInput(d)]}
  BY OneBlock
<1>2. \A block \in d.signature : block.key = OldKey
  BY <1>1
<1>3. SignedBy(d, NewKey) => [key |-> NewKey, over |-> SigningInput(d)] \in d.signature
  BY OneBlock
<1>4. [key |-> NewKey, over |-> SigningInput(d)].key = NewKey
  OBVIOUS
<1>. QED  BY <1>1, <1>2, <1>3, <1>4 DEF TrustAssumption

(* A service starts with the old key everywhere and the lowest build. *)
LEMMA InitRotation == TrustAssumption /\ Init => RotationInv
<1> SUFFICES ASSUME TrustAssumption, Init PROVE RotationInv
  OBVIOUS
<1>1. PICK b \in Builds :
        /\ producer = [build |-> b, key |-> {OldKey}]
        /\ runtime = [r \in Runtimes |->
              [build |-> b, mode |-> "required", ring |-> {OldKey}, held |-> {}]]
  BY DEF Init
<1>2. published = <<>> /\ DOMAIN published = {}
  BY DEF Init
<1>3. TypeOK
  BY InitAuthentic DEF AuthenticInv
<1>4. {OldKey} # {NewKey}
  BY DEF TrustAssumption
<1>5. RotationSettings
  BY <1>1 DEF RotationSettings
<1>6. RotationDocuments
  BY <1>1, <1>2 DEF RotationDocuments
<1>7. RotationOrder
  BY <1>1, <1>2, <1>4 DEF RotationOrder
<1>. QED  BY <1>3, <1>5, <1>6, <1>7 DEF RotationInv

(* Publications follow the switch of the key. *)
LEMMA PublishRotation == TrustAssumption /\ RotationInv /\ Publish => RotationInv'
<1> SUFFICES ASSUME TrustAssumption, RotationInv, Publish PROVE RotationInv'
  OBVIOUS
<1>1. PICK d \in Document :
        /\ published' = Append(published, d)
        /\ d.version = producer.build
        /\ IntactDigest(d)
        /\ d.signature = SignDocument(d, producer.key)
        /\ UNCHANGED <<producer, runtime>>
  BY PublishAppends DEF RotationInv
<1>2. published \in Seq(Document)
  BY DEF RotationInv, TypeOK
<1>3. TypeOK'
  BY <1>1, <1>2 DEF RotationInv, TypeOK
<1>4. /\ DOMAIN published' = 1..(Len(published) + 1)
      /\ DOMAIN published = 1..Len(published)
      /\ Len(published) \in Nat
      /\ published'[Len(published) + 1] = d
      /\ \A i \in 1..Len(published) : published'[i] = published[i]
      /\ Len(published') = Len(published) + 1
      /\ published' # <<>>
  BY <1>1, <1>2
<1>5. Active' = d
  BY <1>4 DEF Active
<1>6. /\ \A i \in DOMAIN published' :
            published'[i] = d \/ (i \in DOMAIN published /\ published'[i] = published[i])
      /\ \A i \in DOMAIN published : i \in DOMAIN published' /\ published'[i] = published[i]
  BY <1>4
<1>7. producer.key \in {{OldKey}, {NewKey}}
  BY DEF RotationInv, RotationSettings
<1>8. /\ producer.key = {NewKey} => SignedBy(d, NewKey)
      /\ SignedBy(d, OldKey) \/ SignedBy(d, NewKey)
  BY <1>1, <1>7 DEF SignedBy
<1>9. SignedBy(d, NewKey) => producer.key = {NewKey}
  BY <1>1, <1>7, OneSigner DEF SignedBy
<1>10. RotationSettings'
  BY <1>1 DEF RotationInv, RotationSettings
<1>11. RotationDocuments'
  BY <1>1, <1>6, <1>8 DEF RotationInv, RotationDocuments
<1>12. ASSUME NEW i \in DOMAIN published', SignedBy(published'[i], NewKey)
       PROVE  producer.key = {NewKey} /\ SignedBy(d, NewKey)
  BY <1>6, <1>8, <1>9, <1>12 DEF RotationInv, RotationOrder
<1>13. RotationOrder'
  BY <1>1, <1>4, <1>5, <1>12 DEF RotationInv, RotationOrder
<1>. QED  BY <1>3, <1>10, <1>11, <1>13 DEF RotationInv

(* A restart of one runtime with settings that the rotation allows it. *)
LEMMA RestartRotation ==
    ASSUME RotationInv, NEW r \in Runtimes, UNCHANGED <<producer, published>>,
           NEW new \in Runtime, runtime' = [runtime EXCEPT ![r] = new],
           new.held = {} \/ (new.held \subseteq {Active} \cup runtime[r].held /\ published # <<>>),
           new.mode = "required",
           new.ring \in {{OldKey}, {OldKey, NewKey}, {NewKey}},
           new.build.major = producer.build.major,
           producer.key = {NewKey} => NewKey \in new.ring,
           new.ring = {NewKey} => producer.key = {NewKey}
    PROVE  RotationInv'
<1>1. \A s \in Runtimes : runtime'[s] = IF s = r THEN new ELSE runtime[s]
  BY DEF RotationInv, TypeOK
<1>2. TypeOK'
  BY DEF RotationInv, TypeOK
<1>3. RotationSettings'
  BY <1>1 DEF RotationInv, RotationSettings
<1>4. \A d \in new.held : \E i \in DOMAIN published : published[i] = d
  BY ActiveIsPublished DEF RotationInv, RotationDocuments
<1>5. RotationDocuments'
  BY <1>1, <1>4 DEF RotationInv, RotationDocuments
<1>6. Active' = Active
  BY DEF Active
<1>7. RotationOrder'
  BY <1>1, <1>6 DEF RotationInv, RotationOrder
<1>. QED  BY <1>2, <1>3, <1>5, <1>7 DEF RotationInv

(* The producer's settings change: the key once every ring knows the new   *)
(* one, the build within its major line.                                   *)
LEMMA ProducerRotation ==
    ASSUME TrustAssumption, RotationInv, SwitchKey \/ UpgradeProducer
    PROVE  RotationInv'
<1>1. UNCHANGED <<published, runtime>> /\ Active' = Active
  BY DEF SwitchKey, ConfigureProducer, UpgradeProducer, Active
<1>2. RotationDocuments'
  BY <1>1 DEF RotationInv, RotationDocuments
<1>3. CASE SwitchKey
  <2>1. /\ producer.key = {OldKey}
        /\ producer' = [producer EXCEPT !.key = {NewKey}]
        /\ \A r \in Runtimes : NewKey \in runtime[r].ring
        /\ NewKey \in Keys
    BY <1>3 DEF SwitchKey, ConfigureProducer, TrustAssumption
  <2>2. TypeOK' /\ producer'.build = producer.build /\ producer'.key = {NewKey}
    BY <1>1, <2>1 DEF RotationInv, TypeOK
  <2>3. RotationSettings'
    BY <1>1, <2>2 DEF RotationInv, RotationSettings
  <2>4. RotationOrder'
    BY <1>1, <2>1, <2>2 DEF RotationInv, RotationOrder
  <2>. QED  BY <1>2, <2>2, <2>3, <2>4 DEF RotationInv
<1>4. CASE UpgradeProducer
  <2>1. PICK b \in Newer(producer.build) : producer' = [producer EXCEPT !.build = b]
    BY <1>4 DEF UpgradeProducer
  <2>2. b \in Builds /\ b.major = producer.build.major
    BY <2>1 DEF Newer
  <2>3. TypeOK' /\ producer'.build = b /\ producer'.key = producer.key
    BY <1>1, <2>1, <2>2 DEF RotationInv, TypeOK
  <2>4. RotationSettings'
    BY <1>1, <2>2, <2>3 DEF RotationInv, RotationSettings
  <2>5. RotationOrder'
    BY <1>1, <2>3 DEF RotationInv, RotationOrder
  <2>. QED  BY <1>2, <2>3, <2>4, <2>5 DEF RotationInv
<1>. QED  BY <1>3, <1>4

(* The settings of one runtime during the rotation, as records. *)
LEMMA RuntimeDuringRotation ==
    ASSUME RotationInv, NEW r \in Runtimes
    PROVE  /\ runtime[r] \in Runtime
           /\ runtime[r].mode = "required"
           /\ runtime[r].ring \in {{OldKey}, {OldKey, NewKey}, {NewKey}}
           /\ runtime[r].build.major = producer.build.major
           /\ producer.key = {NewKey} => NewKey \in runtime[r].ring
           /\ runtime[r].ring = {NewKey} => producer.key = {NewKey}
BY DEF RotationInv, TypeOK, RotationSettings, RotationOrder

(* Every step of the rotation and the upgrades keeps the invariant. *)
LEMMA RotationStepInv ==
    TrustAssumption /\ RotationInv /\ [RotationNext]_vars => RotationInv'
<1> SUFFICES ASSUME TrustAssumption, RotationInv, [RotationNext]_vars
             PROVE  RotationInv'
  OBVIOUS
<1>1. CASE Publish
  BY <1>1, PublishRotation
<1>2. ASSUME NEW r \in Runtimes, Fetch(r)
      PROVE  RotationInv'
  <2> DEFINE held == IF Loads(r, Active) THEN {Active} ELSE runtime[r].held
             new == [runtime[r] EXCEPT !.held = held]
  <2>1. /\ published # <<>>
        /\ UNCHANGED <<producer, published>>
        /\ runtime' = [runtime EXCEPT ![r] = new]
    BY <1>2 DEF Fetch, Receive, RotationInv, TypeOK
  <2>2. held \in SUBSET Document /\ held \subseteq {Active} \cup runtime[r].held
    BY <2>1, ActiveIsPublished, RuntimeDuringRotation DEF RotationInv, Runtime
  <2> HIDE DEF held
  <2>3. /\ new \in Runtime
        /\ new.held = held
        /\ new.mode = runtime[r].mode
        /\ new.ring = runtime[r].ring
        /\ new.build = runtime[r].build
    BY <2>2, RuntimeDuringRotation DEF Runtime
  <2> HIDE DEF new
  <2>. QED  BY <2>1, <2>2, <2>3, RuntimeDuringRotation, RestartRotation
<1>3. ASSUME NEW r \in Runtimes, Crash(r)
      PROVE  RotationInv'
  <2> DEFINE new == [runtime[r] EXCEPT !.held = {}]
  <2>1. runtime' = [runtime EXCEPT ![r] = new] /\ UNCHANGED <<producer, published>>
    BY <1>3 DEF Crash, RotationInv, TypeOK
  <2>2. /\ new \in Runtime
        /\ new.held = {}
        /\ new.mode = runtime[r].mode
        /\ new.ring = runtime[r].ring
        /\ new.build = runtime[r].build
    BY RuntimeDuringRotation DEF Runtime
  <2> HIDE DEF new
  <2>. QED  BY <2>1, <2>2, RuntimeDuringRotation, RestartRotation
<1>4. ASSUME NEW r \in Runtimes, NEW ring \in SUBSET Keys, Configure(r, "required", ring),
             ring \in {{OldKey}, {OldKey, NewKey}, {NewKey}}, NewKey \in ring,
             ring = {NewKey} => producer.key = {NewKey}
      PROVE  RotationInv'
  <2> DEFINE new == [runtime[r] EXCEPT !.mode = "required", !.ring = ring, !.held = {}]
  <2>1. runtime' = [runtime EXCEPT ![r] = new] /\ UNCHANGED <<producer, published>>
    BY <1>4 DEF Configure, RotationInv, TypeOK
  <2>2. /\ new \in Runtime
        /\ new.held = {}
        /\ new.mode = "required"
        /\ new.ring = ring
        /\ new.build = runtime[r].build
    BY RuntimeDuringRotation DEF Runtime
  <2> HIDE DEF new
  <2>. QED  BY <1>4, <2>1, <2>2, RuntimeDuringRotation, RestartRotation
<1>5. ASSUME NEW r \in Runtimes, AddKey(r)
      PROVE  RotationInv'
  <2>1. {OldKey, NewKey} \in SUBSET Keys /\ {OldKey, NewKey} # {NewKey}
    BY DEF TrustAssumption
  <2>. QED  BY <1>4, <1>5, <2>1 DEF AddKey
<1>6. ASSUME NEW r \in Runtimes, RetireKey(r)
      PROVE  RotationInv'
  <2>1. {NewKey} \in SUBSET Keys
    BY DEF TrustAssumption
  <2>. QED  BY <1>4, <1>6, <2>1 DEF RetireKey
<1>7. ASSUME NEW r \in Runtimes, UpgradeRuntime(r)
      PROVE  RotationInv'
  <2>1. PICK b \in Newer(runtime[r].build) :
          /\ runtime' = [runtime EXCEPT ![r].build = b, ![r].held = {}]
          /\ UNCHANGED <<producer, published>>
    BY <1>7 DEF UpgradeRuntime
  <2> DEFINE new == [runtime[r] EXCEPT !.build = b, !.held = {}]
  <2>2. runtime' = [runtime EXCEPT ![r] = new]
    BY <2>1 DEF RotationInv, TypeOK
  <2>3. b \in Builds /\ b.major = runtime[r].build.major /\ b.minor > runtime[r].build.minor
    BY <2>1 DEF Newer
  <2>4. /\ new \in Runtime
        /\ new.held = {}
        /\ new.mode = runtime[r].mode
        /\ new.ring = runtime[r].ring
        /\ new.build = b
    BY <2>3, RuntimeDuringRotation DEF Runtime
  <2>5. new.build.major = producer.build.major
    BY <2>3, <2>4, RuntimeDuringRotation
  <2>6. UNCHANGED <<producer, published>>
    BY <2>1
  <2> HIDE DEF new
  <2>. QED  BY <2>2, <2>4, <2>5, <2>6, RuntimeDuringRotation, RestartRotation
<1>8. CASE SwitchKey \/ UpgradeProducer
  BY <1>8, ProducerRotation
<1>9. CASE UNCHANGED vars
  <2>1. Active' = Active
    BY <1>9 DEF vars, Active
  <2>. QED  BY <1>9, <2>1 DEF vars, RotationInv, TypeOK, RotationSettings, RotationDocuments,
                              RotationOrder
<1>. QED  BY <1>1, <1>2, <1>3, <1>5, <1>6, <1>7, <1>8, <1>9 DEF RotationNext

(* Settings that do not shrink keep what could be loaded. *)
LEMMA KeepsLoading ==
    ASSUME TrustAssumption, TypeOK, NEW r \in Runtimes, CanLoad(r), published' = published,
           NEW build \in Builds, runtime'[r].build = build,
           build.major = runtime[r].build.major, build.minor >= runtime[r].build.minor,
           runtime'[r].mode = runtime[r].mode, runtime[r].ring \subseteq runtime'[r].ring
    PROVE  CanLoad(r)'
<1> SUFFICES ASSUME published # <<>> PROVE Loads(r, Active)'
  BY DEF CanLoad
<1>1. Active' = Active /\ Active \in Document
  BY ActiveIsPublished DEF Active
<1>2. Loads(r, Active)
  BY DEF CanLoad
<1>3. Supported(Active.version, build)
  <2>1. runtime[r].build \in Builds /\ Active.version \in Builds
    BY <1>1 DEF TypeOK, Runtime, Document
  <2>2. build.minor \in Nat /\ runtime[r].build.minor \in Nat /\ Active.version.minor \in Nat
    BY <2>1 DEF Builds, TrustAssumption
  <2>. QED  BY <1>2, <2>2 DEF Loads, Supported
<1>4. Check(runtime'[r].mode, runtime'[r].ring, Active)
  <2>1. Verifies(Active, runtime[r].ring) => Verifies(Active, runtime'[r].ring)
    BY DEF Verifies, Find
  <2>. QED  BY <1>2, <2>1 DEF Loads, Check
<1>5. IntactDigest(Active)
  BY <1>2 DEF Loads
<1>. QED  BY <1>1, <1>3, <1>4, <1>5 DEF Loads

(* A publication is lost on those that are behind, and on no other: every  *)
(* ring has the key that signs.                                            *)
LEMMA PublishLoses ==
    ASSUME TrustAssumption, RotationInv, Publish, NEW r \in Runtimes, ~CanLoad(r)'
    PROVE  published' # published /\ producer.build.minor > runtime[r].build.minor
<1>1. PICK d \in Document :
        /\ published' = Append(published, d)
        /\ d.version = producer.build
        /\ IntactDigest(d)
        /\ d.signature = SignDocument(d, producer.key)
        /\ UNCHANGED <<producer, runtime>>
  BY PublishAppends DEF RotationInv
<1>2. published \in Seq(Document)
  BY DEF RotationInv, TypeOK
<1>3. published' # <<>> /\ Len(published') # Len(published) /\ Active' = d
  BY <1>1, <1>2 DEF Active
<1>4. ~Loads(r, d)
  BY <1>1, <1>3 DEF CanLoad, Loads
<1>5. PICK k \in {OldKey, NewKey} : SignedBy(d, k) /\ k \in runtime[r].ring
  BY <1>1 DEF RotationInv, RotationSettings, RotationOrder, SignedBy
<1>6. Verifies(d, runtime[r].ring)
  BY <1>5, SignedVerifies
<1>7. ~Supported(producer.build, runtime[r].build)
  BY <1>1, <1>4, <1>6 DEF Loads, Check
<1>8. producer.build.minor \in Nat /\ runtime[r].build.minor \in Nat
  BY RuntimeDuringRotation DEF RotationInv, TypeOK, Runtime, Builds, TrustAssumption
<1>. QED  BY <1>3, <1>7, <1>8, RuntimeDuringRotation DEF Supported

(* The removal of the old key takes something away only if nothing was     *)
(* published under the new one: what is held is then signed by the old     *)
(* key, so the first removal finds nothing held.                           *)
LEMMA RetireLoses ==
    ASSUME TrustAssumption, RotationInv, NEW r \in Runtimes, RetireKey(r), CanLoad(r), ~CanLoad(r)'
    PROVE  /\ runtime[r].ring # {NewKey} /\ runtime'[r].ring = {NewKey}
           /\ \A block \in Active.signature : block.key = OldKey
           /\ \/ \A s \in Runtimes : runtime[s].held = {}
              \/ \E s \in Runtimes : runtime[s].ring = {NewKey}
<1>1. /\ published' = published /\ OldKey \in runtime[r].ring /\ OldKey # NewKey
      /\ runtime' = [runtime EXCEPT ![r].mode = "required", ![r].ring = {NewKey}, ![r].held = {}]
  BY DEF RetireKey, Configure, TrustAssumption
<1>2. /\ runtime'[r].ring = {NewKey} /\ runtime'[r].mode = "required"
      /\ runtime'[r].build = runtime[r].build
  BY <1>1, RuntimeDuringRotation DEF RotationInv, TypeOK, Runtime
<1>3. Active' = Active /\ published # <<>> /\ Loads(r, Active) /\ ~Loads(r, Active)'
  BY <1>1 DEF Active, CanLoad
<1>4. ~Verifies(Active, {NewKey})
  BY <1>2, <1>3 DEF Loads, Check
<1>5. ~SignedBy(Active, NewKey)
  BY <1>4, SignedVerifies
<1>6. \A i \in DOMAIN published : SignedBy(published[i], OldKey)
  BY <1>5 DEF RotationInv, RotationOrder, RotationDocuments
<1>7. SignedBy(Active, OldKey)
  BY <1>3, <1>6, ActiveIsPublished DEF RotationInv
<1>8. ASSUME NEW s \in Runtimes, NEW d \in runtime[s].held
      PROVE  ServesOld(s)
  <2>1. SignedBy(d, OldKey)
    BY <1>6 DEF RotationInv, RotationDocuments
  <2>2. \E block \in d.signature : block.key = OldKey
    BY <2>1, OneSigner
  <2>. QED  BY <2>2 DEF ServesOld
<1>9. \/ \A s \in Runtimes : runtime[s].held = {}
      \/ \E s \in Runtimes : runtime[s].ring = {NewKey}
  BY <1>8 DEF RetireKey
<1>. QED  BY <1>1, <1>2, <1>7, <1>9, OneSigner

(* The step of the rotation after which a runtime cannot load the active   *)
(* snapshot any more is one of the two.                                    *)
LEMMA RotationLoses ==
    TrustAssumption /\ RotationInv /\ [RotationNext]_vars => LossExplained
<1> SUFFICES ASSUME TrustAssumption, RotationInv, [RotationNext]_vars,
                    NEW r \in Runtimes, CanLoad(r), ~CanLoad(r)'
             PROVE  \/ published' # published /\ producer.build.minor > runtime[r].build.minor
                    \/ /\ runtime[r].ring # {NewKey} /\ runtime'[r].ring = {NewKey}
                       /\ \A block \in Active.signature : block.key = OldKey
                       /\ \/ \A s \in Runtimes : runtime[s].held = {}
                          \/ \E s \in Runtimes : runtime[s].ring = {NewKey}
  BY DEF LossExplained
<1>1. TypeOK /\ runtime \in [Runtimes -> Runtime] /\ runtime[r] \in Runtime
  BY DEF RotationInv, TypeOK
<1>2. runtime[r].build \in Builds /\ runtime[r].build.minor \in Nat
  BY <1>1 DEF Runtime, Builds, TrustAssumption
<1>3. ASSUME published' = published, runtime'[r].build = runtime[r].build,
             runtime'[r].mode = runtime[r].mode, runtime[r].ring \subseteq runtime'[r].ring
      PROVE  FALSE
  BY <1>1, <1>2, <1>3, KeepsLoading
<1>4. ASSUME published' = published, runtime'[r] = runtime[r]
      PROVE  FALSE
  BY <1>3, <1>4
<1>5. CASE Publish
  BY <1>5, PublishLoses
<1>6. ASSUME NEW s \in Runtimes, Fetch(s) \/ Crash(s)
      PROVE  FALSE
  <2>1. published' = published /\ \E held : runtime' = [runtime EXCEPT ![s].held = held]
    BY <1>6 DEF Fetch, Receive, Crash
  <2>2. /\ runtime'[r].build = runtime[r].build /\ runtime'[r].mode = runtime[r].mode
        /\ runtime'[r].ring = runtime[r].ring
    BY <1>1, <2>1 DEF Runtime
  <2>. QED  BY <1>3, <2>1, <2>2
<1>7. ASSUME NEW s \in Runtimes, AddKey(s)
      PROVE  FALSE
  <2>1. /\ published' = published /\ runtime[s].ring = {OldKey}
        /\ runtime' = [runtime EXCEPT ![s].mode = "required", ![s].ring = {OldKey, NewKey}, ![s].held = {}]
    BY <1>7 DEF AddKey, Configure
  <2>2. CASE s = r
    <3>1. /\ runtime'[r].build = runtime[r].build /\ runtime'[r].mode = runtime[r].mode
          /\ runtime[r].ring \subseteq runtime'[r].ring
      BY <1>1, <2>1, <2>2, RuntimeDuringRotation DEF Runtime
    <3>. QED  BY <1>3, <2>1, <3>1
  <2>3. CASE s # r
    BY <1>1, <1>4, <2>1, <2>3
  <2>. QED  BY <2>2, <2>3
<1>8. ASSUME NEW s \in Runtimes, RetireKey(s), s # r
      PROVE  FALSE
  BY <1>1, <1>4, <1>8 DEF RetireKey, Configure
<1>9. CASE RetireKey(r)
  BY <1>9, RetireLoses
<1>10. ASSUME NEW s \in Runtimes, UpgradeRuntime(s)
       PROVE  FALSE
  <2>1. PICK b \in Newer(runtime[s].build) :
          /\ runtime' = [runtime EXCEPT ![s].build = b, ![s].held = {}]
          /\ published' = published
    BY <1>10 DEF UpgradeRuntime
  <2>2. CASE s = r
    <3>1. /\ runtime'[r].build = b /\ runtime'[r].mode = runtime[r].mode
          /\ runtime'[r].ring = runtime[r].ring
      BY <1>1, <2>1, <2>2 DEF Runtime
    <3>2. b \in Builds /\ b.major = runtime[r].build.major /\ b.minor > runtime[r].build.minor
      BY <2>1, <2>2 DEF Newer
    <3>3. b.minor \in Nat
      BY <3>2 DEF Builds, TrustAssumption
    <3>. QED  BY <1>1, <1>2, <2>1, <3>1, <3>2, <3>3, KeepsLoading
  <2>3. CASE s # r
    BY <1>1, <1>4, <2>1, <2>3
  <2>. QED  BY <2>2, <2>3
<1>11. CASE SwitchKey \/ UpgradeProducer \/ UNCHANGED vars
  BY <1>4, <1>11 DEF SwitchKey, ConfigureProducer, UpgradeProducer, vars
<1>. QED  BY <1>5, <1>6, <1>7, <1>8, <1>9, <1>10, <1>11 DEF RotationNext

(* Through a key rotation as documented and upgrades in any order, with    *)
(* restarts and refreshes anywhere in between, a runtime loses the active  *)
(* snapshot only to a publication of a newer minor version, or to a        *)
(* removal of the old key that waited for no publication under the new.    *)
THEOREM RotationLossesExplained ==
    ASSUME TrustAssumption
    PROVE  RotationSpec => LossesExplained
<1>1. Init => RotationInv
  BY InitRotation
<1>2. RotationInv /\ [RotationNext]_vars => RotationInv'
  BY RotationStepInv
<1>3. RotationInv /\ [RotationNext]_vars => [LossExplained]_vars
  BY RotationLoses
<1>. QED  BY <1>1, <1>2, <1>3, PTL DEF RotationSpec, LossesExplained
=============================================================================
