------------------------------- MODULE Trust -------------------------------
(***************************************************************************)
(* What a runtime accepts from the control plane, and how that changes     *)
(* while keys are rotated and the two services are upgraded.               *)
(*                                                                         *)
(* A key is [id, pair]: the identifier that a signature names, and the key *)
(* pair itself.  A digest, and what a signature is taken over, are stood   *)
(* for by the values they are computed from: equal exactly when those are. *)
(* Settings are read once per process, so every change of configuration is *)
(* a restart, which loses the held snapshot.  What may be missing (the     *)
(* configured key, the signature, the held snapshot) is a set with at most *)
(* one member.                                                             *)
(***************************************************************************)
EXTENDS Integers, Sequences, FiniteSets

CONSTANTS Runtimes,      \* the runtimes of one deployment
          Keys,          \* the signing keys, records [id, pair]
          OldKey, NewKey,
          Majors, Minors,\* the numbers of the contract versions in existence
          MaxRevision    \* how many snapshots are created

TrustAssumption ==
    /\ {OldKey, NewKey} \subseteq Keys
    /\ \A k, l \in Keys : k.id = l.id /\ k.pair = l.pair => k = l
    /\ OldKey.id # NewKey.id
    /\ Majors \subseteq Nat /\ Minors \subseteq Nat
    /\ MaxRevision \in Nat

Builds == [major : Majors, minor : Minors]

VARIABLES producer,   \* the control plane's build and signing key
          published,  \* the snapshots, in order of creation; the last one is active
          runtime     \* per runtime: build, verification mode, trusted ring, held snapshot

vars == <<producer, published, runtime>>

-----------------------------------------------------------------------------
(* require_supported, with the contract version of the consumer's build.   *)

Supported(declared, build) ==
    /\ declared.major = build.major
    /\ declared.minor <= build.minor

(* signing_input is the whole document without its signature; the digest   *)
(* leaves out the identifier and itself too.                               *)
DigestOf(version, content) == <<version, content>>

SigningInput(d) == <<d.version, d.content, d.digest>>

SignDocument(d, keys) == {[key |-> k, over |-> SigningInput(d)] : k \in keys}

IntactDigest(d) == d.digest = DigestOf(d.version, d.content)

(* TrustedKeyRing.parse refuses an identifier listed twice, and the ring   *)
(* is then a set; find returns the key with the identifier, if any.        *)
RingAdmitted(ring) == \A k, l \in ring : k.id = l.id => k = l

(* Mutant: only the key that was listed first is looked at. *)
Find_First(ring, id) == {k \in ring : k.id = id /\ Cardinality(ring) = 1}

Find(ring, id) == {k \in ring : k.id = id}

(* verify_document: the block is there, its key is found, and it verifies. *)
Verifies(d, ring) ==
    \E block \in d.signature :
        \E k \in Find(ring, block.key.id) :
            k.pair = block.key.pair /\ block.over = SigningInput(d)

(* Mutant: what is not required is not looked at either. *)
Check_Skipped(mode, ring, d) == mode = "disabled" \/ Verifies(d, ring)

(* SnapshotVerification.check: only an absent signature is let through,    *)
(* and only when verification is disabled.                                 *)
Check(mode, ring, d) ==
    \/ mode = "disabled" /\ d.signature = {}
    \/ Verifies(d, ring)

(* load_snapshot_document: contract version, digest, signature, in turn.   *)
Loads(r, d) ==
    /\ Supported(d.version, runtime[r].build)
    /\ IntactDigest(d)
    /\ Check(runtime[r].mode, runtime[r].ring, d)

(* RuntimeSettings.__post_init__ admits a configuration, or the process    *)
(* does not start.                                                         *)
Configurations ==
    {c \in [mode : {"required", "disabled"}, ring : SUBSET Keys] :
        RingAdmitted(c.ring) /\ (c.mode = "required" => c.ring # {})}

-----------------------------------------------------------------------------
Active == published[Len(published)]

Init ==
    /\ \E b \in Builds :
          /\ \A c \in Builds : b.major < c.major \/ (b.major = c.major /\ b.minor <= c.minor)
          /\ producer = [build |-> b, key |-> {OldKey}]
          /\ runtime = [r \in Runtimes |->
                [build |-> b, mode |-> "required", ring |-> {OldKey}, held |-> {}]]
    /\ published = <<>>

(* create_snapshot: digest first, signature last, with the key configured. *)
Unsealed(content) ==
    [version |-> producer.build, content |-> content,
     digest |-> DigestOf(producer.build, content), signature |-> {}]

Publish ==
    /\ Len(published) < MaxRevision
    /\ LET d == Unsealed(Len(published) + 1)
       IN published' = Append(published, [d EXCEPT !.signature = SignDocument(d, producer.key)])
    /\ UNCHANGED <<producer, runtime>>

(* What may arrive for d: the document, one whose content was damaged or   *)
(* replaced with and without its digest, and one without its signature.    *)
Deliveries(d) ==
    {d, [d EXCEPT !.content = 0],
     [d EXCEPT !.content = 0, !.digest = DigestOf(d.version, 0)],
     [d EXCEPT !.signature = {}],
     [d EXCEPT !.content = 0, !.digest = DigestOf(d.version, 0), !.signature = {}]}

(* A refresh installs what loads, and keeps what is held otherwise.        *)
Receive(r, d) ==
    /\ runtime' = [runtime EXCEPT ![r].held = IF Loads(r, d) THEN {d} ELSE @]
    /\ UNCHANGED <<producer, published>>

Fetch(r) == published # <<>> /\ Receive(r, Active)

FetchUnreliably(r) == published # <<>> /\ \E d \in Deliveries(Active) : Receive(r, d)

Crash(r) ==
    /\ runtime' = [runtime EXCEPT ![r].held = {}]
    /\ UNCHANGED <<producer, published>>

(* A restart with other settings; get_settings caches them for the process.*)
Configure(r, mode, ring) ==
    /\ [mode |-> mode, ring |-> ring] \in Configurations
    /\ runtime' = [runtime EXCEPT ![r].mode = mode, ![r].ring = ring, ![r].held = {}]
    /\ UNCHANGED <<producer, published>>

(* A restart of the control plane with another key, or with none.          *)
ConfigureProducer(keys) ==
    /\ producer' = [producer EXCEPT !.key = keys]
    /\ UNCHANGED <<published, runtime>>

FreeNext ==
    \/ Publish
    \/ \E r \in Runtimes : FetchUnreliably(r) \/ Crash(r)
    \/ \E r \in Runtimes, mode \in {"required", "disabled"}, ring \in SUBSET Keys :
          Configure(r, mode, ring)
    \/ \E keys \in {{}} \cup {{k} : k \in Keys} : ConfigureProducer(keys)

FreeSpec == Init /\ [][FreeNext]_vars

-----------------------------------------------------------------------------
(***************************************************************************)
(* The rotation that the documentation describes: the new key joins every  *)
(* ring, then the control plane switches to it, and once no runtime serves *)
(* a snapshot signed by the old key, that key leaves the rings, one        *)
(* restart at a time.  Meanwhile the services are upgraded to newer minor  *)
(* versions, in any order.                                                 *)
(***************************************************************************)
ServesOld(r) ==
    \E d \in runtime[r].held : \E block \in d.signature : block.key = OldKey

AddKey(r) ==
    /\ runtime[r].ring = {OldKey}
    /\ Configure(r, "required", {OldKey, NewKey})

SwitchKey ==
    /\ producer.key = {OldKey}
    /\ \A r \in Runtimes : NewKey \in runtime[r].ring
    /\ ConfigureProducer({NewKey})

RetireKey(r) ==
    /\ OldKey \in runtime[r].ring
    /\ producer.key = {NewKey}
    /\ \/ \A s \in Runtimes : ~ServesOld(s)
       \/ \E s \in Runtimes : runtime[s].ring = {NewKey}
    /\ Configure(r, "required", {NewKey})

Newer(build) == {b \in Builds : b.major = build.major /\ b.minor > build.minor}

UpgradeRuntime(r) ==
    \E b \in Newer(runtime[r].build) :
        /\ runtime' = [runtime EXCEPT ![r].build = b, ![r].held = {}]
        /\ UNCHANGED <<producer, published>>

UpgradeProducer ==
    \E b \in Newer(producer.build) :
        /\ producer' = [producer EXCEPT !.build = b]
        /\ UNCHANGED <<published, runtime>>

RotationNext ==
    \/ Publish
    \/ \E r \in Runtimes :
          Fetch(r) \/ Crash(r) \/ AddKey(r) \/ RetireKey(r) \/ UpgradeRuntime(r)
    \/ SwitchKey
    \/ UpgradeProducer

RotationSpec == Init /\ [][RotationNext]_vars

-----------------------------------------------------------------------------
(***************************************************************************)
(* Whatever the settings become and whatever arrives, a runtime that holds *)
(* a signed snapshot, or that requires a signature, holds exactly what the *)
(* control plane published, signed by a key of the ring it runs with.      *)
(***************************************************************************)
HeldAuthentic ==
    \A r \in Runtimes : \A d \in runtime[r].held :
        runtime[r].mode = "required" \/ d.signature # {} =>
            /\ \E block \in d.signature : block.key \in runtime[r].ring
            /\ \E i \in DOMAIN published : published[i] = d

(* A runtime would load the active snapshot if it asked for it now. *)
CanLoad(r) == published # <<>> => Loads(r, Active)

(***************************************************************************)
(* The documented steps, restarts included, take the active snapshot away  *)
(* from a runtime in two ways only: a publication by a control plane of a  *)
(* newer minor version than the runtime's, or the removal of the old key   *)
(* from its ring when nothing was published since the switch; and then     *)
(* removal began when no runtime was serving anything.  Adding a key,      *)
(* switching, crashes, upgrades of a runtime and a removal that waits for  *)
(* a publication never do (TrustedKeyRing.find, require_supported).        *)
(***************************************************************************)
LossExplained ==
    \A r \in Runtimes : CanLoad(r) /\ ~CanLoad(r)' =>
        \/ published' # published /\ producer.build.minor > runtime[r].build.minor
        \/ /\ runtime[r].ring # {NewKey} /\ runtime'[r].ring = {NewKey}
           /\ \A block \in Active.signature : block.key = OldKey
           /\ \/ \A s \in Runtimes : runtime[s].held = {}
              \/ \E s \in Runtimes : runtime[s].ring = {NewKey}

LossesExplained == [][LossExplained]_vars

(***************************************************************************)
(* It is not the case that in the documented order every runtime can load  *)
(* the active snapshot at every moment (docs/deployment.md:149): the old   *)
(* key may leave the rings before anything was published under the new.    *)
(***************************************************************************)
ActiveLoadable == \A r \in Runtimes : CanLoad(r)

(***************************************************************************)
(* Nor that a consumer accepts an additive minor change without a          *)
(* coordinated deployment (version.py:5), so that a document of its own    *)
(* major line is never refused for its version.                            *)
(***************************************************************************)
MinorChangesAccepted ==
    published # <<>> =>
        \A r \in Runtimes :
            Active.version.major = runtime[r].build.major
                => Supported(Active.version, runtime[r].build)
=============================================================================
