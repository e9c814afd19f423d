----------------------------- MODULE Perimeter -----------------------------
(***************************************************************************)
(* The components that keep a few variables of their own at the edge of    *)
(* the system, side by side: the consoles, trust in snapshots (with        *)
(* settings that change freely, and during a rotation), callers, the       *)
(* provider, the adapters, requests, and destinations.  They share no      *)
(* state, so a behaviour follows one of them, its part, and leaves the     *)
(* variables of the others at rest.                                        *)
(***************************************************************************)
EXTENDS Integers, Sequences

VARIABLE part

(* Consoles. *)
CONSTANTS Consoles, MaxUploads, MaxRevision, MaxSnapshots, MaxFailures
VARIABLES draft, versions, snapshots, console, uploads, failures, unanswered
C == INSTANCE Console

(* Trust, twice: with settings that change freely, and during a rotation.  *)
CONSTANTS FreeRuntimes, Runtimes, Keys, OldKey, NewKey, Majors, FreeMinors, Minors, MaxSealed
VARIABLES producer, sealed, runtime
F == INSTANCE Trust WITH
       published <- sealed, Runtimes <- FreeRuntimes, Minors <- FreeMinors, MaxRevision <- MaxSealed
T == INSTANCE Trust WITH published <- sealed, MaxRevision <- MaxSealed

(* Callers. *)
CONSTANTS Ring, Issuer, Audience, Skew, Lifetime, Second, MaxTime, MaxIssue, HostKeys, Claims,
          Assertions
VARIABLES mode, clock, offset, issued, answer
I == INSTANCE Identity

(* The provider. *)
CONSTANTS Utterances, ToolLists, Stopwords, ShortWords, MutationVerbs, Synonyms, Aliases
VARIABLES utterance, offered, selection, proposal
P == INSTANCE Provider WITH Requests <- Utterances, request <- utterance, tools <- offered

(* The adapters. *)
CONSTANTS Catalogs, ArgumentObjects, ArrayStep, MaxNestingDepth, MaxTotalProperties, ItemsLike
VARIABLES provider, catalog, payloads, refusals, position, call
A == INSTANCE Adapters WITH
       Tools <- Catalogs, Values <- ArgumentObjects, ItemStep <- ArrayStep,
       tools <- catalog, diagnostics <- refusals, next <- position

(* Requests, from the operation that a tool is made of. *)
CONSTANTS BodyArgument, SourceOperations, Candidates(_)
VARIABLES operation, definition, supplied, prepared
Q == INSTANCE Requests WITH
       source <- operation, tool <- definition, args <- supplied, request <- prepared

(* Destinations. *)
CONSTANTS Names, Literals, Addresses, Entries, Urls, Methods
VARIABLES policy, dns, lookups, request
D == INSTANCE Destinations

ASSUME PerimeterAssumption ==
  /\ F!TrustAssumption
  /\ T!TrustAssumption
  /\ I!IdentityAssumption
  /\ P!ProviderAssumption
  /\ A!AdaptersAssumption
  /\ Q!RequestsAssumption
  /\ D!DestinationAssumption

-----------------------------------------------------------------------------
consoleVars == <<draft, versions, snapshots, console, uploads, failures, unanswered>>
trustVars == <<producer, sealed, runtime>>
identityVars == <<mode, clock, offset, issued, answer>>
providerVars == <<utterance, offered, selection, proposal>>
adapterVars == <<provider, catalog, payloads, refusals, position, call>>
requestVars == <<operation, definition, supplied, prepared>>
destinationVars == <<policy, dns, lookups, request>>

perimeterVars ==
  <<part, consoleVars, trustVars, identityVars, providerVars, adapterVars, requestVars,
    destinationVars>>

(* The variables of a part at rest. *)
ConsoleRest ==
  /\ draft = 0 /\ versions = 0 /\ snapshots = 0 /\ console = 0
  /\ uploads = 0 /\ failures = 0 /\ unanswered = 0
TrustRest == producer = 0 /\ sealed = 0 /\ runtime = 0
IdentityRest == mode = 0 /\ clock = 0 /\ offset = 0 /\ issued = 0 /\ answer = 0
ProviderRest == utterance = 0 /\ offered = 0 /\ selection = 0 /\ proposal = 0
AdaptersRest ==
  provider = 0 /\ catalog = 0 /\ payloads = 0 /\ refusals = 0 /\ position = 0 /\ call = 0
RequestsRest == operation = 0 /\ definition = 0 /\ supplied = 0 /\ prepared = 0
DestinationsRest == policy = 0 /\ dns = 0 /\ lookups = 0 /\ request = 0

PerimeterRest ==
  /\ ConsoleRest /\ TrustRest /\ IdentityRest
  /\ ProviderRest /\ AdaptersRest /\ RequestsRest /\ DestinationsRest

PerimeterInit ==
  \/ /\ part = "console" /\ C!Init
     /\ TrustRest /\ IdentityRest /\ ProviderRest /\ AdaptersRest /\ RequestsRest /\ DestinationsRest
  \/ /\ part = "trust" /\ F!Init
     /\ ConsoleRest /\ IdentityRest /\ ProviderRest /\ AdaptersRest /\ RequestsRest /\ DestinationsRest
  \/ /\ part = "rotate" /\ T!Init
     /\ ConsoleRest /\ IdentityRest /\ ProviderRest /\ AdaptersRest /\ RequestsRest /\ DestinationsRest
  \/ /\ part = "identify" /\ I!Init
     /\ ConsoleRest /\ TrustRest /\ ProviderRest /\ AdaptersRest /\ RequestsRest /\ DestinationsRest
  \/ /\ part = "propose" /\ P!Init
     /\ ConsoleRest /\ TrustRest /\ IdentityRest /\ AdaptersRest /\ RequestsRest /\ DestinationsRest
  \/ /\ part = "adapt" /\ A!Init
     /\ ConsoleRest /\ TrustRest /\ IdentityRest /\ ProviderRest /\ RequestsRest /\ DestinationsRest
  \/ /\ part = "prepare" /\ Q!Init
     /\ ConsoleRest /\ TrustRest /\ IdentityRest /\ ProviderRest /\ AdaptersRest /\ DestinationsRest
  \/ /\ part = "contact" /\ D!Init
     /\ ConsoleRest /\ TrustRest /\ IdentityRest /\ ProviderRest /\ AdaptersRest /\ RequestsRest

PerimeterNext ==
  /\ UNCHANGED part
  /\ \/ /\ part = "console"
        /\ C!Next
        /\ UNCHANGED <<trustVars, identityVars, providerVars, adapterVars, requestVars, destinationVars>>
     \/ /\ part = "trust"
        /\ F!FreeNext
        /\ UNCHANGED <<consoleVars, identityVars, providerVars, adapterVars, requestVars, destinationVars>>
     \/ /\ part = "rotate"
        /\ T!RotationNext
        /\ UNCHANGED <<consoleVars, identityVars, providerVars, adapterVars, requestVars, destinationVars>>
     \/ /\ part = "identify"
        /\ I!Next
        /\ UNCHANGED <<consoleVars, trustVars, providerVars, adapterVars, requestVars, destinationVars>>
     \/ /\ part = "propose"
        /\ P!Next
        /\ UNCHANGED <<consoleVars, trustVars, identityVars, adapterVars, requestVars, destinationVars>>
     \/ /\ part = "adapt"
        /\ A!Next
        /\ UNCHANGED <<consoleVars, trustVars, identityVars, providerVars, requestVars, destinationVars>>
     \/ /\ part = "prepare"
        /\ Q!Next
        /\ UNCHANGED <<consoleVars, trustVars, identityVars, providerVars, adapterVars, destinationVars>>
     \/ /\ part = "contact"
        /\ D!Next
        /\ UNCHANGED <<consoleVars, trustVars, identityVars, providerVars, adapterVars, requestVars>>

PerimeterSpec == PerimeterInit /\ [][PerimeterNext]_perimeterVars

-----------------------------------------------------------------------------
(* What the parts promise, each where it is at work.                       *)

(* The tools that an idle console shows for its newest version are that    *)
(* version's, unless a request of loadVersions failed: the two are loaded  *)
(* one after the other while others publish (App.tsx:104).                 *)
ToolsOfNewest == part = "console" => C!ToolsOfNewest

(* A console whose publication took effect without an answer, and that     *)
(* publishes the draft it still shows again, publishes nothing, whatever   *)
(* the others registered in between (App.tsx:165).                         *)
RetryPublishesNothing == [][part = "console" => C!RetryIsIdle]_perimeterVars

(* SnapshotVerification: whatever the settings become and whatever         *)
(* arrives, a signed snapshot that is held, or one held where a signature  *)
(* is required, is what was published, signed by a key of the ring.        *)
HeldAuthentic == part = "trust" => F!HeldAuthentic

(* Through a rotation as documented and upgrades in any order, restarts    *)
(* included, a runtime can no longer load the active snapshot only after a *)
(* publication by a newer minor version than its own, or after it lost the *)
(* old key although nothing was published under the new one; and then the  *)
(* removal of the key began when no runtime was serving anything           *)
(* (TrustedKeyRing.find, require_supported).                               *)
LossesExplained == [][part = "rotate" => T!LossExplained]_perimeterVars

(* CallerAuthenticator: a verified caller is who a token signed by a       *)
(* trusted key says, with the claims as they were signed, meant for this   *)
(* runtime; the token is good for its lifetime and no longer, for every    *)
(* difference of the clocks up to the allowance; and no refusal tells what *)
(* a token claims unless a trusted key signed it (_verified_claims).       *)
CallersProven == part = "identify" => I!CallersProven

(* select_tool does not depend on the order in which the tools are listed, *)
(* and generate_arguments proposes only what the request says, for the     *)
(* arguments that the tool declares, numbers between their inclusive       *)
(* bounds, and reports a required argument that it does not find.          *)
ProposalsGrounded == part = "propose" => P!SelectionStable /\ P!ProposalGrounded

(* ProviderAdapter.project projects or reports every tool, whatever came   *)
(* of the ones before it.  A call in the projection is valid after         *)
(* normalize_provider_arguments exactly if it has no placeholder below the *)
(* top level, and of what the canonical schema accepts, the strict format  *)
(* (_strictify, _allow_null) can say the objects in which no property is   *)
(* absent below the top level, nor an argument whose only value is null,   *)
(* and no other.                                                           *)
ProjectionsReversible ==
  part = "adapt" => A!EveryToolAccounted /\ A!EverythingSayable /\ A!StrictReversible

(* convert_operation binds every argument that its schema declares exactly *)
(* once, by the operation's own declaration where there are two, also if a *)
(* name holds what a pointer escapes.  prepare_request puts each supplied  *)
(* argument in its own place with its own value, nothing else anywhere,    *)
(* and refuses valid ones only for a value that is not scalar or a null in *)
(* the path.                                                               *)
RequestsFaithful ==
  part = "prepare" =>
    /\ Q!EveryArgumentBoundOnce
    /\ Q!OperationOverrides
    /\ Q!RequestFaithful
    /\ Q!RefusalExplained

(* A request leaves only for a listed origin and an admitted address, as   *)
(* long as the name keeps its addresses from the check to the connection   *)
(* (DestinationPolicy.check).  Nothing is refused that is listed,          *)
(* permitted and resolves to admitted addresses, however it is written,    *)
(* and no host is looked up that the deployment does not list.             *)
DestinationsAdmitted == part = "contact" => D!DestinationsAdmitted
=============================================================================
