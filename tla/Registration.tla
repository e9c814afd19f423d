---------------------------- MODULE Registration ----------------------------
(***************************************************************************)
(* What a registration runs an upload through before anything is stored:   *)
(* the document is loaded, references are resolved, its operations are     *)
(* analysed and named, their schemas are converted, and a version is       *)
(* proposed for it.  The stages stand side by side: they share no state,   *)
(* so a behaviour follows one of them and leaves the variables of the      *)
(* others at rest.                                                         *)
(***************************************************************************)
EXTENDS Integers, Sequences

VARIABLE stage

(* Loading. *)
CONSTANTS Uploads, MaxNodes, MaxDepth, StackDepth
VARIABLES upload, stack, nodes, visited, outcome
L == INSTANCE Loading

(* References. *)
CONSTANTS Inputs, MaxResolutionDepth
VARIABLES input, resolved
R == INSTANCE References

(* Analysis. *)
CONSTANTS Documents, MethodOrder, MaxOperations
VARIABLES document, pending, next, operations, diagnostics, baseUrl, status
O == INSTANCE Analysis WITH Methods <- MethodOrder

(* Naming. *)
CONSTANTS Sources, Characters, Upper, Digits, LowerOf, Separators, MaxToolNameLength
VARIABLES source, name
N == INSTANCE Naming

(* Conversion of schemas. *)
CONSTANTS Schemas, Values, MaxSchemaDepth, ItemStep
VARIABLES schema, converted
SC == INSTANCE SchemaConversion

(* The version line of a connector: published and draft of Versions. *)
CONSTANTS MaxNumber, Prereleases, MaxPublished
VARIABLES line, proposed, registered
V == INSTANCE Versions WITH published <- line, draft <- proposed

ASSUME RegistrationAssumption ==
  /\ L!LoadingAssumption
  /\ R!ReferencesAssumption
  /\ O!AnalysisAssumption
  /\ N!NamingAssumption
  /\ SC!SchemaAssumption
  /\ V!VersionAssumption

-----------------------------------------------------------------------------
loadingVars == <<upload, stack, nodes, visited, outcome>>
referenceVars == <<input, resolved>>
analysisVars == <<document, pending, next, operations, diagnostics, baseUrl, status>>
namingVars == <<source, name>>
schemaVars == <<schema, converted>>
versionVars == <<line, proposed, registered>>

registrationVars ==
  <<stage, loadingVars, referenceVars, analysisVars, namingVars, schemaVars, versionVars>>

(* The variables of a stage at rest. *)
LoadingRest == upload = 0 /\ stack = 0 /\ nodes = 0 /\ visited = 0 /\ outcome = 0
ReferencesRest == input = 0 /\ resolved = 0
AnalysisRest ==
  /\ document = 0 /\ pending = 0 /\ next = 0 /\ operations = 0
  /\ diagnostics = 0 /\ baseUrl = 0 /\ status = 0
NamingRest == source = 0 /\ name = 0
SchemasRest == schema = 0 /\ converted = 0
VersionsRest == line = 0 /\ proposed = 0 /\ registered = 0

(* No registration is followed. *)
RegistrationRest ==
  /\ stage = "none"
  /\ LoadingRest /\ ReferencesRest /\ AnalysisRest
  /\ NamingRest /\ SchemasRest /\ VersionsRest

RegistrationInit ==
  \/ /\ stage = "load" /\ L!Init
     /\ ReferencesRest /\ AnalysisRest /\ NamingRest /\ SchemasRest /\ VersionsRest
  \/ /\ stage = "resolve" /\ R!Init
     /\ LoadingRest /\ AnalysisRest /\ NamingRest /\ SchemasRest /\ VersionsRest
  \/ /\ stage = "analyse" /\ O!Init
     /\ LoadingRest /\ ReferencesRest /\ NamingRest /\ SchemasRest /\ VersionsRest
  \/ /\ stage = "name" /\ N!Init
     /\ LoadingRest /\ ReferencesRest /\ AnalysisRest /\ SchemasRest /\ VersionsRest
  \/ /\ stage = "convert" /\ SC!Init
     /\ LoadingRest /\ ReferencesRest /\ AnalysisRest /\ NamingRest /\ VersionsRest
  \/ /\ stage = "version" /\ V!Init
     /\ LoadingRest /\ ReferencesRest /\ AnalysisRest /\ NamingRest /\ SchemasRest

RegistrationNext ==
  /\ UNCHANGED stage
  /\ \/ /\ stage = "load" /\ L!Next
        /\ UNCHANGED <<referenceVars, analysisVars, namingVars, schemaVars, versionVars>>
     \/ /\ stage = "resolve" /\ R!Next
        /\ UNCHANGED <<loadingVars, analysisVars, namingVars, schemaVars, versionVars>>
     \/ /\ stage = "analyse" /\ O!Next
        /\ UNCHANGED <<loadingVars, referenceVars, namingVars, schemaVars, versionVars>>
     \/ /\ stage = "name" /\ N!Next
        /\ UNCHANGED <<loadingVars, referenceVars, analysisVars, schemaVars, versionVars>>
     \/ /\ stage = "convert" /\ SC!Next
        /\ UNCHANGED <<loadingVars, referenceVars, analysisVars, namingVars, versionVars>>
     \/ /\ stage = "version" /\ V!Next
        /\ UNCHANGED <<loadingVars, referenceVars, analysisVars, namingVars, schemaVars>>

RegistrationSpec == RegistrationInit /\ [][RegistrationNext]_registrationVars

-----------------------------------------------------------------------------
(* What the stages promise, each where it is at work.                      *)

(* load_document loads exactly the documents that the parser takes as a    *)
(* whole and that are within the limits, with string keys and finite       *)
(* numbers, outside of YAML's sets and pairs, wherever in one a fault is;  *)
(* and _enforce_shape, which does not go into sets and pairs, visits at    *)
(* most one node more than its limit, however wide or shared the document  *)
(* is.                                                                     *)
DocumentsLoaded == stage = "load" => L!LoadedIffSound /\ L!WalkBounded

(* ReferenceResolver leaves no reference, whether it stood in the node, in *)
(* a target or beside another reference, and refuses exactly what has a    *)
(* broken reference or no end within the limit, as a cycle has none; a     *)
(* target that is used twice is not a cycle.                               *)
ReferencesResolved == stage = "resolve" => R!NoReferenceLeft /\ R!UnresolvedForCause

(* analyze_document gives no two tools one name: the operation that keeps  *)
(* it is the first by path and method, whatever the order of the file.     *)
(* Every operation of a path whose references resolve has a result, unless *)
(* the limit is met before it, and then the path is reported; a broken     *)
(* reference is reported, and costs all operations of its path their       *)
(* results; only the exceptions that Fatal lists end the analysis; and a   *)
(* base URL that is missing has a diagnostic (_analyze_operation,          *)
(* _resolve_base_url).                                                     *)
OperationsAccounted ==
  stage = "analyse" =>
    /\ O!NamesUnique
    /\ O!FirstClaims
    /\ O!EveryOperationAccounted
    /\ O!BaseUrlExplained

(* Whatever an identifier or a path is made of, its tool name is one that  *)
(* the contract admits; naming it again changes nothing; and _bounded      *)
(* keeps names apart that were apart before they were shortened.           *)
NamesKept ==
  stage = "name" => N!NamesAdmitted /\ N!NamingStable /\ N!ShorteningKeepsDistinct

(* convert_schema admits exactly the values that the source schema meant,  *)
(* less the properties that it does not name, at every level, and drops no *)
(* keyword that constrains a value.                                        *)
SchemasKept == stage = "convert" => SC!ConversionFaithful /\ SC!NothingSilentlyDropped

(* Published versions ascend in the order of publication, a prerelease     *)
(* before its release (_reject_version_regression), and the version that   *)
(* an open draft proposes can be published as it stands, named or          *)
(* suggested (_next_version).                                              *)
VersionsAscend == stage = "version" => V!VersionsAscend
=============================================================================
