---------------------------- MODULE MCComponents ----------------------------
(***************************************************************************)
(* The components that work on one input, or on their own few variables,   *)
(* for TLC: the stages of Registration and the parts of Perimeter, side by *)
(* side.  A behaviour follows one of them, over the inputs that its MC     *)
(* module has.                                                             *)
(***************************************************************************)
EXTENDS Registration, Perimeter, MCIdentity, MCDestinations

vars == <<registrationVars, perimeterVars>>

(* The inputs of the parts. *)
LI == INSTANCE MCLoading
RI == INSTANCE MCReferences
OI == INSTANCE MCAnalysis
NI == INSTANCE MCNaming
SI == INSTANCE MCSchemaConversion
PI == INSTANCE MCProvider
AI == INSTANCE MCAdapters
QI == INSTANCE MCRequests

(* An old and a new key, and one that reuses the identifier of the old.    *)
Old == [id |-> "k1", pair |-> "p1"]
New == [id |-> "k2", pair |-> "p2"]
Impostor == [id |-> "k1", pair |-> "p3"]
MCKeys == {Old, New, Impostor}

(* The inputs of the stages. *)
MCUploads == LI!MCUploads
MCInputs == RI!MCInputs
MCDocuments == OI!MCDocuments
MCMethods == OI!MCMethods
MCSources == NI!MCSources
MCCharacters == NI!MCCharacters
MCUpper == NI!MCUpper
MCDigits == NI!MCDigits
MCLowerOf == NI!MCLowerOf
MCSeparators == NI!MCSeparators
MCSchemas == SI!MCSchemas
MCValues == SI!MCValues
MCItemStep == SI!MCItemStep

(* The inputs of the provider. *)
MCUtterances == PI!MCRequests \cup PI!MCLongRequests
MCToolLists == PI!MCToolLists
MCStopwords == PI!MCStopwords
MCShortWords == PI!MCShortWords
MCMutationVerbs == PI!MCMutationVerbs
MCSynonyms == PI!MCSynonyms
MCAliases == PI!MCAliases

(* The inputs of the adapters. *)
MCCatalogs == AI!MCCatalogs
MCArgumentObjects == AI!MCArgumentObjects
MCArrayStep == AI!MCArrayStep

(* The inputs of requests. *)
MCBodyArgument == QI!MCBodyArgument
MCSourceOperations == QI!MCSourceOperations
MCCandidates(tool) == QI!MCCandidates(tool)

Init ==
  \/ PerimeterInit /\ RegistrationRest
  \/ RegistrationInit /\ part = "none" /\ PerimeterRest

Next ==
  \/ PerimeterNext /\ UNCHANGED registrationVars
  \/ RegistrationNext /\ UNCHANGED perimeterVars

Spec == Init /\ [][Next]_vars
=============================================================================
