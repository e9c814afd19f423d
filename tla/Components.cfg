\* A part that is done with its input takes no further step.
SPECIFICATION Spec
CHECK_DEADLOCK FALSE
CONSTANTS
  Uploads <- MCUploads
  MaxNodes = 5
  MaxDepth = 2
  StackDepth = 3
  Inputs <- MCInputs
  MaxResolutionDepth = 6
  Documents <- MCDocuments
  MethodOrder <- MCMethods
  MaxOperations = 3
  Sources <- MCSources
  Characters <- MCCharacters
  Upper <- MCUpper
  Digits <- MCDigits
  LowerOf <- MCLowerOf
  Separators <- MCSeparators
  MaxToolNameLength = 4
  Schemas <- MCSchemas
  Values <- MCValues
  MaxSchemaDepth = 2
  ItemStep <- MCItemStep
  MaxNumber = 1
  Prereleases = {1, 2}
  MaxPublished = 3
  Consoles = {"a", "b"}
  MaxUploads = 2
  MaxRevision = 2
  MaxSnapshots = 2
  MaxFailures = 1
  FreeRuntimes = {"r1"}
  FreeMinors = {1}
  Runtimes = {"r1", "r2"}
  Minors = {0, 1}
  Majors = {1}
  Keys <- MCKeys
  OldKey <- Old
  NewKey <- New
  MaxSealed = 3
  Ring <- MCRing
  HostKeys <- MCHostKeys
  Claims <- MCClaims
  Assertions <- MCAssertions
  Issuer = "host"
  Audience = "runtime"
  Skew = 1
  Lifetime = 2
  Second = 2
  MaxTime = 10
  MaxIssue = 1
  Utterances <- MCUtterances
  ToolLists <- MCToolLists
  Stopwords <- MCStopwords
  ShortWords <- MCShortWords
  MutationVerbs <- MCMutationVerbs
  Synonyms <- MCSynonyms
  Aliases <- MCAliases
  BodyArgument <- MCBodyArgument
  SourceOperations <- MCSourceOperations
  Candidates <- MCCandidates
  Catalogs <- MCCatalogs
  ArgumentObjects <- MCArgumentObjects
  ArrayStep <- MCArrayStep
  MaxNestingDepth = 4
  MaxTotalProperties = 2
  ItemsLike = {"items"}
  Names <- MCNames
  Literals <- MCLiterals
  Addresses <- MCAddresses
  Entries <- MCEntries
  Urls <- MCUrls
  Methods = {"GET", "POST"}
INVARIANTS
  DocumentsLoaded
  ReferencesResolved
  OperationsAccounted
  NamesKept
  SchemasKept
  VersionsAscend
  ToolsOfNewest
  HeldAuthentic
  CallersProven
  ProposalsGrounded
  ProjectionsReversible
  RequestsFaithful
  DestinationsAdmitted
PROPERTIES
  RetryPublishesNothing
  LossesExplained
