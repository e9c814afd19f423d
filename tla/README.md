# A TLA+ verification of ToolLayer

ToolLayer turns an OpenAPI document into a governed set of tools. A **Control
Plane** registers the document, lets a person review what was derived from it,
publishes immutable connector versions and pins them in deployment snapshots. A
**Runtime** fetches the active snapshot of one deployment, verifies it, and runs
at most one governed call to the upstream API per request. This directory holds
TLA+ models of that code, the TLC configurations that check them, and proofs
that TLAPS checks. Paths below are relative to the repository; `CP` is
`apps/control-plane/backend/control_plane`, `RT` is
`apps/runtime/runtime_service`, `POL` is
`packages/policy-engine/toollayer_policy`, `CON` is
`packages/contracts/toollayer_contracts`, `OAS` is
`packages/openapi-converter/toollayer_openapi`, `provider.py` is
`packages/mock-llm/toollayer_mock_llm/provider.py`, and `App.tsx` is
`apps/control-plane/frontend/src/App.tsx`.

To check a configuration: `tlc -config X.cfg M` with the module that
`PROJECT.json` names for it. To check the proofs: `tlapm MProofs.tla`.

## 1. Inventory

| Component | State | Operations | Interacts with | What is hard | What makes it correct |
|---|---|---|---|---|---|
| Registration, review, publication (`CP/service.py`, `review.py`, `publication.py`) | connectors, one draft per connector, published versions | register, read, edit, publish, disable | database; the console and scripts as clients | requests overlap; values are read before the first write and used after it; ids are reused | an accepted edit was made to what its author read; versions rise, are immutable, and hold only what was reviewed |
| Deployments and snapshots (`CP/service.py`) | deployments, snapshot rows | create a deployment, create a snapshot, read the active one | published versions; the runtime | two creations race; one step of a flush fails | revisions are 1..n; one snapshot is active; what is served never goes back |
| Transactions (`CP/db.py`) | one session per request | commit before the response, roll back on an error | every handler | what is committed before whom | (part of the two above) |
| Internal read API (`CP/routes_internal.py`) | none | conditional read | snapshot client | a tag that is out of date | 304 only for what is served |
| Snapshot client and store (`RT/snapshot.py`) | the held snapshot and its age, a lock | fetch, verify, ensure_fresh, refresh | internal API; every request | threads, failing fetches, a lock held across the network | only verified snapshots are served, never an older one; a failed refresh does not fail a request; the newest is reached |
| Orchestrator (`RT/orchestrator.py`, `main.py`) | locals of a turn | chat, execute, discovery | store, provider, executor | the held snapshot changes during a turn; the provider is not trusted | one revision governs a call; at most one call; the answer says what was done |
| Authorization (`POL/authorization.py`) | none | decide | orchestrator | two users of one decision | discovery and execution agree |
| Executor and transport (`POL/executor.py`) | the bytes collected | prepare, send, judge | upstream API | an upstream that lies, stalls or breaks off | bounded intake, whole results, no retry, an end |
| Arguments (`POL/arguments.py`) | none | validate, build the request | executor | encoding, pointers, placeholders | an argument stays in its place in the request |
| Destinations (`POL/destinations.py`) | none | check a method, a URL, addresses | executor, DNS | spellings of one host, mapped addresses, an address that changes after the check | only listed origins and admitted addresses are contacted; nothing listed is refused; no other name is looked up |
| Identity (`RT/identity.py`) | none | resolve a caller, issue a token | runtime, identity provider | modes, order of checks, expiry, clocks apart | roles come from a verified assertion; a token lives as long as it says |
| Signing and versions (`CON/signing.py`, `canonical_json.py`, `version.py`) | key rings, builds | sign, verify, find a key, support a version, compare versions | both services | rotation and upgrades, one process at a time | what was signed is what is used, and a step that makes the active snapshot unloadable is one that can be named |
| Provider adapters (`CON/adapters`) | payloads and diagnostics of a projection | project, take a call back | a model's provider | a format that says more than the contract | what a model says comes back as a valid call |
| Contract models (`CON/models.py`, `validation.py`) | none | validate | conversion, publication | refusals that conversion does not expect | (part of conversion) |
| OpenAPI conversion (`OAS`) | the documents and diagnostics so far | load, resolve references, analyse, name, convert | registration | cycles, collisions, limits, two dialects | every operation becomes a faithful tool or a reason; it ends; names are unique |
| Mock provider (`packages/mock-llm`) | none | select, fill arguments, format | orchestrator | ties and thresholds | it chooses among what it was offered, and says only what it was told |
| Console (`apps/control-plane/frontend`) | what it last read, the run under way | register, review, publish, deploy, refresh | registration, deployments | lost answers, refusals, other consoles | it acts on what it shows, and shows what is so |
| Redaction, configuration, migrations, scripts, demo API | - | - | - | - | not part of the core logic |

`PROJECT.json` lists every component with its status, and under `hazards` the
places in the code where something can go wrong that a test would hardly reach.

## 2. What is modelled

### Snapshots: deployments and their snapshots

Variables are the tables (`published`, `disabled`, `deployments`, `snapshots`)
and the locals of each handler (`req`). `create_snapshot` is split where the
code reads the database: `BeginSnapshot` (the deployment), one
`ResolveSelection` or `RejectSelection` per selection, `AllocateRevision` (the
last revision), `LoadPrevious` (the active rows), and the flush, which either
writes everything and commits (`FlushSnapshot`) or meets
`uq_deployment_revision` and is rolled back as a whole (`ConflictSnapshot`).
`create_deployment` is a check and an insert. A request may die at any point
(`AbortRequest`). `PublishVersion` and `DisableVersion` are the writes of other
requests that a creation can see.

`SnapshotLog` is the abstract specification: per deployment an append-only log
of which the last entry is served. `LogRefinement` says that `Snapshots`
implements it.

### SnapshotStore: what the runtime holds

The Control Plane is the sequence of snapshots it has written, each with whether
a runtime can load it. (It accepts a snapshot in which two connectors share a
tool name, which `_index` refuses.) A caller of the store asks (`AskRefresh`, or
`ServeFresh` if the held snapshot is young), takes the lock and reads `_current`
(`AcquireLock`), waits for the answer (`Answer`, `FailFetch`), and ends in
`InstallLoaded`, `RenewHeld` (304), `KeepHeld` (a `ToolLayerError` with
something to fall back on) or `RaiseError`. The digest covers the revision, so
the entity tag is the revision. Time is whether the held snapshot is older than
`refresh_seconds`.

### Authoring: drafts, reviews and versions

Variables are the tables of connectors, drafts and versions, and for each client
the draft it last saw and the locals of its request. On the default database,
SQLite, a handler's SELECTs are reads of committed rows outside any transaction
until its first write; from there it holds the only write lock. So a handler is
one action per read and one from its first write to its commit: `BeginUpdate`
then `CommitUpdate`; `BeginPublish` (the draft), `CheckPublish` (the versions)
then `FlushPublish`; `BeginRegister` then `CommitRegister` for a new connector,
and `RegisterAgain` in one step for an existing one, whose first write comes
before its reads. The ORM's writes are modelled as SQL: an UPDATE sets the
columns that changed and goes by the row's id, a DELETE that matches no row is a
warning, and a new row gets one more than the largest id in the table.
`MaxInFlight` bounds how many handlers run at once: with 1 requests do not
overlap.

A draft's review is a function from its operations to entries (selection, origin
of the description, access mode, whether there are roles). A source document is
told by its operations, the ones that need a description, and whether it names a
server. A version is a number.

### Transport: one call on the wire

The streaming loop of `HttpxTransport.send` byte by byte, and the judgement of
`ToolExecutor.execute`. The upstream chooses the status, the declared length,
the size of each piece, and whether the body ends, stalls or breaks off. Bytes
are counted as `iter_bytes` yields them; what httpx buffers while it
decompresses is not in the model.

### Turn: requests to the runtime

Both execution paths, one action per step: `Acquire`, `Discover`, `Select`,
`Resolve`, `Arguments`, `Authorize`, `Confirm`, `Prepare`, then `EndDryRun`, or
`FailConnect` where no connection is opened, or `Send` and `Receive` or
`FailCall`. A call counts as made once `Send` has put it on an open connection.
The refusals keep their codes, because what a caller may conclude differs: a
timeout and an unavailable upstream are answered both by `FailConnect` and by
`FailCall`, so they say nothing of whether the call was made, and neither does an
internal error (a URL longer than httpx takes, a body nested too deeply for
`_decode`); a refused redirect and too large an answer say that it was.
`AnswersHonest` states exactly this. The provider may answer any name; a client
may name any tool. The held revision moves on between any two steps (`Refresh`).
The endpoints are coroutines that call this synchronous code, so today one
process runs one turn at a time; the model is that of a host with threads, which
the store's lock is written for and which includes the simpler case.

### Loading, References, Analysis, Naming, SchemaConversion, Operations: from a document to tools

Conversion is one pipeline, with one module for each stage; a module takes what
the stage before it returns as its input, so each can be checked over all small
inputs of its own kind.

- **Loading** (`OAS/loader.py`): the checks on the bytes, what the two parsers
  refuse, and `_enforce_shape`, whose stack is a variable: one `PopNode` per
  turn of its loop. A document is a function from positions (the child numbers
  on the way from the root) to nodes, so that what it holds anywhere is said
  with a quantifier; what a YAML alias shares has a position for each use, as
  the walk has it. `visited` is auxiliary: it says which positions `nodes`
  counts. `StackDepth` stands for the interpreter's recursion limit, which the
  parsers meet before the loader's own limits are looked at; how deep a text
  nests is a field of its own, since an aliased node may stand deeper in the
  tree than in the text. What SafeLoader makes of `!!set`, `!!pairs` and
  `!!omap` is neither a dict nor a list: `PopNode` counts such a node and does
  not go into it, as the code does. A scalar that its tag does not fit raises
  something that `_parse_yaml` does not catch.
- **References** (`OAS/references.py`): a document is a function from places
  (the keys and indices on the way from the root) to nodes, and so is what
  `Resolve` makes of one. `ResolveNode` is one call of `_resolve` (a container,
  a reference with its siblings, a scalar) by what its calls one level deeper
  return; `Levels` is the recursion, a function of the levels that are left
  under the depth limit. `seen` has the targets that the call is below; two
  spellings of one pointer are one target, since a cycle is refused at whichever
  of them it is noticed. The definitions it is compared with (`Uses`,
  `Unfolded`, `Resolvable`) say what a place is made of, step by step, with no
  set of targets seen and no order in which things are resolved.
- **Analysis** (`OAS/analyzer.py`): the loop over path items (`pending` are the
  ones that are left, and `Item` the first of them) and within an item the loop
  over methods (`next`), one action for each way that a turn of either ends,
  with the names claimed so far, the operation limit and the base URL. Three
  exceptions leave the loops altogether (`Fatal`): a base URL on which
  `urlsplit` raises, an item that is a reference to something other than an
  object, and an operation that the contract models refuse.
- **Naming** (`OAS/naming.py`): texts are sequences of characters here, because
  its properties are about the pattern and the length of names. `SnakeCase` goes
  through a text once, character by character, and does at each what the three
  regular expressions do there. The ten characters of a digest are one, so that
  the limit of a name is `MaxToolNameLength` minus nine of them.
- **SchemaConversion** (`OAS/schema_conversion.py`): `ConvertSchema` against
  `Meant`, which says what values a source schema admits in its own dialect. A
  schema and a value are functions from paths to what there is at a path
  (**Trees**), so that what `convert_schema` does at every level is said with a
  quantifier: it refuses the whole exactly if some schema in it has a `Fault`,
  whichever it meets first, and else converts each where it stands.
- **Registration** composes Loading, References, Analysis, Naming,
  SchemaConversion and Versions (below): the stages of a registration, whose
  promises are proved too.
- **Operations** (`OAS/converter.py`, with the validators of `CON/models.py`
  that it runs into): parameters collected and overridden, placeholders, bodies
  and bindings.

### Requests and Pointers: from a tool to a request

`Requests` extends `Operations` with `validate_arguments` and `prepare_request`
(`POL/arguments.py`): an operation is converted (`Convert`), arbitrary arguments
are tried on the tool (`Validate`) and made into a request (`Prepare`).
`Pointers` has JSON pointers with their escapes on both sides, the writer in the
converter and the readers in the runtime. Texts are taken one character at a
time, as recursive functions of how many characters are done: `ReplaceStep` for
`str.replace`, `SplitStep` for `str.split`, `ScanStep` for the placeholders of a
template. The loop of `prepare_request` is `Built`, a function of how many
bindings are done. `RequestFaithful` compares the outcome with the template
filled in at once (`Filled`), whereas the code replaces one placeholder after the
other in what the ones before it left, and with the supplied query arguments and
fields of the body.

### Versions

`compare_precedence`, the regression check of a publication and `_next_version`
(`CP/service.py`), with prereleases as ranks. Tuples compare as Python's do,
including that a string and `None` do not compare. `Authoring` has versions as
plain numbers and opens the interleaving of handlers up; here handlers are whole
and the versions are real.

### Trust: signatures, key rings, contract versions

A control plane and several runtimes, each with a build and a configuration that
only a restart changes. `FreeSpec` lets every setting change at any time and
documents be altered on the way. `RotationSpec` has the three steps of a key
rotation, each with the condition that `docs/deployment.md:149` states for it and
no other, while processes restart, snapshots are published and both services are
upgraded in any order. The condition of the last step, that no runtime is serving
a snapshot signed by the old key, is one to begin removal with: once a ring is
rid of the key the others follow.
Digests and signatures are the values that they are computed from.

### Identity

`CallerAuthenticator` (`RT/identity.py`) in both modes. The checks on a token
are a sequence in the order of the code, so that the first that fails is the
refusal. There are two clocks, which differ by up to the skew that the code
allows, and ticks of less than a second, since `exp` is a whole number of
seconds. A token may be altered in every segment.

### Destinations

`DestinationPolicy` with the allowlist parsed at the start, the check of a
prepared request, the lookup, and the connection, which looks the name up again.
Names change their addresses at any time except between the check and the
connection; that gap is a limit the documentation states
(`docs/deployment.md:269`).

### Adapters

`ProviderAdapter.project` tool by tool, `assert_projectable` with the depth that
it reads off a pointer, the strict form of the OpenAI adapter, and
`normalize_provider_arguments` on every call that the projected schema accepts.
Schemas and values are the trees of **Trees** here too: `_strictify` is what it
does at a path (`StrictNode`), at the paths that its recursion comes to
(`Entered`: properties of objects, and their items, but not the items of items).
Nothing in `src/` calls the latter outside of tests; `Call` is a host that does.

### Provider

`select_tool` with its scores in half points, and `generate_arguments` with the
three strategies for an identifier. A loop that returns at the first match is the
least place at which there is one (`First`), and the schema of an argument is the
set of its leaves with the paths to them, since `_extract_object` goes down to
each on its own. The tools are those of the demonstration, cut down to the words
that matter.

### Console

What each browser shows, and the runs of its buttons as sequences of requests,
each one step (`Authoring` and `Snapshots` open the handlers up). A request may
be refused, or stay without an answer after it took effect or before.

## 3. Runs

| Run | Result | States | What it shows |
|---|---|---|---|
| `snapshots` | passes | 37,755 | two racing creations, publications and disablements: revisions, one active snapshot, pins, immutability, the log refinement |
| `snapshot_store` | passes | 57,168 | two threads, every fault, three revisions: only verified snapshots, none older than before; a loadable one is eventually held, the lock is released, a failed refresh is no failed request |
| `snapshot_store_malformed` | violated | | an answer below 400 that is not JSON fails a request although a snapshot is held |
| `authoring` | passes | 619,000 | what holds however requests overlap: consistent tables, immutable versions, ready when published |
| `authoring_sequential` | passes | 898,000 | what holds if they do not: a revision identifies its content, versions rise |
| `authoring_lost_update` | violated | | two overlapping edits, one is lost |
| `authoring_version_race` | violated | | two overlapping publications, the lower version last |
| `authoring_reregistered` | violated | | a replaced draft is published against the revision of the old one, with no overlap at all |
| `authoring_wrong_draft` | violated | | an edit lands in another connector's draft |
| `transport` | passes | 1,252 | intake, completeness, cause, one call, termination |
| `turn` | passes | 3,237,951 | two requests under changing snapshots: calls governed by one revision, at most one; no call claimed that was not made or denied that was; discovery agrees |
| `components` | passes | 965,154 | the components that work on one input, or on a few variables of their own, part by part |

The run puts its parts side by side, and a behaviour follows one part. Two
modules do so for the parts whose promises are proved too, each with variables of
its own, which rest while another part is followed: `Registration` for loading,
references, analysis, naming, schemas and versions, and `Perimeter` for consoles,
trust (twice), callers, the provider, the adapters, requests and destinations.
`MCComponents` extends both and takes the inputs from the MC modules. Each
property is what one part promises, under its name in the part's module.

| Part | Module | States | Property | What it shows |
|---|---|---|---|---|
| load | Loading | 10,177 | `DocumentsLoaded` | a document is loaded exactly if the parser takes it and, outside of sets and pairs, it is sound and within its limits; the walk stops at its bound |
| resolve | References | 69,696 | `ReferencesResolved` | no reference is left; a node is refused exactly if it is made of a broken reference or has no end within the depth limit |
| analyse | Analysis | 19,244 | `OperationsAccounted` | unique names, the first in path order keeps its name; every operation of a path that resolves has its result or is beyond the reported limit, those of another path have none and its reference is reported; an exception and a missing base URL are accounted for |
| name | Naming | 1,194 | `NamesKept` | names match the contract, stay apart when cut, and are stable |
| convert | SchemaConversion | 1,168 | `SchemasKept` | the emitted schema means what the source meant, and nothing is dropped in silence |
| version | Versions | 39,561 | `VersionsAscend` | published versions rise; a draft's version can be published |
| console | Console | 83,200 | `ToolsOfNewest`, `RetryPublishesNothing` | tools of the newest version; a repeated publication publishes nothing |
| trust | Trust | 14,420 | `HeldAuthentic` | what is held and signed was published under a trusted key, whatever is configured or arrives |
| rotate | Trust | 5,309 | `LossesExplained` | in a rotation with upgrades, a runtime loses the active snapshot only to a publication by a newer minor build, or to a removal of the old key before anything was published under the new |
| identify | Identity | 272,325 | `CallersProven` | identities are proven, lifetimes honoured, signatures first |
| propose | Provider | 38,614 | `ProposalsGrounded` | the choice does not depend on the order of the tools; proposals come from the request, for declared arguments, with numbers within the inclusive bounds |
| adapt | Adapters | 1,186 | `ProjectionsReversible` | every tool is projected or reported; exactly the calls without placeholders below the top level are valid once normalized; exactly the accepted objects with every property below the top level, and every argument that only null fits, can be said in the strict form |
| prepare | Requests, Operations | 41,156 | `RequestsFaithful` | every argument bound once, overrides, requests faithful, refusals explained |
| contact | Destinations | 367,904 | `DestinationsAdmitted` | contacts allowed, refusals justified, lookups listed |

The violated runs are disagreements between the code and what its comments or
documents say; `findings` in `PROJECT.json` quotes the lines. On PostgreSQL the
lost update, the version race and the re-registered draft are the same, since
none of the statements locks what it read; ids are not reused there, so the
wrong-draft run is about SQLite only. For the same reason a publication that was
overtaken by another one deletes whatever draft has its id by then.

**Bounds.** Two requests or clients show every race between a pair of handlers.
For Snapshots, SnapshotStore, Turn and Authoring the safety properties are also
proved for any number (section 5), and so are the invariants that those proofs
rest on, which no run repeats. Snapshots lets requests start up to revision 2,
so a racing pair writes a third; selections cover one pin, two connectors and a
repeated connector. The store has two threads, one that refreshes and one that
waits for it or is served meanwhile, and three revisions for an answer that is
two behind. Authoring has two connectors, because ids move between drafts of
different ones, and two registrations, which is what replacing a draft takes;
the edits are the ones that tell the cases of `apply_update` apart. Transport
has a limit that is no multiple of the chunk size, so the limit is met inside a
chunk and at a boundary. In Turn one tool becomes restricted between the two
revisions, one becomes public, one is withdrawn and two are added that no call
may be sent to.

The modules of the conversion are checked over sets of inputs, one of each kind
that the code tells apart and their combinations: documents one level deeper
than the depth limit, a text that nests deeper than the parsers go, and sets
and pairs with what the walk would refuse in them (Loading); all pairs of
definitions that refer to each other, to a part of one, to nothing or abroad, some
of them lists or scalars, with siblings and without, under a depth limit that some
of the acyclic ones exceed (References); two paths of two methods each with a third behind them, so that
the limit of three operations is met inside a path, between paths and not at all
(Analysis); every identifier of up to four characters, whose words joined are
longer than the four that a name may have (Naming); every combination of bounds
in both dialects and objects up to one level past the limit (SchemaConversion);
up to three parameters that may share their names, with field names and values
that hold what pointers and paths escape (Requests). Versions has the numbers 0
and 1, two prereleases and three publications, so that a release can stand
between two of its prereleases in any order. Trust has two keys and a third one
with the identifier of the first and another pair; one runtime is enough for the
free settings, whose property is about each alone, and two make a rotation that
is half done. Identity runs for longer than a lifetime and the allowance on both
sides. Destinations has one URL for each way of differing from its allowlist
entry, and an address of each kind, one that does not parse among them. Provider
has all requests of up to three items, three in which words are left over, and
two with negative numbers; one number has an exclusive bound and one identifier a
pattern. Adapters has tools of up to two properties, one for each rule of the
projection, alone and before another tool, and every argument object over their
names. Console has two browsers, one lost answer and two registrations.

**Deadlock** is checked except where the work of the model ends: in `transport`
and `turn` a request that is answered takes no further step, and most parts of
`components` stop when their input is done (Identity when its clock does).

**Statements that do not hold.** The modules of the parts also state what a
comment or a document says of the code where TLC finds that the code does
otherwise. No run keeps them; to see a counterexample, add the statement to
`MCComponents`, `Registration` or `Perimeter`, as the properties there are, and to
`Components.cfg`. The one that names a specification needs its module checked under
that specification, with the constants that `Components.cfg` gives it; those of
`Turn` and `Snapshots` go into `Turn.cfg` and `Snapshots.cfg`.

| Statement | Says | Code | What happens |
|---|---|---|---|
| `Snapshots!DisabledNeverEnters` | `docs/control-plane.md:174` | `CP/service.py:465` | a version that is disabled between the check and the commit is in the new snapshot |
| `Loading!NestingReported` | `OAS/loader.py:212` | `OAS/loader.py:76` | nesting beyond the parser's recursion is no clean refusal |
| `Loading!LimitsHoldEverywhere` | `OAS/loader.py:10` | `OAS/loader.py:224` | what a YAML set or pair holds is not counted |
| `References!SiblingsOnlyAnnotate` | `OAS/references.py:76` | `OAS/references.py:82` | a sibling replaces a keyword of the target |
| `Analysis!SiblingsConvert` | `OAS/converter.py:27` | `OAS/analyzer.py:133` | a broken reference takes the other operations of its path with it |
| `Analysis!DocumentSurvives` | `OAS/analyzer.py:5` | `OAS/analyzer.py:140` | one path item, operation or server URL ends the analysis with an exception |
| `Requests!FailureIsExplicit` | `OAS/analyzer.py:5` | `OAS/naming.py:69` | an operation that the contract models refuse fails the whole analysis |
| `Requests!ValidCallsArePrepared` | `POL/errors.py:82` | `POL/arguments.py:183` | valid arguments for which there is no request |
| `Requests!NullReachesUpstream` | `POL/arguments.py:200` | `POL/arguments.py:113` | a null that is meant is not sent |
| `Turn!UnreachedMeansUncalled` | `POL/executor.py:166` | `POL/executor.py:162` | an upstream that "could not be reached" was called: the connection broke after the request had left |
| `Versions!SuggestionGiven` | `CP/service.py:346` | `CP/service.py:355` | no suggestion after a prerelease and its release: the comparison raises |
| `Trust!ActiveLoadable` | `docs/deployment.md:149` | `CON/signing.py:237` | the old key leaves the rings, as step 3 allows while no runtime holds a snapshot, and the active one is still signed by it |
| `Trust!MinorChangesAccepted` | `CON/version.py:5` | `CON/version.py:93` | a runtime refuses the snapshot of a newer minor version |
| `Identity!AssertionsIgnored` | `RT/identity.py:13` | `RT/identity.py:94` | headers are refused, not ignored |
| `Adapters!ReversibleEverywhere` | `docs/contracts.md:110` | `CON/adapters/openai_adapter.py:156` | placeholders below the top level stay in |
| `Adapters!AcceptedSayable` | `CON/adapters/openai_adapter.py:16` | `CON/adapters/openai_adapter.py:99` | an absent property below the top level cannot be said: it is required, and its null stays in |
| `Adapters!EveryPropertyRequired` | `CON/adapters/openai_adapter.py:61` | `CON/adapters/openai_adapter.py:91` | arrays of arrays keep optional properties |
| `Provider!ChangesNeverRead` | `provider.py:108` | `provider.py:262` | a request for a change selects a read |
| `Provider!EffectsAskedFor` | `provider.py:250` | `provider.py:256` | a request without its verb selects a change |
| `Provider!IdentifiersDistinct` | `provider.py:439` | `provider.py:449` | one identifier for two arguments |
| `Provider!ProposalsConform` | `provider.py:268` | `provider.py:316` | exclusive bounds and patterns are not looked at |
| `Provider!NumbersMeant` | `provider.py:272` | `provider.py:317` | the digits of "-5" are taken for 5 |
| `Console!ConflictReloads` (`FairSpec`) | `App.tsx:158` | `App.tsx:159` | the console keeps the draft that was refused |
| `Console!ServedIsActive` | `App.tsx:202` | `App.tsx:205` | the tools shown as served are not those of the active snapshot |

**Symmetry** is used only in runs that check invariants and action properties.

## 4. Fairness

`SnapshotStore!FairSpec`: time passes (`Expire`); requests keep coming, so
`ensure_fresh` is called once the snapshot is old (nobody has to post to the
refresh endpoint); a free lock goes to some waiter, which is all that
`threading.Lock` promises; the client's timeout ends every fetch and the code
after it runs to its end; and the Control Plane is not out of reach for ever
(strong fairness of an answer). Under these `CatchesUp` and `RefreshSettles` hold.
`CatchesUp` says nothing of a snapshot that no runtime can load: until a better
one is written the runtime stays on the old one, by design.

`Transport!FairSpec`: the code runs on, and every wait of httpx ends in bytes, in
the end of the body or in a timeout. `Terminates` does not rest on the upstream
ending its body: every read brings the loop closer to the ceiling.

`Console!FairSpec`: a request that a run has sent is answered or fails, which
the browser sees to. Nothing is assumed of the users: a console may stay idle for
ever, and one that does refutes `ConflictReloads`. No run uses it.

## 5. Proofs

TLAPS proves these for every value of the constants: any number of requests,
threads, clients, deployments, revisions, keys and bytes. A `Max...` constant of
a model may be any number, so a bound that TLC needs bounds nothing here.
`PROJECT.json` names the property of a run that each theorem states. The
inductive invariants were first checked by TLC on the instances of the runs.

**SnapshotsProofs.** `Invariance` proves `Spec => []IInv` with `IInv` the
conjunction of `TypeOK`, `RevisionsContiguous`, `OneActive` and
`StaleReadsAreTaken`. The first three are not inductive: a creation deactivates
only the rows that it loaded, so nothing in them keeps it from writing beside an
active row that came later. `StaleReadsAreTaken` says why it cannot: either the
revision that it computed has been taken meanwhile, and the constraint refuses
the flush, or every row that is active was loaded. From `IInv` follow
`RevisionsNeverReused`, `ExactlyOneActive`, `TypeCorrect`, and the action
properties `RowsImmutable` and `ServedMonotone`. `PinsAreAdmissible` needs
`RequestPins` beside it, which says of a creation half done what it has picked:
resolution takes one artifact at a time between the commits of others.
`ImplementsLog` is the refinement of `SnapshotLog`: a flush is one `Write`, every
other step a stutter; `EntryIsRow` shows that the choice in the mapping is
determined, because a revision has one row. Assumptions: selections are nonempty
sequences of artifacts, and the bound is a number.

**SnapshotStoreProofs.** `IInv` is `TypeOK`, `OnlyVerifiedServed`,
`RefreshIsCurrent` and `RefreshDiscipline`. The last one is what the lock is
for: whoever holds it is the only one, what it read as held is still held, and
its answer is no older. Without it neither monotonicity nor currency is
inductive. Theorems: `VerifiedOnly`, `RefreshCurrent`, `HeldMonotone`,
`TypeCorrect`, for every set of faults, the malformed answer included.

**AuthoringProofs.** `TablesStayConsistent`, `PublicationsAreReady` and
`VersionsAreImmutable` hold however requests overlap. The invariant `IInv` has
`DraftRows` (ids and registrations tell drafts apart, one draft per connector,
and what a draft's review may look like) and `RequestsOK` (what a handler carries
from its reads to its commit is still good enough to be written, although the
rows may have changed): a publication checks a draft that it read, and it is the
shape of that copy, not of the row, that `PublishedReady` depends on.
`VersionsRegistered` and the count of registrations keep a published
registration from coming back. `SequentialVersionsIncrease` and
`SequentialRevisionsIdentify` assume `MaxInFlight = 1`, and are false without it
(the violated runs). Their invariant `SequentialInv` adds that whoever is under
way is alone, that what it read is therefore current (`RequestsCurrent`), and
that what every client last saw is not ahead of the rows (`ViewsCurrent`).
Assumptions: finitely many clients, edits that are sequences of updates of the
API's types, and placeholders that are operations of their document.

**RegistrationProofs** proves the six properties of `Registration`, for
`RegistrationSpec`. A behaviour that follows one stage is a behaviour of that
component, so each theorem comes from a lemma about the component alone. Where a
component has a loop over data, the induction is an appeal to the least place at
which the claim would fail (`LeastNat`), which the prover can follow.

- `SoundDocumentsLoad` (`LoadingKeeps`), for every upload and every limit. That
  a document which was walked to the end is orderly, wherever a fault could be, is
  not visible from the stack and the counter. `LoadingInv` relates them to
  `visited`: no position is visited twice or while it waits, the count is that
  of `visited`, what was visited is free of faults, and every position is
  visited, waits on the stack, is below one that does or stands in a set or a
  pair. So an empty stack leaves out nothing that the walk goes into
  (`WalkComplete`), and the count is the number of these positions, which is
  what the limit is about. Assumption: a document is a tree, which need not be
  finite, and only YAML has sets, pairs and odd keys.
- `ReferencesAreResolved` (`ReferencesKeep`), for every document, place and depth
  limit. `LevelsAre`, `EndsAre` and `UnfoldedIs` are the equations of the three
  recursive functions; the rest is by the number of levels left. A result has no
  reference in it and a root of the kind that its reference leads to in the end
  (`ResultsAre`), which is what decides whether siblings are looked at.
  `RefusedFor` says what one call is refused for. That nothing is refused
  without cause (`ResolvableIsResolved`) needs `LeadsTo`: every target that a
  call is below leads to its place in the same number of steps wherever it is
  met, so a target met again below itself would come back without end, and what
  it is part of would not end within the limit. That whatever is not refused has
  an end (`ResolvedIsResolvable`) goes the other way, from the place downward.
  Assumption: the places of a document form a tree, and only objects have
  references.
- `EveryOperationIsAccounted` (`AnalysisKeeps`), for every document. The
  properties speak of the end of the loop, or of all pairs of results;
  `AnalysisInv` adds the order of the results (`OrderHolds`: by path and then
  by method, and none of them beyond the place where the loop is), that each is
  that of its operation (`ResultHolds`), and that every operation which the
  loop has passed is accounted for (`PassedAccounted`), also in the middle of an
  item. That a path with a broken reference has no result comes from the other
  side: each result is of an item that resolves, and paths tell items apart.
  Assumption: paths and methods are distinct keys.
- `ToolNamesAreKept` (`NamingKeeps`), for every identifier, path and limit of
  more than two. What comes of the first characters of a text is *tidy* at
  every place: made of what names are made of, no separator first and no two in
  a row (`SpacedRunTidy`); joining, cutting and appending a digest keep it so
  (`TidyConcat`, `TidyPrefix`, `ShortenedNamed`), hence the pattern. A tidy text
  without a separator at its end is a fixed point of `_snake_case`
  (`SnakeFixed`), hence the stability. `ShorteningInjective` tells names apart
  by the digests at their ends. Assumption: SHA-256, cut to ten digits, tells
  the full names of a document's operations apart, and no identifier spells the
  digest of another; letters, digits and separators are disjoint.
- `SchemasAreKept` (`SchemasAlwaysKept`), for every schema, value and depth limit.
  Both what a converted schema admits and what its source means are said path by
  path, so no induction over the nesting is needed: at a path that the source
  names, what `convert_schema` wrote admits what the source says
  (`OneSchemaFaithful`), both forms of an exclusive bound included; and a value with a
  part that the source does not name has a first such part, whose parent is an
  object that was closed. Assumption: trees are trees, and bounds and sizes are
  integers.
- `VersionLinesAscend` (`VersionLineAscends`). `compare_precedence` is the
  lexicographic order of what versions weigh (`LexLessWeight`), so a strict
  order, and a bump exceeds what it bumps. `_next_version` takes the highest of
  the rows by a running comparison. The theorem includes the prereleases: the
  comparison that raises on a prerelease beside its release leaves no draft with
  an unpublishable version. Assumption: numbers are numbers.

**TrustProofs.** `HeldSnapshotsAuthentic` for `FreeSpec`: `AuthenticInv` adds that
what is published is sealed over its own content, since what a runtime verifies
is a document that may have been altered since. `RotationLossesExplained`
for `RotationSpec`: `RotationInv` says which keys the rings hold at each step of
the rotation, that what is published and what is held was signed by one of the
two, that nothing is signed by the new key before the switch, and that once
something is, the active snapshot is. So a publication verifies everywhere
(`PublishLoses`), and a removal of the old key loses only a snapshot that the old
key signed, with nothing published since the switch (`RetireLoses`); a runtime
that held anything would then serve the old key, which is what the documented
condition waits for. Assumption: an identifier and a pair
make a key, and the new key has another identifier than the old.

**WireProofs**, first the transport. `IInv` adds `Progress`, which relates the
counters while the body is read: what was collected is what arrived, it is within
the limit, and what was returned is either a body that ended or one byte over.
Theorems: `MemoryBounded`, `NeverTruncated`, `NeverOverzealous`, `NoRetry`, for
every limit and chunk size.

Then the request, `RequestsAreFaithful` for `PerimeterSpec`: whatever operations
a document has and whatever arguments arrive. `RequestsInv` says that the tool is
what the conversion returned for the operation, that nothing is built for
arguments which validation refused, and that a request is what `prepare_request`
returns for the others; the work is in what those functions compute. An induction
over their length is a least counterexample: `CountUp` and `Growing` state it once,
for the set of lengths up to which a fact holds.

- Texts. `str.replace` of one placeholder and the scan of the template are
  compared character by character: replacing `{name}` in a template that has some
  names filled in gives the template with one more (`FillOne`), since an inserted
  value has no brace after `quote`. That is where a value which looks like a
  placeholder would show.
- Pointers. What `Escape` writes, `Unescape` reads, whatever the name holds
  (`EscapeReversible`), so a binding reads the argument that it was written for
  (`PointersRead`).
- Conversion. It ends in a tool only if every check passed (`ConvertSound`); from
  that follow that every argument is bound once (`BoundOnce`) and that the
  operation's own declaration counts (`OwnCounts`).
- The loop. `Holds` says what is in the path, the query and the body after so
  many bindings, and `Stopped` why it may have ended (`BuiltHolds`); after the last
  one they give the request (`PreparedFaithful`) or the reason of a refusal
  (`PreparedExplained`).

Assumption: operations are what a parser returns (texts, lists, schemas of the
kinds that the converter tells apart), arguments are JSON values, and the name
that the converter gives the body's argument has nothing that a pointer escapes.

**TurnProofs.** The properties are not inductive, because what a call is judged
by was established steps before it was sent. `IInv` adds `Stages`: what a turn
has established by the step it is at (its snapshot, that the tool is in it, that
the arguments conform, that the caller may use it, that it was confirmed, that
the destination is admitted), and that whatever the caller was shown is what
the snapshot admits it to. Theorems: `EveryCallGoverned`, `OneCallPerRequest`,
`HonestAnswers`, `NoDisagreement`, `TypeCorrect`, for every catalog of policies,
any number of requests, and any refreshes in between. `Frame` is the lemma that
carries the proof: a step of one turn that sends nothing disturbs nothing but
what is about that turn. Assumption: `CatalogAssumption`, which is what
`ToolAccessPolicy` enforces on a verified snapshot.

**BoundaryProofs** proves the other eight properties of `Perimeter`, for
`PerimeterSpec`. A behaviour that follows one part is a behaviour of that
component (its Init and its steps are those of the component, the part never
changes), so each theorem comes from one about the component alone. Those of
Trust are in a module of their own: `HeldStaysAuthentic` and
`LossesAreExplained` come from the two theorems of `TrustProofs`. The prover
takes an operator of an instance of the proof module and the one that `Perimeter`
uses for two operators; `FreeStepsAgree`, `RotationStepsAgree` and `LossesAgree`
show that they are the same. The other five components are proved here.

- `ConsoleShowsNewest` and `RetriesAreIdle`, for any number of consoles.
  `ConsoleInv` says that the document is behind the list only while it is being
  loaded, and that a console whose publication stayed unanswered shows a version
  that is not above all published ones, so that the server refuses the second.
- `RequestsStayWithinPolicy`, for every allowlist, URL, name and set of
  addresses. `DestinationInv` adds what is known at the moment between the check
  and the connection (`CheckedHolds`) and that the parsed allowlist is the one
  that was configured. `OriginsAgree` and `AddressesAgree` are the lemmas that
  matter: the code's comparison of normalised spellings, and its order of
  questions to an address, agree with what the policy means. Assumption: URLs
  and entries are what a parser returns, and a mapped address has one inner one.
- `CallersAreProven`, for every ring, lifetime, allowance and difference of the
  clocks up to it. `VerdictIsFirst` says that the refusal is that of the first
  check which fails; from it follow that an accepted token passed them all, and
  that a refusal for a claim comes after a good signature. `IdentityInv` keeps
  how every token was made and when; the arithmetic of lifetimes is in
  `WholeSeconds` (what `int()` takes off) and `LifetimeBounds`. Assumption:
  identifiers of keys are unique and not empty (`TrustedKeyRing.parse`
  refuses others), and a second has a positive number of ticks.
- `ProposalsAreGrounded`, for every request, list of tools and table of words.
  That the choice does not depend on the order of the tools is about two lists
  at once: the best of a list comes before every other tool of it, and the order
  of the sort is total and tells tools of different names apart, so the best of
  either list is the best of the other. What is proposed is followed to the place
  of the request that a loop stopped at, which exists because there is one and
  the places are numbers; the offsets of strategy 3 keep the two words near.
  Assumption: requests, lists of tools, choices and prefixes are sequences, no
  list is empty, and a name has one tool.
- `ProjectionsAreReversible`, for every canonical schema, argument object and
  limit of `assert_projectable`. Acceptance is said path by path, so the two
  directions compare one schema at a time. `NormalizedIsValid`: a call that the
  strict form accepts is accepted by the contract, less its placeholders on top,
  if it has none below; `ValidHasNoPlaceholder` is the converse.
  `SaidIsUnderstood`: an object that the contract accepts and that is `Sayable` is
  accepted by the strict form with a null for each absent argument, and comes back
  as it was (`Said` is the witness); `UnderstoodIsSayable` is the converse, that
  no call is understood as another. An enum compares whole values, so both need that the
  parts of a value which are not on top stay the same (`PartsStay`,
  `SaidKeepsParts`), and that a null has nothing below it (`PartsHaveStems`, by
  the shortest path that would be there). `AdaptersInv` says that each payload is
  the projection of its tool and that the tools passed are accounted for.
  Assumption: what the converter sees to, which is that an input schema is an
  object's, that what is required is declared, and that an enum of type null has
  null; and that values are trees.

**Only model-checked.** The liveness properties (`CatchesUp`, `RefreshSettles`,
`Terminates`): fairness and ENABLED are out of the prover's reach. Every invariant
and action property of the passing runs has a theorem.

## 6. Limits of the model

- `PinsAdmissible` is about versions whose disablement was acknowledged
  before the creation began. A disablement that lands while a creation runs may
  be missed, as the code reads each version once (`DisabledNeverEnters`).
- What verification checks (schema, digest, signature, key) is a verdict on a
  document in SnapshotStore; Trust opens it up, in a model of its own.
  Cryptography is taken as given.
- JSON Schema validation, request building and the destination policy are
  choices or facts of a tool in Turn; Requests and Destinations open them up.
- The stages of the conversion are checked one by one. That an analysis hands
  its operations to a conversion which behaves as Operations says is read off
  the code; Requests composes Operations with the runtime's half, which is where
  the two must agree.
- Console leaves out the requests for the projections (`App.tsx:106`), whose
  failure ends a run as others do, and the second mount of a development build
  under StrictMode.
- Identity has no expiry that is not a finite number (with which a token lives for
  ever, or raises) and no segment with characters outside of ASCII (which raises
  before the signature is checked); neither is made by `issue_caller_token`.
- Requests has values without sizes, so that it is open whether arguments exceed
  the 64 KiB of `validate_arguments`.
- `Authoring!CommitUpdate` reads the versions in the transaction that writes; when
  the review is unchanged the code reads them with nothing to write.
- `ToolsOfNewest` holds until a request of `loadVersions` fails: the list and
  the document are then of two moments.
- Credentials, logging, wording and layout are left out.

**Not modelled.** Redaction is a function of text by regular expressions; its
properties are about spelling. The rest of the contract models are declarative
schemas. The demonstration API is a sample upstream, which Transport has as an
arbitrary one. Migrations hold the one initial schema, which the tables of
Authoring and Snapshots state. The scripts drive the services from outside. Of
the settings only those that decide trust and destinations are in a model. Of
the provider, the wording of a response is left out.

## 7. Plan

All modules of section 2 and their runs are done, and so are the proofs of
section 5, which cover the invariants and action properties of every passing run,
and the refinement. The liveness properties stay with TLC.
