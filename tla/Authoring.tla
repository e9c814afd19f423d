------------------------------ MODULE Authoring ------------------------------
(***************************************************************************)
(* Connectors, their drafts and their published versions: registration,    *)
(* review and publication in the Control Plane (control_plane/service.py,  *)
(* review.py, publication.py, models.py).                                  *)
(*                                                                         *)
(* Handlers run in a thread pool on the default database, SQLite.  Their   *)
(* SELECTs are reads of committed rows, outside any transaction, until     *)
(* their first INSERT, UPDATE or DELETE; from there to the commit they     *)
(* hold the database's only write lock.  A handler is therefore one action *)
(* per read and one action from its first write to its commit.             *)
(*                                                                         *)
(* A description is told by its origin and a role list by whether it is    *)
(* empty.  A source document is a model value with the analysis it yields. *)
(* A version is a number: the next one is the minor bump of the highest.   *)
(***************************************************************************)
EXTENDS Integers, Sequences, FiniteSets, SequencesExt

CONSTANTS
  Clients,       \* console users and scripts, each with one request at a time
  Connectors,    \* connector keys
  Analysis,      \* per source document: [operations, placeholders, base]
  Edits,         \* what PATCH .../draft may carry, without expected_revision
  MaxInFlight,   \* bound: requests handled at once; 1 if they never overlap
  MaxUploads,    \* bound: registrations
  MaxRevision,   \* bound: edits of one draft
  MaxVersion     \* bound: version numbers

Sources == DOMAIN Analysis
Operations == UNION {Analysis[s].operations : s \in Sources}

Entry ==
  [selection : {"included", "excluded"}, origin : {"source", "generated", "human"},
   access : {"public", "restricted"}, roles : {"none", "some"}]

(* A ReviewUpdate; "keep" is None. *)
Update ==
  [op : Operations, selection : {"keep", "included", "excluded"},
   description : {"keep", "blank", "text"}, origin : {"keep", "source", "generated", "human"},
   access : {"keep", "public", "restricted"}, roles : {"keep", "none", "some"}]

ASSUME AnalysisAssumption ==
  \A s \in Sources :
    /\ Analysis[s].placeholders \subseteq Analysis[s].operations
    /\ Analysis[s].base \in {"present", "missing"}

ASSUME EditsAssumption ==
  \A e \in Edits :
    /\ e.updates \in Seq(Update)
    /\ e.version \in Nat
    /\ e.base \in {"keep", "present", "missing"}

ASSUME BoundsAssumption ==
  /\ IsFiniteSet(Clients)
  /\ {MaxInFlight, MaxUploads, MaxRevision, MaxVersion} \subseteq Nat

VARIABLES
  connectors,   \* keys that exist as rows of connectors
  drafts,       \* rows of connector_drafts
  versions,     \* per connector, its rows of published_versions, oldest first
  uploads,      \* history: how many registrations were committed
  client        \* per client, the draft it last saw and the locals of its request

vars == <<connectors, drafts, versions, uploads, client>>

Review == UNION {[ops -> Entry] : ops \in SUBSET Operations}

(* upload is a history variable: the registration that made the draft. *)
Draft ==
  [id : Nat, connector : Connectors, source : Sources, upload : Nat, revision : Nat,
   version : Nat, base : {"present", "missing"}, review : Review]

(* The document that a version holds is its source, base URL and the       *)
(* review entries of the included operations.                              *)
Version ==
  [version : Nat, source : Sources, upload : Nat, base : {"present", "missing"},
   tools : Review, disabled : BOOLEAN]

(* row is the ORM object that a request works on, columns what it changed. *)
Client ==
  [pc : {"idle", "register", "update", "publish", "flush"},
   view : SUBSET Draft, row : SUBSET Draft,
   version : Nat, columns : SUBSET {"review", "version", "base"}]

Idle(view) == [pc |-> "idle", view |-> view, row |-> {}, version |-> 0, columns |-> {}]

Init ==
  /\ connectors = {}
  /\ drafts = {}
  /\ versions = [c \in Connectors |-> <<>>]
  /\ uploads = 0
  /\ client = [k \in Clients |-> Idle({})]

(* A request is accepted while others are in their handlers. *)
Arrives(k) ==
  /\ client[k].pc = "idle"
  /\ Cardinality({j \in Clients : client[j].pc # "idle"}) < MaxInFlight

DraftOf(c) == {d \in drafts : d.connector = c}

PublishedVersions(c) == {versions[c][i].version : i \in DOMAIN versions[c]}

(* _next_version *)
NextVersion(c) == IF versions[c] = <<>> THEN 1 ELSE 1 + Max(PublishedVersions(c))

(* _reject_version_regression lets v pass. *)
Exceeds(c, v) == \A published \in PublishedVersions(c) : v > published

-----------------------------------------------------------------------------
(* register_connector *)

(* build_initial_review *)
InitialReview(s) ==
  [op \in Analysis[s].operations |->
     [selection |-> "included",
      origin |-> IF op \in Analysis[s].placeholders THEN "generated" ELSE "source",
      access |-> "public", roles |-> "none"]]

(* SQLite hands out one more than the largest id in the table. *)
NextId(rows) == IF rows = {} THEN 1 ELSE 1 + Max({d.id : d \in rows})

NewDraft(c, s, v, rows) ==
  [id |-> NextId(rows), connector |-> c, source |-> s, upload |-> uploads + 1, revision |-> 1,
   version |-> v, base |-> Analysis[s].base, review |-> InitialReview(s)]

(* The old draft is deleted and the new one inserted. *)
InsertDraft(k, c, s, v) ==
  LET others == drafts \ DraftOf(c)
      draft == NewDraft(c, s, v, others)
  IN /\ drafts' = others \cup {draft}
     /\ uploads' = uploads + 1
     /\ client' = [client EXCEPT ![k] = Idle({draft})]

(* Of a connector that exists.  The UPDATE of updated_at is flushed before *)
(* the versions are read, so nothing falls between the read and the write. *)
(* v = 0 lets the Control Plane suggest the version.                       *)
RegisterAgain(k, c, s, v) ==
  /\ Arrives(k)
  /\ uploads < MaxUploads
  /\ c \in connectors
  /\ v # 0 => Exceeds(c, v)
  /\ InsertDraft(k, c, s, IF v = 0 THEN NextVersion(c) ELSE v)
  /\ UNCHANGED <<connectors, versions>>

(* The key was read as free; the INSERT is still to come. *)
BeginRegister(k, c, s, v) ==
  /\ Arrives(k)
  /\ uploads < MaxUploads
  /\ c \notin connectors
  /\ client' = [client EXCEPT ![k].pc = "register",
       ![k].row = {NewDraft(c, s, IF v = 0 THEN 1 ELSE v, {})}]
  /\ UNCHANGED <<connectors, drafts, versions, uploads>>

(* The INSERT of the connector, and then as above.  If someone else was    *)
(* first, the unique key fails the request (AbandonRequest).               *)
CommitRegister(k) ==
  /\ client[k].pc = "register"
  /\ \E row \in client[k].row :
       /\ row.connector \notin connectors
       /\ connectors' = connectors \cup {row.connector}
       /\ InsertDraft(k, row.connector, row.source, row.version)
  /\ UNCHANGED versions

-----------------------------------------------------------------------------
(* get_draft and update_review *)

GetDraft(k, c) ==
  /\ Arrives(k)
  /\ DraftOf(c) # {}
  /\ client' = [client EXCEPT ![k] = Idle(DraftOf(c))]
  /\ UNCHANGED <<connectors, drafts, versions, uploads>>

(* An omitted field leaves the decision alone. *)
Merged(new, old) == IF new = "keep" THEN old ELSE new

(* A description without an origin was written by a person. *)
MergedOrigin(u, entry) ==
  IF u.description = "text" /\ u.origin = "keep" THEN "human" ELSE Merged(u.origin, entry.origin)

(* apply_update raises no ValidationError: the operation exists, the text  *)
(* is not empty, and ToolAccessPolicy accepts the resulting mode and roles.*)
Acceptable(review, u) ==
  /\ u.op \in DOMAIN review
  /\ u.description # "blank"
  /\ u.access # "keep" \/ u.roles # "keep" =>
       (Merged(u.access, review[u.op].access) = "restricted")
         <=> (Merged(u.roles, review[u.op].roles) = "some")

ApplyUpdate(review, u) ==
  [review EXCEPT ![u.op] =
     [selection |-> Merged(u.selection, @.selection), origin |-> MergedOrigin(u, @),
      access |-> Merged(u.access, @.access), roles |-> Merged(u.roles, @.roles)]]

(* The updates of one request in order; the first bad one refuses it. *)
ApplyNext(sofar, u) ==
  IF sofar.ok /\ Acceptable(sofar.review, u)
  THEN [ok |-> TRUE, review |-> ApplyUpdate(sofar.review, u)]
  ELSE [ok |-> FALSE, review |-> sofar.review]

ApplyAll(review, updates) ==
  LET after[i \in 0..Len(updates)] ==
        IF i = 0 THEN [ok |-> TRUE, review |-> review] ELSE ApplyNext(after[i - 1], updates[i])
  IN after[Len(updates)]

(* expected_revision, which is the one that the caller read, is current. *)
Unchanged(k, d) ==
  \E seen \in client[k].view : seen.connector = d.connector /\ seen.revision = d.revision

(* The draft is read, and changed in memory. *)
BeginUpdate(k, edit) ==
  /\ Arrives(k)
  /\ \E d \in drafts :
       LET result == ApplyAll(d.review, edit.updates)
           row == [d EXCEPT !.review = result.review, !.revision = @ + 1,
                            !.base = Merged(edit.base, @),
                            !.version = IF edit.version = 0 THEN @ ELSE edit.version]
       IN /\ Unchanged(k, d)
          /\ d.revision <= MaxRevision
          /\ result.ok
          /\ client' = [client EXCEPT ![k].pc = "update", ![k].row = {row},
               ![k].version = edit.version,
               ![k].columns = {col \in {"review", "version", "base"} : row[col] # d[col]}]
  /\ UNCHANGED <<connectors, drafts, versions, uploads>>

(* UPDATE connector_drafts SET <the changed columns> WHERE id = ... *)
Written(d, row, columns) ==
  [d EXCEPT !.revision = row.revision,
            !.review = IF "review" \in columns THEN row.review ELSE @,
            !.version = IF "version" \in columns THEN row.version ELSE @,
            !.base = IF "base" \in columns THEN row.base ELSE @]

(* Mutant: the revision stays as it was. *)
CommitUpdate_SameRevision(k) ==
  /\ client[k].pc = "update"
  /\ \E row \in client[k].row, d \in drafts :
       LET same == [row EXCEPT !.revision = @ - 1]
       IN /\ d.id = row.id
          /\ client[k].version # 0 => Exceeds(row.connector, client[k].version)
          /\ drafts' = (drafts \ {d}) \cup {Written(d, same, client[k].columns)}
          /\ client' = [client EXCEPT ![k] = Idle({same})]
  /\ UNCHANGED <<connectors, versions, uploads>>

(* The flush, preceded by the version check if the request names one, and  *)
(* followed by the commit.  The response is built from the object.  A row  *)
(* that is gone, or a version that regresses, fails the request            *)
(* (AbandonRequest).                                                       *)
CommitUpdate(k) ==
  /\ client[k].pc = "update"
  /\ \E row \in client[k].row, d \in drafts :
       /\ d.id = row.id
       /\ client[k].version # 0 => Exceeds(row.connector, client[k].version)
       /\ drafts' = (drafts \ {d}) \cup {Written(d, row, client[k].columns)}
       /\ client' = [client EXCEPT ![k] = Idle({row})]
  /\ UNCHANGED <<connectors, versions, uploads>>

-----------------------------------------------------------------------------
(* publish_draft *)

Included(review) == {op \in DOMAIN review : review[op].selection = "included"}

(* Mutant: the review is not compared with the analysis. *)
Ready_OutOfSync(d) ==
  /\ d.base = "present"
  /\ Included(d.review) # {}
  /\ \A op \in Included(d.review) : d.review[op].origin # "generated"

(* review_readiness *)
Ready(d) ==
  /\ d.base = "present"
  /\ Included(d.review) # {}
  /\ DOMAIN d.review = Analysis[d.source].operations
  /\ \A op \in Included(d.review) :
       /\ d.review[op].origin # "generated"
       /\ d.review[op].access = "restricted" => d.review[op].roles = "some"

(* v = 0 publishes the proposed version. *)
BeginPublish(k, v) ==
  /\ Arrives(k)
  /\ \E d \in drafts :
       /\ Unchanged(k, d)
       /\ client' = [client EXCEPT ![k].pc = "publish", ![k].row = {d},
                                   ![k].version = IF v = 0 THEN d.version ELSE v]
  /\ UNCHANGED <<connectors, drafts, versions, uploads>>

(* Mutant: the version may be any that is not yet published. *)
CheckPublish_AnyVersion(k) ==
  /\ client[k].pc = "publish"
  /\ \E row \in client[k].row :
       /\ client[k].version \notin PublishedVersions(row.connector)
       /\ Ready(row)
  /\ client' = [client EXCEPT ![k].pc = "flush"]
  /\ UNCHANGED <<connectors, drafts, versions, uploads>>

(* The version is higher than all published ones, and the document can be  *)
(* built: build_connector_document.                                        *)
CheckPublish(k) ==
  /\ client[k].pc = "publish"
  /\ \E row \in client[k].row :
       /\ Exceeds(row.connector, client[k].version)
       /\ Ready(row)
  /\ client' = [client EXCEPT ![k].pc = "flush"]
  /\ UNCHANGED <<connectors, drafts, versions, uploads>>

Document(row, v) ==
  [version |-> v, source |-> row.source, upload |-> row.upload, base |-> row.base,
   tools |-> [op \in Included(row.review) |-> row.review[op]], disabled |-> FALSE]

(* uq_connector_version, as the database checks it at the flush. *)
VersionFree(c, v) == v \notin PublishedVersions(c)

(* Mutant: the draft is left behind. *)
FlushPublish_KeepsDraft(k) ==
  /\ client[k].pc = "flush"
  /\ \E row \in client[k].row :
       /\ VersionFree(row.connector, client[k].version)
       /\ versions' = [versions EXCEPT ![row.connector] =
                         Append(@, Document(row, client[k].version))]
  /\ client' = [client EXCEPT ![k] = Idle({})]
  /\ UNCHANGED <<connectors, drafts, uploads>>

(* INSERT the version, DELETE the draft by its id, commit.  Deleting no    *)
(* row is only a warning.  A version that exists by now fails the request  *)
(* (AbandonRequest).                                                       *)
FlushPublish(k) ==
  /\ client[k].pc = "flush"
  /\ \E row \in client[k].row :
       /\ VersionFree(row.connector, client[k].version)
       /\ versions' = [versions EXCEPT ![row.connector] =
                         Append(@, Document(row, client[k].version))]
       /\ drafts' = {d \in drafts : d.id # row.id}
  /\ client' = [client EXCEPT ![k] = Idle({})]
  /\ UNCHANGED <<connectors, uploads>>

-----------------------------------------------------------------------------
(* Mutant: the row is deleted, not marked. *)
DisableVersion_Deletes(c, i) ==
  /\ i \in DOMAIN versions[c]
  /\ versions' = [versions EXCEPT ![c] = RemoveAt(@, i)]
  /\ UNCHANGED <<connectors, drafts, uploads, client>>

(* disable_version is idempotent and sets one column of one row. *)
DisableVersion(c, i) ==
  /\ i \in DOMAIN versions[c]
  /\ versions' = [versions EXCEPT ![c][i].disabled = TRUE]
  /\ UNCHANGED <<connectors, drafts, uploads, client>>

(* A request fails after its first read, and its transaction, if it had    *)
(* begun one, is rolled back.  Errors that the code raises: an existing    *)
(* key or version, a regressing version, a draft that is not ready, a row  *)
(* that is gone; and errors from outside: a locked database, a crash.      *)
AbandonRequest(k) ==
  /\ client[k].pc # "idle"
  /\ client' = [client EXCEPT ![k] = Idle(@.view)]
  /\ UNCHANGED <<connectors, drafts, versions, uploads>>

Next ==
  \/ \E k \in Clients, c \in Connectors, s \in Sources, v \in 0..MaxVersion :
       RegisterAgain(k, c, s, v)
  \/ \E k \in Clients, c \in Connectors, s \in Sources, v \in 0..MaxVersion :
       BeginRegister(k, c, s, v)
  \/ \E k \in Clients : CommitRegister(k)
  \/ \E k \in Clients, c \in Connectors : GetDraft(k, c)
  \/ \E k \in Clients, edit \in Edits : BeginUpdate(k, edit)
  \/ \E k \in Clients : CommitUpdate(k)
  \/ \E k \in Clients, v \in 0..MaxVersion : BeginPublish(k, v)
  \/ \E k \in Clients : CheckPublish(k)
  \/ \E k \in Clients : FlushPublish(k)
  \/ \E c \in Connectors, i \in 1..MaxVersion : DisableVersion(c, i)
  \/ \E k \in Clients : AbandonRequest(k)

Spec == Init /\ [][Next]_vars

-----------------------------------------------------------------------------
(* Every variable holds a value of its kind; a client sees and works on at *)
(* most one draft; "Exactly one draft per connector" (models.py), and no   *)
(* two rows with one id.                                                   *)
TypeOK ==
  /\ connectors \subseteq Connectors
  /\ \A d \in drafts : d \in Draft /\ d.connector \in connectors
  /\ \A d, e \in drafts : d.connector = e.connector \/ d.id = e.id => d = e
  /\ \A c \in Connectors : \A i \in DOMAIN versions[c] : versions[c][i] \in Version
  /\ uploads \in 0..MaxUploads + Cardinality(Clients)
  /\ \A k \in Clients :
       /\ client[k].pc \in {"idle", "register", "update", "publish", "flush"}
       /\ \A d \in client[k].view \cup client[k].row : d \in Draft
       /\ Cardinality(client[k].view) <= 1
       /\ Cardinality(client[k].row) = (IF client[k].pc = "idle" THEN 0 ELSE 1)

(* A version number names one document of its connector, although two      *)
(* publications may both find it unused before either writes.              *)
VersionNumbersUnique ==
  \A c \in Connectors : \A i, j \in DOMAIN versions[c] :
    versions[c][i].version = versions[c][j].version => i = j

(* Whatever edits, registrations and publications overlap, and although an *)
(* UPDATE may land on a draft that took over the id of the one it was      *)
(* meant for, a published version has tools, all of them operations of the *)
(* document it names, none with a generated description, a restricted one  *)
(* with roles, a public one without, and a base URL.                       *)
PublishedReady ==
  \A c \in Connectors : \A i \in DOMAIN versions[c] :
    LET document == versions[c][i]
    IN /\ document.base = "present"
       /\ DOMAIN document.tools # {}
       /\ DOMAIN document.tools \subseteq Analysis[document.source].operations
       /\ \A op \in DOMAIN document.tools :
            /\ document.tools[op].origin # "generated"
            /\ (document.tools[op].access = "restricted") <=> (document.tools[op].roles = "some")

(* "Publication consumes the draft" (models.py): no editable copy of what  *)
(* is published is left, not even by an edit that was under way.           *)
PublishedDraftConsumed ==
  \A c \in Connectors : \A i \in DOMAIN versions[c] :
    \A d \in drafts : d.upload # versions[c][i].upload

(* The tables at every moment between the commits of overlapping requests: *)
(* rows of their kinds, one document per version, no draft of a published  *)
(* one (the unique constraints of models.py, and what each commit writes). *)
TablesConsistent == TypeOK /\ VersionNumbersUnique /\ PublishedDraftConsumed

(* "written once and never updated" (models.py): versions are only added,  *)
(* and a later step only ever disables one, for good.                      *)
VersionsImmutable ==
  [][\A c \in Connectors : \A i \in DOMAIN versions[c] :
       /\ i \in DOMAIN versions'[c]
       /\ [versions'[c][i] EXCEPT !.disabled = FALSE] = [versions[c][i] EXCEPT !.disabled = FALSE]
       /\ versions[c][i].disabled => versions'[c][i].disabled]_vars

(* "Incremented on every accepted mutation" (models.py): what a client saw *)
(* of a draft is what the draft holds, as long as the revision is the one  *)
(* that the client saw.  Holds if requests do not overlap.                 *)
RevisionIdentifiesContent ==
  \A k \in Clients : \A seen \in client[k].view, d \in drafts :
    seen.upload = d.upload /\ seen.revision = d.revision => seen = d

(* "Refuse a version that does not exceed everything already published"    *)
(* (_reject_version_regression): versions are published in their order.    *)
(* Holds if requests do not overlap.                                       *)
VersionsIncrease ==
  \A c \in Connectors : \A i, j \in DOMAIN versions[c] :
    i < j => versions[c][i].version < versions[c][j].version

(* "The draft changed since it was read: revision_conflict" (docs): a      *)
(* publication whose expected_revision is accepted publishes what its      *)
(* client read.                                                            *)
AcceptedDraftWasRead ==
  \A k \in Clients : client[k].pc = "publish" =>
    \A seen \in client[k].view, row \in client[k].row :
      /\ seen.source = row.source
      /\ seen.base = row.base
      /\ seen.review = row.review

(* "The mutable authoring workspace for one connector" (models.py): an     *)
(* edit of a connector's draft leaves the drafts of other connectors as    *)
(* they are.                                                               *)
EditsStayHome ==
  [][\A k \in Clients : client[k].pc = "update" /\ client'[k].pc = "idle" =>
       \A d \in drafts : d \notin drafts' =>
         \A row \in client[k].row : row.connector = d.connector]_vars
=============================================================================
