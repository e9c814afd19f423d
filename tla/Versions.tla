------------------------------ MODULE Versions ------------------------------
(***************************************************************************)
(* Version precedence and the two users the control plane has for it: the  *)
(* check that a publication exceeds every version published before         *)
(* (_reject_version_regression) and the version a registration suggests    *)
(* (_next_version).                                                        *)
(*                                                                         *)
(* A version is <<major, minor, patch, prerelease>> as parse_version       *)
(* builds it.  Prereleases are compared as whole strings; a string is      *)
(* stood for by its rank, a positive number, and None by the number 0,     *)
(* which is never compared as a rank.                                      *)
(***************************************************************************)
EXTENDS Integers, Sequences, FiniteSets

CONSTANTS MaxNumber,     \* the largest major, minor or patch published
          Prereleases,   \* ranks of the prerelease strings, numbers from 1
          MaxPublished   \* how many versions of the connector are published

VersionAssumption ==
    MaxNumber \in Nat /\ Prereleases \subseteq Nat \ {0} /\ MaxPublished \in Nat

None == 0

Core(v) == <<v.major, v.minor, v.patch>>

Version(major, minor, patch, pre) ==
    [major |-> major, minor |-> minor, patch |-> patch, pre |-> pre]

VersionSet == [major : Nat, minor : Nat, patch : Nat, pre : {None} \cup Prereleases]

\* What a request may name: parse_version has refused everything else.
Named == [major : 0 .. MaxNumber, minor : 0 .. MaxNumber, patch : 0 .. MaxNumber,
          pre : {None} \cup Prereleases]

(***************************************************************************)
(* Python compares two tuples at the first position where they differ.     *)
(***************************************************************************)
CoreLess(v, w) ==
    \/ v.major < w.major
    \/ v.major = w.major /\ v.minor < w.minor
    \/ v.major = w.major /\ v.minor = w.minor /\ v.patch < w.patch

ComparePrecedence(v, w) ==
    CASE Core(v) # Core(w) -> IF CoreLess(v, w) THEN -1 ELSE 1
      [] Core(v) = Core(w) /\ v.pre = w.pre -> 0
      [] Core(v) = Core(w) /\ v.pre # w.pre /\ v.pre = None -> 1
      [] Core(v) = Core(w) /\ v.pre # w.pre /\ w.pre = None -> -1
      [] OTHER -> IF v.pre < w.pre THEN -1 ELSE 1

(* Mutant: a prerelease ranks above the release it precedes. *)
Exceeds_PrereleaseHigher(v, w) ==
    IF Core(v) = Core(w) THEN v.pre > w.pre ELSE CoreLess(w, v)

Exceeds(v, w) == ComparePrecedence(v, w) > 0

(***************************************************************************)
(* max() compares the named tuples themselves, not with compare_precedence.*)
(* Equal numbers leave the prerelease to decide, and None has no order     *)
(* with a string: the comparison raises TypeError.                         *)
(***************************************************************************)
TupleRaises(v, w) == Core(v) = Core(w) /\ v.pre # w.pre /\ None \in {v.pre, w.pre}

TupleLess(v, w) == CoreLess(v, w) \/ (Core(v) = Core(w) /\ v.pre < w.pre)

\* One comparison of max(): what is kept of the best so far and the next row; <<>> once a
\* comparison has raised.
Higher(best, row) ==
    IF best = <<>> \/ TupleRaises(best[1], row) THEN <<>>
    ELSE IF TupleLess(best[1], row) THEN <<row>> ELSE best

\* The running maximum over the rows, in the order the query returned them.
Highest(rows) ==
    LET run[i \in 1 .. Len(rows)] ==
            IF i = 1 THEN <<rows[1]>> ELSE Higher(run[i - 1], rows[i])
    IN run[Len(rows)]

Bumped(v) == Version(v.major, v.minor + 1, 0, None)

\* <<>> when max() raised.
NextVersion(rows) ==
    IF rows = <<>> THEN <<Version(0, 1, 0, None)>>
    ELSE [i \in DOMAIN Highest(rows) |-> Bumped(Highest(rows)[i])]

VARIABLES published,   \* the connector's versions, in the order of publication
          draft,       \* <<>>, or the version that the open draft proposes
          registered   \* how the last registration went

vars == <<published, draft, registered>>

Init == published = <<>> /\ draft = <<>> /\ registered = "none"

PublishedVersions == {published[i] : i \in DOMAIN published}

\* _reject_version_regression, the guard of registration and of publication.
ExceedsPublished(v) == \A w \in PublishedVersions : Exceeds(v, w)

\* register_specification with a version named by the caller.
RegisterNamed(v) ==
    IF ExceedsPublished(v)
    THEN draft' = <<v>> /\ registered' = "ok" /\ UNCHANGED published
    ELSE registered' = "refused" /\ UNCHANGED <<published, draft>>

\* The query of _published_versions has no ORDER BY: any order of the rows may return.
RowOrders ==
    {[i \in DOMAIN published |-> published[p[i]]] :
        p \in {q \in [DOMAIN published -> DOMAIN published] :
                  \A i, j \in DOMAIN published : q[i] = q[j] => i = j}}

\* register_specification without a version; what raises leaves the draft as it was.
RegisterSuggested ==
    \E rows \in RowOrders :
        LET next == NextVersion(rows) IN
        /\ registered' = IF next = <<>> THEN "TypeError" ELSE "ok"
        /\ draft' = IF next = <<>> THEN draft ELSE next
        /\ UNCHANGED published

\* publish_draft: the version of the request, or else the one the draft proposes; the
\* draft is consumed.  A refused version changes nothing.
Publish(v) ==
    /\ draft # <<>> /\ Len(published) < MaxPublished
    /\ ExceedsPublished(v)
    /\ published' = Append(published, v)
    /\ draft' = <<>>
    /\ UNCHANGED registered

PublishProposed == \E i \in DOMAIN draft : Publish(draft[i])

Next ==
    \/ \E v \in Named : RegisterNamed(v) \/ Publish(v)
    \/ RegisterSuggested
    \/ PublishProposed

Spec == Init /\ [][Next]_vars

-----------------------------------------------------------------------------
(***************************************************************************)
(* What the order of two versions means, stated without the code's cases:  *)
(* lexicographic, a release above all of its prereleases.                  *)
(***************************************************************************)
Weight(v) == <<v.major, v.minor, v.patch, IF v.pre = None THEN 1 ELSE 0, v.pre>>

LexLess(s, t) == \E i \in DOMAIN s : s[i] < t[i] /\ \A j \in 1 .. i - 1 : s[j] = t[j]

(***************************************************************************)
(* The published versions of a connector ascend in the order of            *)
(* publication, a prerelease before its release ("Semantic Versioning only *)
(* helps if the sequence is actually monotonic", service.py:375).          *)
(***************************************************************************)
PublishedAscend ==
    \A i, j \in DOMAIN published :
        i < j => LexLess(Weight(published[i]), Weight(published[j]))

(***************************************************************************)
(* The version an open draft proposes can be published as it stands,       *)
(* whether the caller named it or _next_version suggested it, whatever was *)
(* published and in whatever order the query returned it: the reason that  *)
(* register_specification does not fix the suggestion at 0.1.0.            *)
(***************************************************************************)
DraftPublishable ==
    \A i \in DOMAIN draft, w \in PublishedVersions : LexLess(Weight(w), Weight(draft[i]))

(* A connector's version line: every publication moves it forward, and the *)
(* open draft is the next publication (_reject_version_regression).        *)
VersionsAscend == PublishedAscend /\ DraftPublishable

(***************************************************************************)
(* A registration that names no version gets one ("Suggest the next        *)
(* version: the first one, or a minor bump on the highest published",      *)
(* service.py:346).                                                        *)
(***************************************************************************)
SuggestionGiven == registered # "TypeError"
=============================================================================
