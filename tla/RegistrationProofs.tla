------------------------- MODULE RegistrationProofs -------------------------
(***************************************************************************)
(* Proofs about the stages of Registration: first each by itself, then all *)
(* of them side by side.  They hold for any uploads, documents, names,     *)
(* schemas and histories, and any limits.  An induction over a sequence is *)
(* everywhere an appeal to the least place at which a claim would fail.    *)
(***************************************************************************)
EXTENDS Registration, FunctionTheorems, FiniteSetTheorems, SequenceTheorems, WellFoundedInduction, TLAPS

(* The least-number principle. *)
LEMMA LeastNat ==
    ASSUME NEW S \in SUBSET Nat, S # {}
    PROVE  \E m \in S : \A k \in S : m <= k
<1> DEFINE Less == {ss \in Nat \X Nat : ss[1] < ss[2]}
<1>1. Less = OpToRel(<, Nat)
  BY Zenon DEF OpToRel
<1>2. IsWellFoundedOn(Less, Nat)
  BY <1>1, NatLessThanWellFounded, Zenon
<1> HIDE DEF Less
<1>3. \E m \in S : \A k \in S : <<k, m>> \notin Less
  BY <1>2, WFMin
<1>4. \A k, m \in Nat : k < m => <<k, m>> \in Less
  BY DEF Less
<1>5. \A k, m \in Nat : ~(k < m) => m <= k
  OBVIOUS
<1>. QED  BY <1>3, <1>4, <1>5

-----------------------------------------------------------------------------
(* The order of versions. *)

(* compare_precedence, case by case, is the lexicographic order of what    *)
(* the versions weigh.                                                     *)
LEMMA LexLessWeight ==
    ASSUME NEW v \in V!VersionSet, NEW w \in V!VersionSet
    PROVE  V!LexLess(V!Weight(v), V!Weight(w)) <=>
             \/ V!CoreLess(v, w)
             \/ /\ v.major = w.major /\ v.minor = w.minor /\ v.patch = w.patch
                /\ \/ v.pre # V!None /\ w.pre = V!None
                   \/ v.pre # V!None /\ w.pre # V!None /\ v.pre < w.pre
                   \/ v.pre = V!None /\ w.pre = V!None /\ v.pre < w.pre
<1> DEFINE p(x) == IF x.pre = V!None THEN 1 ELSE 0
           s == <<v.major, v.minor, v.patch, p(v), v.pre>>
           t == <<w.major, w.minor, w.patch, p(w), w.pre>>
<1>1. V!Weight(v) = s /\ V!Weight(w) = t
  BY DEF V!Weight
<1>2. DOMAIN s = 1..5
  OBVIOUS
<1>3. V!LexLess(s, t) <=>
        \/ s[1] < t[1]
        \/ s[1] = t[1] /\ s[2] < t[2]
        \/ s[1] = t[1] /\ s[2] = t[2] /\ s[3] < t[3]
        \/ s[1] = t[1] /\ s[2] = t[2] /\ s[3] = t[3] /\ s[4] < t[4]
        \/ s[1] = t[1] /\ s[2] = t[2] /\ s[3] = t[3] /\ s[4] = t[4] /\ s[5] < t[5]
  <2> HIDE DEF s, t
  <2>1. \A i \in 1..5 : (\A j \in 1..(i - 1) : s[j] = t[j]) <=>
            \/ i = 1
            \/ i = 2 /\ s[1] = t[1]
            \/ i = 3 /\ s[1] = t[1] /\ s[2] = t[2]
            \/ i = 4 /\ s[1] = t[1] /\ s[2] = t[2] /\ s[3] = t[3]
            \/ i = 5 /\ s[1] = t[1] /\ s[2] = t[2] /\ s[3] = t[3] /\ s[4] = t[4]
    OBVIOUS
  <2>. QED  BY <1>2, <2>1 DEF V!LexLess
<1>. QED  BY <1>1, <1>3 DEF V!CoreLess, V!None

(* _reject_version_regression lets exactly the greater versions pass. *)
LEMMA ExceedsIsGreater ==
    ASSUME V!VersionAssumption, NEW v \in V!VersionSet, NEW w \in V!VersionSet, V!Exceeds(v, w)
    PROVE  V!LexLess(V!Weight(w), V!Weight(v))
<1>1. /\ v.major \in Nat /\ v.minor \in Nat /\ v.patch \in Nat /\ v.pre \in Nat
      /\ w.major \in Nat /\ w.minor \in Nat /\ w.patch \in Nat /\ w.pre \in Nat
  <2>1. {V!None} \cup Prereleases \subseteq Nat
    BY DEF V!VersionAssumption, V!None
  <2>. QED  BY <2>1 DEF V!VersionSet
<1>2. V!Core(v) = V!Core(w) <=> v.major = w.major /\ v.minor = w.minor /\ v.patch = w.patch
  BY DEF V!Core
<1>3. CASE V!Core(v) # V!Core(w)
  <2>1. ~V!CoreLess(v, w)
    BY <1>3 DEF V!Exceeds, V!ComparePrecedence
  <2>2. V!CoreLess(w, v)
    BY <1>1, <1>2, <1>3, <2>1 DEF V!CoreLess
  <2>. QED  BY <2>2, LexLessWeight
<1>4. CASE V!Core(v) = V!Core(w)
  <2>1. v.pre # w.pre
    BY <1>4 DEF V!Exceeds, V!ComparePrecedence
  <2>2. V!ComparePrecedence(v, w) =
          IF v.pre = V!None THEN 1 ELSE IF w.pre = V!None THEN -1 ELSE IF v.pre < w.pre THEN -1 ELSE 1
    BY <1>4, <2>1 DEF V!ComparePrecedence
  <2>3. v.pre = V!None \/ (w.pre # V!None /\ ~(v.pre < w.pre))
    BY <2>2 DEF V!Exceeds
  <2>. QED  BY <1>1, <1>2, <1>4, <2>1, <2>3, LexLessWeight DEF V!None
<1>. QED  BY <1>3, <1>4

(* A version whose numbers are greater is greater. *)
LEMMA CoreDecides ==
    ASSUME NEW v \in V!VersionSet, NEW w \in V!VersionSet, V!CoreLess(v, w)
    PROVE  V!LexLess(V!Weight(v), V!Weight(w))
BY LexLessWeight

(* The minor bump of a version is above everything that is not above it. *)
LEMMA BumpedExceeds ==
    ASSUME NEW v \in V!VersionSet, NEW w \in V!VersionSet, ~V!CoreLess(v, w)
    PROVE  V!Bumped(v) \in V!VersionSet /\ V!LexLess(V!Weight(w), V!Weight(V!Bumped(v)))
<1>1. V!Bumped(v) \in V!VersionSet
  BY DEF V!Bumped, V!Version, V!VersionSet, V!None
<1>2. V!CoreLess(w, V!Bumped(v))
  BY DEF V!CoreLess, V!Bumped, V!Version, V!VersionSet
<1>. QED  BY <1>1, <1>2, CoreDecides

-----------------------------------------------------------------------------
(* The highest of the rows that a query returned. *)

(* f is the running maximum over the first n rows. *)
Running(f, rows, n) ==
    f = [i \in 1 .. n |-> IF i = 1 THEN <<rows[1]>> ELSE V!Higher(f[i - 1], rows[i])]

(* There is a running maximum over any number of rows: the recursion of    *)
(* Highest defines a function.                                             *)
LEMMA RunningExists ==
    ASSUME NEW rows
    PROVE  \A n \in Nat : \E f : Running(f, rows, n)
<1> DEFINE bad == {n \in Nat : ~ \E f : Running(f, rows, n)}
<1> SUFFICES ASSUME bad # {} PROVE FALSE
  OBVIOUS
<1>1. PICK n \in bad : \A k \in bad : n <= k
  <2>1. bad \in SUBSET Nat
    OBVIOUS
  <2> HIDE DEF bad
  <2>. QED  BY <2>1, LeastNat
<1>2. n \in Nat /\ ~ \E f : Running(f, rows, n)
  OBVIOUS
<1>3. n # 0
  <2>1. Running(<<>>, rows, 0)
    BY DEF Running
  <2>. QED  BY <1>2, <2>1
<1>4. n - 1 \in Nat /\ n - 1 \notin bad
  BY <1>1, <1>2, <1>3
<1>5. PICK f : Running(f, rows, n - 1)
  BY <1>4
<1> DEFINE last == IF n = 1 THEN <<rows[1]>> ELSE V!Higher(f[n - 1], rows[n])
           g == [i \in 1 .. n |-> IF i = n THEN last ELSE f[i]]
<1>6. Running(g, rows, n)
  <2>1. ASSUME NEW i \in 1 .. n
        PROVE  g[i] = IF i = 1 THEN <<rows[1]>> ELSE V!Higher(g[i - 1], rows[i])
    <3>1. i # 1 => i - 1 \in 1 .. n /\ g[i - 1] = f[i - 1]
      BY <1>2
    <3>2. CASE i = n
      BY <3>1, <3>2
    <3>3. CASE i # n
      <4>1. i \in 1 .. (n - 1) /\ g[i] = f[i]
        BY <1>2, <3>3
      <4>2. f[i] = IF i = 1 THEN <<rows[1]>> ELSE V!Higher(f[i - 1], rows[i])
        BY <1>5, <4>1 DEF Running
      <4>. QED  BY <3>1, <4>1, <4>2
    <3>. QED  BY <3>2, <3>3
  <2>2. g = [i \in 1 .. n |-> g[i]]
    OBVIOUS
  <2> HIDE DEF g
  <2>. QED  BY <2>1, <2>2 DEF Running
<1>. QED  BY <1>2, <1>6

(* So Highest is the last value of one. *)
LEMMA HighestIsRunning ==
    ASSUME NEW rows, Len(rows) \in Nat
    PROVE  \E f : Running(f, rows, Len(rows)) /\ V!Highest(rows) = f[Len(rows)]
<1> DEFINE run == CHOOSE f : Running(f, rows, Len(rows))
<1>1. Running(run, rows, Len(rows))
  BY RunningExists
<1>2. V!Highest(rows) = run[Len(rows)]
  BY DEF V!Highest, Running
<1>. QED  BY <1>1, <1>2

(* What max() keeps: nothing, once a comparison has raised, or a row that  *)
(* no row so far is above.                                                 *)
BestOf(best, rows, n) ==
    best # <<>> =>
        \E v \in V!VersionSet :
            /\ best = <<v>>
            /\ \A i \in 1 .. n : ~V!CoreLess(v, rows[i])

(* One comparison keeps that. *)
LEMMA HigherKeepsBest ==
    ASSUME V!VersionAssumption, NEW n \in Nat, NEW rows, NEW best, BestOf(best, rows, n),
           \A i \in 1 .. (n + 1) : rows[i] \in V!VersionSet
    PROVE  BestOf(V!Higher(best, rows[n + 1]), rows, n + 1)
<1> DEFINE w == rows[n + 1]
<1>1. w \in V!VersionSet
  OBVIOUS
<1> SUFFICES ASSUME V!Higher(best, w) # <<>>
             PROVE  \E v \in V!VersionSet :
                        /\ V!Higher(best, w) = <<v>>
                        /\ \A i \in 1 .. (n + 1) : ~V!CoreLess(v, rows[i])
  BY DEF BestOf
<1>2. best # <<>> /\ ~V!TupleRaises(best[1], w)
  BY DEF V!Higher
<1>3. PICK v \in V!VersionSet : best = <<v>> /\ \A i \in 1 .. n : ~V!CoreLess(v, rows[i])
  BY <1>2 DEF BestOf
<1>4. /\ v.major \in Nat /\ v.minor \in Nat /\ v.patch \in Nat
      /\ w.major \in Nat /\ w.minor \in Nat /\ w.patch \in Nat
  BY <1>1 DEF V!VersionSet
<1>5. CASE V!TupleLess(v, w)
  <2>1. V!Higher(best, w) = <<w>>
    BY <1>2, <1>3, <1>5 DEF V!Higher
  <2>2. V!CoreLess(v, w) \/ (v.major = w.major /\ v.minor = w.minor /\ v.patch = w.patch)
    BY <1>5 DEF V!TupleLess, V!Core
  <2>3. ASSUME NEW i \in 1 .. n
        PROVE  ~V!CoreLess(w, rows[i])
    <3>1. rows[i] \in V!VersionSet
      OBVIOUS
    <3>2. rows[i].major \in Nat /\ rows[i].minor \in Nat /\ rows[i].patch \in Nat
      BY <3>1 DEF V!VersionSet
    <3>3. ~V!CoreLess(v, rows[i])
      BY <1>3
    <3> HIDE DEF w
    <3>. QED  BY <1>4, <2>2, <3>2, <3>3 DEF V!CoreLess
  <2>4. ~V!CoreLess(w, w)
    BY <1>4 DEF V!CoreLess
  <2>. QED  BY <1>1, <2>1, <2>3, <2>4
<1>6. CASE ~V!TupleLess(v, w)
  <2>1. V!Higher(best, w) = best
    BY <1>2, <1>3, <1>6 DEF V!Higher
  <2>2. ~V!CoreLess(v, w)
    BY <1>6 DEF V!TupleLess
  <2>. QED  BY <1>3, <2>1, <2>2
<1>. QED  BY <1>5, <1>6

(* The running maximum is above no row, at no row. *)
LEMMA RunningBest ==
    ASSUME V!VersionAssumption, NEW rows \in Seq(V!VersionSet), NEW f, Running(f, rows, Len(rows))
    PROVE  \A n \in 1 .. Len(rows) : BestOf(f[n], rows, n)
<1> DEFINE bad == {n \in 1 .. Len(rows) : ~BestOf(f[n], rows, n)}
<1> SUFFICES ASSUME bad # {} PROVE FALSE
  OBVIOUS
<1>1. PICK n \in bad : \A k \in bad : n <= k
  <2>1. bad \in SUBSET Nat
    OBVIOUS
  <2> HIDE DEF bad
  <2>. QED  BY <2>1, LeastNat
<1>2. /\ n \in 1 .. Len(rows)
      /\ Len(rows) \in Nat
      /\ ~BestOf(f[n], rows, n)
      /\ \A i \in 1 .. Len(rows) : rows[i] \in V!VersionSet
  OBVIOUS
<1>3. f[n] = IF n = 1 THEN <<rows[1]>> ELSE V!Higher(f[n - 1], rows[n])
  BY <1>2 DEF Running
<1>4. CASE n = 1
  <2>1. rows[1] \in V!VersionSet /\ f[1] = <<rows[1]>>
    BY <1>2, <1>3, <1>4
  <2>2. ~V!CoreLess(rows[1], rows[1])
    BY <2>1 DEF V!CoreLess, V!VersionSet
  <2>3. BestOf(f[1], rows, 1)
    BY <2>1, <2>2 DEF BestOf
  <2>. QED  BY <1>2, <1>4, <2>3
<1>5. CASE n # 1
  <2>1. n - 1 \in Nat /\ n - 1 \in 1 .. Len(rows) /\ n - 1 \notin bad /\ (n - 1) + 1 = n
    BY <1>1, <1>2, <1>5
  <2>2. BestOf(f[n - 1], rows, n - 1)
    BY <2>1
  <2> DEFINE m == n - 1
  <2>3. \A i \in 1 .. (m + 1) : rows[i] \in V!VersionSet
    BY <1>2, <2>1
  <2>4. m \in Nat /\ m + 1 = n /\ BestOf(f[m], rows, m)
    BY <2>1, <2>2
  <2>5. f[n] = V!Higher(f[m], rows[m + 1])
    BY <1>3, <1>5, <2>4
  <2> HIDE DEF m, bad
  <2>6. BestOf(V!Higher(f[m], rows[m + 1]), rows, m + 1)
    BY <2>3, <2>4, HigherKeepsBest
  <2>. QED  BY <1>2, <2>4, <2>5, <2>6
<1>. QED  BY <1>4, <1>5

(* The version that a registration suggests is above every row. *)
LEMMA SuggestionExceeds ==
    ASSUME V!VersionAssumption, NEW rows \in Seq(V!VersionSet), NEW i \in DOMAIN V!NextVersion(rows)
    PROVE  /\ i = 1
           /\ V!NextVersion(rows) \in Seq(V!VersionSet)
           /\ \A j \in 1 .. Len(rows) : V!LexLess(V!Weight(rows[j]), V!Weight(V!NextVersion(rows)[i]))
<1>1. CASE rows = <<>>
  <2>1. V!NextVersion(rows) = <<V!Version(0, 1, 0, V!None)>> /\ V!Version(0, 1, 0, V!None) \in V!VersionSet
    BY <1>1 DEF V!NextVersion, V!Version, V!VersionSet
  <2>2. i = 1 /\ V!NextVersion(rows) \in Seq(V!VersionSet)
    BY <2>1
  <2>3. 1 .. Len(rows) = {}
    BY <1>1
  <2>. QED  BY <2>2, <2>3
<1>2. CASE rows # <<>>
  <2>1. Len(rows) \in Nat /\ Len(rows) \in 1 .. Len(rows)
    BY <1>2
  <2>2. PICK f : Running(f, rows, Len(rows)) /\ V!Highest(rows) = f[Len(rows)]
    BY <2>1, HighestIsRunning
  <2>3. BestOf(V!Highest(rows), rows, Len(rows))
    BY <2>1, <2>2, RunningBest
  <2>4. V!NextVersion(rows) = [k \in DOMAIN V!Highest(rows) |-> V!Bumped(V!Highest(rows)[k])]
    BY <1>2 DEF V!NextVersion
  <2>5. V!Highest(rows) # <<>>
    BY <2>4
  <2>6. PICK v \in V!VersionSet :
          V!Highest(rows) = <<v>> /\ \A j \in 1 .. Len(rows) : ~V!CoreLess(v, rows[j])
    BY <2>3, <2>5 DEF BestOf
  <2>7. V!NextVersion(rows) = <<V!Bumped(v)>>
    BY <2>4, <2>6
  <2>8. \A j \in 1 .. Len(rows) : rows[j] \in V!VersionSet
    OBVIOUS
  <2>9. \A j \in 1 .. Len(rows) :
          V!Bumped(v) \in V!VersionSet /\ V!LexLess(V!Weight(rows[j]), V!Weight(V!Bumped(v)))
    BY <2>6, <2>8, BumpedExceeds
  <2>. QED  BY <2>1, <2>7, <2>9
<1>. QED  BY <1>1, <1>2

-----------------------------------------------------------------------------
(* The version line of a connector. *)

(* Every variable holds a value of its kind. *)
VersionTypes ==
    /\ line \in Seq(V!VersionSet)
    /\ proposed \in Seq(V!VersionSet)
    /\ registered \in {"none", "ok", "refused", "TypeError"}

(* The inductive invariant: the version line is one by itself. *)
VersionInv == VersionTypes /\ V!VersionsAscend

(* What a request may name is a version. *)
LEMMA NamedType == V!VersionAssumption => V!Named \subseteq V!VersionSet
<1>1. V!VersionAssumption => 0 .. MaxNumber \subseteq Nat
  BY DEF V!VersionAssumption
<1>. QED  BY <1>1 DEF V!Named, V!VersionSet

(* What passes the check against all published versions is above them all. *)
LEMMA ExceedsPublishedIsGreater ==
    ASSUME V!VersionAssumption, VersionTypes, NEW v \in V!VersionSet, V!ExceedsPublished(v),
           NEW i \in DOMAIN line
    PROVE  V!LexLess(V!Weight(line[i]), V!Weight(v))
<1>1. line[i] \in V!VersionSet /\ line[i] \in V!PublishedVersions
  BY DEF VersionTypes, V!PublishedVersions
<1>. QED  BY <1>1, ExceedsIsGreater DEF V!ExceedsPublished

(* However the query orders the rows, it returns all of them. *)
LEMMA RowOrdersComplete ==
    ASSUME VersionTypes, NEW rows \in V!RowOrders
    PROVE  /\ rows \in Seq(V!VersionSet)
           /\ \A i \in DOMAIN line : \E j \in 1 .. Len(rows) : rows[j] = line[i]
<1>1. PICK q \in [DOMAIN line -> DOMAIN line] :
        /\ \A i, j \in DOMAIN line : q[i] = q[j] => i = j
        /\ rows = [i \in DOMAIN line |-> line[q[i]]]
  BY DEF V!RowOrders
<1>2. Len(line) \in Nat /\ DOMAIN line = 1 .. Len(line)
  BY DEF VersionTypes
<1>3. q \in Surjection(DOMAIN line, DOMAIN line)
  <2>1. q \in Injection(DOMAIN line, DOMAIN line)
    BY <1>1, Fun_IsInj
  <2>2. IsFiniteSet(DOMAIN line)
    BY <1>2, FS_Interval
  <2>. QED  BY <2>1, <2>2, FS_Injection
<1>4. \A i \in DOMAIN line : \E j \in DOMAIN line : q[j] = i
  BY <1>3, Fun_SurjectionProperties
<1>5. \A i \in DOMAIN line : line[i] \in V!VersionSet
  BY DEF VersionTypes
<1>6. rows \in Seq(V!VersionSet) /\ Len(rows) = Len(line)
  BY <1>1, <1>2, <1>5
<1>. QED  BY <1>1, <1>2, <1>4, <1>6

(* A registration leaves a draft that is above every published version. *)
LEMMA RegisterKeeps ==
    ASSUME V!VersionAssumption, VersionInv,
           (\E v \in V!Named : V!RegisterNamed(v)) \/ V!RegisterSuggested
    PROVE  VersionInv'
<1>1. UNCHANGED line
  BY DEF V!RegisterNamed, V!RegisterSuggested
<1>2. V!PublishedAscend' /\ V!PublishedVersions' = V!PublishedVersions
  BY <1>1 DEF VersionInv, V!VersionsAscend, V!PublishedAscend, V!PublishedVersions
<1>3. ASSUME proposed' = proposed
      PROVE  V!DraftPublishable' /\ proposed' \in Seq(V!VersionSet)
  BY <1>2, <1>3 DEF VersionInv, VersionTypes, V!VersionsAscend, V!DraftPublishable
<1>4. V!DraftPublishable' /\ proposed' \in Seq(V!VersionSet) /\ registered' \in {"ok", "refused", "TypeError"}
  <2>1. ASSUME NEW v \in V!Named, V!RegisterNamed(v)
        PROVE  V!DraftPublishable' /\ proposed' \in Seq(V!VersionSet) /\ registered' \in {"ok", "refused"}
    <3>1. v \in V!VersionSet
      BY NamedType
    <3>2. CASE V!ExceedsPublished(v)
      <4>1. proposed' = <<v>> /\ registered' = "ok"
        BY <2>1, <3>2 DEF V!RegisterNamed
      <4>2. \A w \in V!PublishedVersions : V!LexLess(V!Weight(w), V!Weight(v))
        BY <3>1, <3>2, ExceedsPublishedIsGreater DEF VersionInv, V!PublishedVersions
      <4>. QED  BY <1>2, <3>1, <4>1, <4>2 DEF V!DraftPublishable
    <3>3. CASE ~V!ExceedsPublished(v)
      BY <1>3, <2>1, <3>3 DEF V!RegisterNamed
    <3>. QED  BY <3>2, <3>3
  <2>2. CASE V!RegisterSuggested
    <3>1. PICK rows \in V!RowOrders :
            /\ registered' = IF V!NextVersion(rows) = <<>> THEN "TypeError" ELSE "ok"
            /\ proposed' = IF V!NextVersion(rows) = <<>> THEN proposed ELSE V!NextVersion(rows)
      BY <2>2 DEF V!RegisterSuggested
    <3>2. /\ rows \in Seq(V!VersionSet)
          /\ \A i \in DOMAIN line : \E j \in 1 .. Len(rows) : rows[j] = line[i]
      BY RowOrdersComplete DEF VersionInv
    <3>3. CASE V!NextVersion(rows) = <<>>
      BY <1>3, <3>1, <3>3
    <3>4. CASE DOMAIN V!NextVersion(rows) # {}
      <4>1. V!NextVersion(rows) \in Seq(V!VersionSet) /\ proposed' = V!NextVersion(rows)
        BY <3>1, <3>2, <3>4, SuggestionExceeds
      <4>2. \A k \in DOMAIN proposed', i \in DOMAIN line :
              V!LexLess(V!Weight(line[i]), V!Weight(proposed'[k]))
        BY <3>2, <4>1, SuggestionExceeds
      <4>3. V!DraftPublishable'
        BY <1>1, <4>2 DEF V!DraftPublishable, V!PublishedVersions
      <4>. QED  BY <3>1, <4>1, <4>3
    <3>5. DOMAIN V!NextVersion(rows) = {} => V!NextVersion(rows) = <<>>
      <4>1. CASE rows = <<>>
        BY <4>1 DEF V!NextVersion
      <4>2. CASE rows # <<>>
        BY <4>2 DEF V!NextVersion
      <4>. QED  BY <4>1, <4>2
    <3>. QED  BY <3>3, <3>4, <3>5
  <2>. QED  BY <2>1, <2>2
<1>. QED  BY <1>1, <1>2, <1>4 DEF VersionInv, VersionTypes, V!VersionsAscend

(* A publication extends the line upwards and consumes the draft. *)
LEMMA PublishKeeps ==
    ASSUME V!VersionAssumption, VersionInv, NEW v \in V!VersionSet, V!Publish(v)
    PROVE  VersionInv'
<1>1. /\ line' = Append(line, v)
      /\ proposed' = <<>>
      /\ UNCHANGED registered
      /\ line \in Seq(V!VersionSet)
  BY DEF V!Publish, VersionInv, VersionTypes
<1>2. VersionTypes'
  BY <1>1 DEF VersionInv, VersionTypes
<1>3. V!DraftPublishable'
  BY <1>1 DEF V!DraftPublishable
<1>4. /\ Len(line) \in Nat
      /\ DOMAIN line = 1 .. Len(line)
      /\ DOMAIN line' = 1 .. (Len(line) + 1)
      /\ line'[Len(line) + 1] = v
      /\ \A i \in 1 .. Len(line) : line'[i] = line[i]
  BY <1>1
<1>5. \A i \in DOMAIN line : V!LexLess(V!Weight(line[i]), V!Weight(v))
  BY ExceedsPublishedIsGreater DEF VersionInv, V!Publish
<1>6. ASSUME NEW i \in DOMAIN line', NEW j \in DOMAIN line', i < j
      PROVE  V!LexLess(V!Weight(line'[i]), V!Weight(line'[j]))
  <2>1. i \in DOMAIN line /\ line'[i] = line[i]
    BY <1>4, <1>6
  <2>2. CASE j = Len(line) + 1
    BY <1>4, <1>5, <2>1, <2>2
  <2>3. CASE j # Len(line) + 1
    <3>1. j \in DOMAIN line /\ line'[j] = line[j]
      BY <1>4, <2>3
    <3>. QED  BY <1>6, <2>1, <3>1 DEF VersionInv, V!VersionsAscend, V!PublishedAscend
  <2>. QED  BY <2>2, <2>3
<1>7. V!PublishedAscend'
  BY <1>6 DEF V!PublishedAscend
<1>. QED  BY <1>2, <1>3, <1>7 DEF VersionInv, V!VersionsAscend

(* Whatever versions callers name and in whatever order the query returns  *)
(* the rows, the published versions of a connector ascend, and the version *)
(* that its open draft proposes is above all of them.                      *)
LEMMA VersionLineAscends ==
    ASSUME V!VersionAssumption
    PROVE  V!Spec => []V!VersionsAscend
<1>1. V!Init => VersionInv
  BY DEF V!Init, VersionInv, VersionTypes, V!VersionsAscend, V!PublishedAscend, V!DraftPublishable
<1>2. VersionInv /\ [V!Next]_(V!vars) => VersionInv'
  <2> SUFFICES ASSUME VersionInv, [V!Next]_(V!vars) PROVE VersionInv'
    OBVIOUS
  <2>1. CASE (\E v \in V!Named : V!RegisterNamed(v)) \/ V!RegisterSuggested
    BY <2>1, RegisterKeeps
  <2>2. ASSUME NEW v \in V!Named, V!Publish(v)
        PROVE  VersionInv'
    BY <2>2, NamedType, PublishKeeps
  <2>3. CASE V!PublishProposed
    <3>1. PICK i \in DOMAIN proposed : V!Publish(proposed[i])
      BY <2>3 DEF V!PublishProposed
    <3>2. proposed[i] \in V!VersionSet
      BY DEF VersionInv, VersionTypes
    <3>. QED  BY <3>1, <3>2, PublishKeeps
  <2>4. CASE UNCHANGED V!vars
    BY <2>4 DEF V!vars, VersionInv, VersionTypes, V!VersionsAscend, V!PublishedAscend, V!DraftPublishable,
                V!PublishedVersions
  <2>. QED  BY <2>1, <2>2, <2>3, <2>4 DEF V!Next
<1>3. VersionInv => V!VersionsAscend
  BY DEF VersionInv
<1>. QED  BY <1>1, <1>2, <1>3, PTL DEF V!Spec
-----------------------------------------------------------------------------
(* Loading. *)

(* A position is its parent's with the number of the child behind it. *)
LEMMA FrontAndLast ==
  ASSUME NEW p \in Seq(Nat), p # <<>>
  PROVE  /\ L!Front(p) \in Seq(Nat)
         /\ Len(L!Front(p)) = Len(p) - 1
         /\ p = Append(L!Front(p), L!Last(p))
<1>1. Len(p) \in Nat \ {0}
  BY EmptySeq
<1>2. L!Front(p) \in Seq(Nat) /\ Len(L!Front(p)) = Len(p) - 1 /\ L!Last(p) \in Nat
  <2>1. \A i \in 1 .. Len(p) : p[i] \in Nat
    OBVIOUS
  <2>2. Len(p) - 1 \in Nat /\ \A i \in 1 .. (Len(p) - 1) : p[i] \in Nat
    BY <1>1, <2>1
  <2>3. SubSeq(p, 1, Len(p) - 1) \in Seq(Nat) /\ Len(SubSeq(p, 1, Len(p) - 1)) = Len(p) - 1
    <3> DEFINE m == Len(p) - 1
    <3>1. 1 \in Int /\ m \in Int /\ m >= 0 /\ \A i \in 1 .. m : p[i] \in Nat
      BY <2>2
    <3> HIDE DEF m
    <3>2. SubSeq(p, 1, m) \in Seq(Nat) /\ Len(SubSeq(p, 1, m)) = IF 1 <= m THEN m - 1 + 1 ELSE 0
      BY <3>1, SubSeqProperties
    <3>3. Len(SubSeq(p, 1, m)) = m
      BY <3>1, <3>2
    <3>. QED  BY <3>2, <3>3 DEF m
  <2>. QED  BY <1>1, <2>1, <2>3 DEF L!Front, L!Last
<1>3. \A i \in 1 .. Len(p) : p[i] = Append(L!Front(p), L!Last(p))[i]
  BY <1>1, <1>2 DEF L!Front, L!Last
<1>4. Append(L!Front(p), L!Last(p)) \in Seq(Nat) /\ Len(Append(L!Front(p), L!Last(p))) = Len(p)
  BY <1>1, <1>2
<1> HIDE DEF L!Front, L!Last
<1>. QED  BY <1>2, <1>3, <1>4, SeqEqual

(* The parent of a child. *)
LEMMA ChildOf ==
  ASSUME NEW p \in Seq(Nat), NEW i \in Nat
  PROVE  /\ Append(p, i) \in Seq(Nat) /\ Append(p, i) # <<>> /\ Append(p, i) # p
         /\ Len(Append(p, i)) = Len(p) + 1
         /\ L!Front(Append(p, i)) = p /\ L!Last(Append(p, i)) = i
<1>1. L!Front(Append(p, i)) = p /\ L!Last(Append(p, i)) = i
  BY DEF L!Front, L!Last
<1>2. Append(p, i) \in Seq(Nat) /\ Append(p, i) # <<>> /\ Len(Append(p, i)) = Len(p) + 1
  BY AppendProperties
<1>3. Len(p) \in Nat
  OBVIOUS
<1>. QED  BY <1>1, <1>2, <1>3

(* Finite sets and their sizes, as Loading names them. *)
LEMMA SizesAgree ==
  ASSUME NEW S
  PROVE  (L!IsFiniteSet(S) <=> IsFiniteSet(S)) /\ L!Cardinality(S) = Cardinality(S)
<1>1. L!IsFiniteSet(S) <=> IsFiniteSet(S)
  BY Zenon DEF L!IsFiniteSet, IsFiniteSet
<1>2. L!Cardinality(S) = Cardinality(S)
  BY Zenon DEF L!Cardinality, Cardinality
<1>. QED  BY <1>1, <1>2

(* The first elements of a sequence stay when one is added. *)
LEMMA PrefixStays ==
  ASSUME NEW p \in Seq(Nat), NEW i \in Nat, NEW k \in 0 .. Len(p)
  PROVE  /\ SubSeq(Append(p, i), 1, k) = SubSeq(p, 1, k)
         /\ SubSeq(p, 1, Len(p)) = p
<1>1. /\ Append(p, i) \in Seq(Nat) /\ Len(Append(p, i)) = Len(p) + 1
      /\ \A j \in 1 .. Len(p) : Append(p, i)[j] = p[j] /\ p[j] \in Nat
  BY AppendProperties
<1>2. ASSUME NEW t \in Seq(Nat), NEW m \in 0 .. Len(t)
      PROVE  /\ SubSeq(t, 1, m) \in Seq(Nat) /\ Len(SubSeq(t, 1, m)) = m
             /\ \A j \in 1 .. m : SubSeq(t, 1, m)[j] = t[j]
  <2>1. 1 \in Int /\ m \in Int /\ m >= 0 /\ m <= Len(t) /\ Len(t) \in Nat
    OBVIOUS
  <2>2. \A j \in 1 .. m : t[j] \in Nat
    <3>1. \A j \in 1 .. m : j \in 1 .. Len(t)
      BY <2>1
    <3>2. \A j \in 1 .. Len(t) : t[j] \in Nat
      OBVIOUS
    <3>. QED  BY <3>1, <3>2
  <2>3. /\ SubSeq(t, 1, m) \in Seq(Nat)
        /\ Len(SubSeq(t, 1, m)) = IF 1 <= m THEN m - 1 + 1 ELSE 0
        /\ \A j \in 1 .. m - 1 + 1 : SubSeq(t, 1, m)[j] = t[1 + j - 1]
    BY <2>1, <2>2, SubSeqProperties
  <2>4. \A j \in 1 .. m : j \in 1 .. m - 1 + 1 /\ 1 + j - 1 = j
    BY <2>1
  <2>. QED  BY <2>1, <2>3, <2>4
<1>3. k \in 0 .. Len(Append(p, i)) /\ Len(p) \in 0 .. Len(p) /\ \A j \in 1 .. k : j \in 1 .. Len(p)
  BY <1>1
<1>4. SubSeq(Append(p, i), 1, k) = SubSeq(p, 1, k)
  <2>1. \A j \in 1 .. k : SubSeq(Append(p, i), 1, k)[j] = SubSeq(p, 1, k)[j]
    BY <1>1, <1>2, <1>3
  <2>2. /\ SubSeq(Append(p, i), 1, k) \in Seq(Nat) /\ SubSeq(p, 1, k) \in Seq(Nat)
        /\ Len(SubSeq(Append(p, i), 1, k)) = k /\ Len(SubSeq(p, 1, k)) = k
    BY <1>1, <1>2, <1>3
  <2>. QED  BY <2>1, <2>2, SeqEqual
<1>5. SubSeq(p, 1, Len(p)) = p
  <2>1. /\ SubSeq(p, 1, Len(p)) \in Seq(Nat) /\ Len(SubSeq(p, 1, Len(p))) = Len(p)
        /\ \A j \in 1 .. Len(p) : SubSeq(p, 1, Len(p))[j] = p[j]
    BY <1>2, <1>3
  <2>. QED  BY <2>1, SeqEqual
<1>. QED  BY <1>4, <1>5

(* A child is walked exactly if its parent is and is entered. *)
LEMMA WalkedChild ==
  ASSUME NEW tree, NEW p \in Seq(Nat), NEW k \in Nat
  PROVE  Append(p, k) \in L!Walked(tree) <=>
           /\ Append(p, k) \in DOMAIN tree
           /\ \A i \in 1 .. Len(p) : tree[SubSeq(p, 1, i - 1)].kind \notin L!Opaque
           /\ tree[p].kind \notin L!Opaque
<1> DEFINE q == Append(p, k)
           n == Len(p)
<1>1. Len(q) = n + 1 /\ n \in Nat
  BY ChildOf
<1>2. \A m \in 0 .. n : SubSeq(q, 1, m) = SubSeq(p, 1, m)
  BY PrefixStays
<1>3. SubSeq(p, 1, n) = p
  <2>1. 0 \in 0 .. Len(p)
    OBVIOUS
  <2>. QED  BY <2>1, PrefixStays
<1>4. \A i \in 1 .. n + 1 : i - 1 \in 0 .. n
  BY <1>1
<1>5. \A i \in 1 .. n + 1 : tree[SubSeq(q, 1, i - 1)] = tree[SubSeq(p, 1, i - 1)]
  BY <1>2, <1>4
<1>6. (n + 1) - 1 = n /\ n + 1 \in 1 .. n + 1 /\ \A i \in 1 .. n + 1 : i \in 1 .. n \/ i = n + 1
  BY <1>1
<1>6a. \A i \in 1 .. n : i \in 1 .. n + 1
  BY <1>1
<1> HIDE DEF n, q
<1>7. q \in L!Walked(tree) <=>
        q \in DOMAIN tree /\ \A i \in 1 .. n + 1 : tree[SubSeq(p, 1, i - 1)].kind \notin L!Opaque
  BY <1>1, <1>5 DEF L!Walked
<1>8. (\A i \in 1 .. n + 1 : tree[SubSeq(p, 1, i - 1)].kind \notin L!Opaque) <=>
        /\ \A i \in 1 .. n : tree[SubSeq(p, 1, i - 1)].kind \notin L!Opaque
        /\ tree[p].kind \notin L!Opaque
  BY <1>3, <1>6, <1>6a
<1>. QED  BY <1>7, <1>8 DEF n, q

(* What the walk is for: the positions that stand in no set and no pair.   *)
Nodes == L!Walked(upload.tree)

Waiting(p) == \E i \in DOMAIN stack : stack[i][1] = p

(* The stack of the walk: nodes with their depth, each of them once. *)
StackHolds ==
  /\ stack \in Seq(Nodes \X Nat)
  /\ \A i \in DOMAIN stack : stack[i][2] = Len(stack[i][1])
  /\ \A i, j \in DOMAIN stack : stack[i][1] = stack[j][1] => i = j

(* How far the walk is: what waits is not visited and its parent is, and   *)
(* what is visited is in order, counted, and leaves no child behind.       *)
WalkHolds ==
  /\ visited \subseteq Nodes /\ IsFiniteSet(visited)
  /\ nodes = Cardinality(visited) /\ nodes <= MaxNodes
  /\ \A i \in DOMAIN stack :
       /\ stack[i][1] \notin visited
       /\ stack[i][1] # <<>> => L!Front(stack[i][1]) \in visited
  /\ \A p \in visited :
       /\ Len(p) <= MaxDepth /\ ~L!ShapeFault(upload.tree[p])
       /\ p # <<>> => L!Front(p) \in visited
       /\ \A i \in 1 .. L!Entered(upload.tree[p]) :
            Append(p, i) \in visited \/ Waiting(Append(p, i))
  /\ <<>> \in visited \/ Waiting(<<>>)

(* What the parser has let pass. *)
ParseHolds ==
  /\ L!BytesFault(upload) = "none" /\ L!ParseFaults(upload) = {}
  /\ upload.tree[<<>>].kind = "object"

(* The inductive invariant of loading. *)
LoadingInv ==
  /\ upload \in Uploads
  /\ outcome \in {"raw", "parsed", "loaded", "invalid", "too_large", "crashed"}
  /\ outcome = "raw" => stack = <<>> /\ nodes = 0
  /\ outcome = "raw" => visited = {}
  /\ outcome = "parsed" => ParseHolds /\ StackHolds /\ WalkHolds
  /\ L!LoadedIffSound
  /\ L!WalkBounded

(* What is known of the tree of an upload, and of the part that is walked. *)
LEMMA TreeFacts ==
  ASSUME L!LoadingAssumption, upload \in Uploads
  PROVE  /\ <<>> \in Nodes /\ Nodes \subseteq DOMAIN upload.tree
         /\ \A p \in Nodes :
              /\ p \in Seq(Nat) /\ L!Entered(upload.tree[p]) \in Nat
              /\ \A i \in 1 .. L!Entered(upload.tree[p]) : Append(p, i) \in Nodes
              /\ p # <<>> =>
                   L!Front(p) \in Nodes /\ L!Last(p) \in 1 .. L!Entered(upload.tree[L!Front(p)])
         /\ \A p \in DOMAIN upload.tree : upload.tree[p].keys \in L!KeyKinds(upload.format)
<1> DEFINE tree == upload.tree
<1>1. /\ <<>> \in DOMAIN tree
      /\ \A p \in DOMAIN tree :
           /\ p \in Seq(Nat) /\ tree[p].width \in Nat
           /\ \A i \in 1 .. tree[p].width : Append(p, i) \in DOMAIN tree
           /\ p # <<>> => L!Front(p) \in DOMAIN tree /\ L!Last(p) \in 1 .. tree[L!Front(p)].width
      /\ \A p \in DOMAIN tree : tree[p].keys \in L!KeyKinds(upload.format)
  BY Zenon DEF L!LoadingAssumption, L!Tree
<1> HIDE DEF tree
<1>2. Nodes = L!Walked(tree) /\ Nodes \subseteq DOMAIN tree
  BY DEF Nodes, L!Walked, tree
<1>3. <<>> \in Nodes
  BY <1>1, <1>2 DEF L!Walked
<1>4. ASSUME NEW p \in Nodes
      PROVE  /\ p \in Seq(Nat) /\ L!Entered(tree[p]) \in Nat
             /\ \A i \in 1 .. L!Entered(tree[p]) : Append(p, i) \in Nodes
             /\ p # <<>> => L!Front(p) \in Nodes /\ L!Last(p) \in 1 .. L!Entered(tree[L!Front(p)])
  <2>1. p \in DOMAIN tree /\ p \in Seq(Nat) /\ tree[p].width \in Nat
    BY <1>1, <1>2
  <2>2. L!Entered(tree[p]) \in Nat
    BY <2>1 DEF L!Entered
  <2>3. ASSUME NEW i \in 1 .. L!Entered(tree[p])
        PROVE  Append(p, i) \in Nodes
    <3>1. tree[p].kind \notin L!Opaque /\ i \in 1 .. tree[p].width /\ i \in Nat
      BY <2>1 DEF L!Entered
    <3>2. \A j \in 1 .. Len(p) : tree[SubSeq(p, 1, j - 1)].kind \notin L!Opaque
      BY <1>2 DEF L!Walked
    <3>. QED  BY <1>1, <1>2, <2>1, <3>1, <3>2, WalkedChild
  <2>4. ASSUME p # <<>>
        PROVE  L!Front(p) \in Nodes /\ L!Last(p) \in 1 .. L!Entered(tree[L!Front(p)])
    <3> DEFINE q == L!Front(p)
               k == L!Last(p)
    <3>1. /\ q \in Seq(Nat) /\ p = Append(q, k)
      BY <2>1, <2>4, FrontAndLast
    <3>2. q \in DOMAIN tree /\ k \in 1 .. tree[q].width /\ tree[q].width \in Nat
      BY <1>1, <2>1, <2>4
    <3>3. k \in Nat
      BY <3>2
    <3> HIDE DEF q, k
    <3>4. Append(q, k) \in L!Walked(tree)
      BY <1>2, <3>1
    <3>5. /\ \A i \in 1 .. Len(q) : tree[SubSeq(q, 1, i - 1)].kind \notin L!Opaque
          /\ tree[q].kind \notin L!Opaque
      BY <3>1, <3>3, <3>4, WalkedChild
    <3>6. q \in Nodes
      BY <1>2, <3>2, <3>5 DEF L!Walked
    <3>7. k \in 1 .. L!Entered(tree[q])
      BY <3>2, <3>5 DEF L!Entered
    <3>. QED  BY <3>6, <3>7 DEF q, k
  <2>. QED  BY <2>1, <2>2, <2>3, <2>4
<1>. QED  BY <1>1, <1>2, <1>3, <1>4 DEF tree

(* A step that reads no further: what the parser refuses is not sound. *)
LEMMA ParseRefusesUnsound ==
  ASSUME L!LoadingAssumption, upload \in Uploads, L!Sound(upload)
  PROVE  ParseHolds
<1>1. L!Readable(upload) /\ L!Orderly(upload)
  BY DEF L!Sound
<1>2. upload.bytes = "ok" /\ upload.wellFormed /\ upload.nesting <= StackDepth
  BY <1>1, Zenon DEF L!Readable
<1>3. upload.tree[<<>>].kind = "object"
  BY <1>1, Zenon DEF L!Orderly
<1>4. L!BytesFault(upload) = "none"
  BY <1>2 DEF L!BytesFault
<1>5. \A p \in DOMAIN upload.tree :
        /\ upload.tree[p].keys \in {"plain", "number"} /\ upload.tree[p].kind # "illtyped"
        /\ upload.format = "json" => upload.tree[p].kind # "constant"
  BY <1>1, Zenon DEF L!Readable
<1>6. /\ ~L!HasKeys(upload.tree, {"duplicate"})
      /\ upload.format = "json" => ~L!HasKind(upload.tree, {"constant"})
      /\ ~L!HasKeys(upload.tree, {"duplicate", "merge", "structure"})
      /\ ~L!HasKind(upload.tree, {"illtyped"})
  BY <1>5 DEF L!HasKeys, L!HasKind
<1>7. /\ upload.format = "json" => L!JsonFaults(upload) = {}
      /\ L!YamlFaults(upload) = {}
  <2>1. ~(upload.nesting > StackDepth)
    BY <1>2 DEF L!LoadingAssumption
  <2>. QED  BY <2>1, <1>6 DEF L!JsonFaults, L!YamlFaults
<1>8. L!ParseFaults(upload) = {}
  BY <1>2, <1>7 DEF L!ParseFaults
<1>. QED  BY <1>3, <1>4, <1>8 DEF ParseHolds

(* The parse keeps the invariant. *)
LEMMA ParseKeeps ==
  ASSUME L!LoadingAssumption, LoadingInv, L!Parse
  PROVE  LoadingInv'
<1>1. /\ upload' = upload /\ nodes' = nodes /\ visited' = visited
      /\ outcome = "raw" /\ stack = <<>> /\ nodes = 0 /\ visited = {}
      /\ upload \in Uploads
  BY DEF L!Parse, LoadingInv
<1>2. MaxNodes \in Nat /\ MaxDepth \in Nat
  BY DEF L!LoadingAssumption
<1>3. CASE ~ParseHolds
  <2>1. stack' = stack /\ outcome' \in {"invalid", "too_large", "crashed"}
    <3>1. L!BytesFault(upload) \in {"none", "invalid", "too_large"}
      BY DEF L!BytesFault
    <3>2. L!ParseFaults(upload) \subseteq {"invalid", "too_large", "crashed"}
      <4>1. L!JsonFaults(upload) \subseteq {"invalid", "crashed"}
        BY DEF L!JsonFaults
      <4>2. L!YamlFaults(upload) \subseteq {"invalid", "too_large", "crashed"}
        BY DEF L!YamlFaults
      <4>. QED  BY <4>1, <4>2 DEF L!ParseFaults
    <3>3. CASE L!BytesFault(upload) # "none"
      <4>1. L!Refuse(L!BytesFault(upload))
        BY <3>3 DEF L!Parse
      <4>. QED  BY <3>1, <3>3, <4>1 DEF L!Refuse
    <3>4. CASE L!BytesFault(upload) = "none" /\ L!ParseFaults(upload) # {}
      <4>1. \E fault \in L!ParseFaults(upload) : L!Refuse(fault)
        BY <3>4 DEF L!Parse
      <4>. QED  BY <3>2, <3>4, <4>1 DEF L!Refuse
    <3>5. CASE L!BytesFault(upload) = "none" /\ L!ParseFaults(upload) = {}
      <4>1. L!Refuse("invalid")
        BY <1>3, <3>5 DEF L!Parse, ParseHolds
      <4>. QED  BY <4>1 DEF L!Refuse
    <3>. QED  BY <3>3, <3>4, <3>5
  <2>2. ~L!Sound(upload)
    BY <1>1, <1>3, ParseRefusesUnsound
  <2>3. L!LoadedIffSound'
    BY <1>1, <2>1, <2>2 DEF L!LoadedIffSound
  <2>4. L!WalkBounded'
    BY <1>1, <1>2, <2>1 DEF L!WalkBounded
  <2>. QED  BY <1>1, <2>1, <2>3, <2>4 DEF LoadingInv
<1>4. CASE ParseHolds
  <2>1. outcome' = "parsed" /\ stack' = <<<<<<>>, 0>>>>
    BY <1>4 DEF L!Parse, ParseHolds
  <2>2. ParseHolds'
    BY <1>1, <1>4 DEF ParseHolds
  <2>3. <<>> \in Nodes /\ Nodes' = Nodes
    BY <1>1, TreeFacts DEF Nodes
  <2>4. StackHolds'
    BY <2>1, <2>3 DEF StackHolds
  <2>5. WalkHolds'
    <3>1. IsFiniteSet({}) /\ Cardinality({}) = 0
      BY FS_EmptySet
    <3>2. Waiting(<<>>)'
      BY <2>1 DEF Waiting
    <3>. QED  BY <1>1, <1>2, <2>1, <3>1, <3>2 DEF WalkHolds
  <2>6. L!LoadedIffSound'
    BY <2>1 DEF L!LoadedIffSound
  <2>7. L!WalkBounded'
    BY <1>1, <1>2, <2>1 DEF L!WalkBounded
  <2>. QED  BY <1>1, <2>1, <2>2, <2>4, <2>5, <2>6, <2>7 DEF LoadingInv
<1>. QED  BY <1>3, <1>4

(* A node whose children are pushed. *)
LEMMA PushKeeps ==
  ASSUME L!LoadingAssumption, LoadingInv, outcome = "parsed", stack # <<>>,
         upload' = upload, outcome' = outcome,
         NEW p, p = L!Last(stack)[1], Len(p) <= MaxDepth, ~L!ShapeFault(upload.tree[p]),
         nodes' = nodes + 1, nodes + 1 <= MaxNodes, visited' = visited \cup {p},
         stack' = L!Front(stack) \o L!Pushed(p, Len(p))
  PROVE  LoadingInv'
<1> DEFINE n == Len(stack)
           w == L!Entered(upload.tree[p])
<1>1. upload \in Uploads /\ ParseHolds /\ StackHolds /\ WalkHolds
  BY DEF LoadingInv
<1>2. Nodes' = Nodes /\ stack \in Seq(Nodes \X Nat)
  BY <1>1 DEF Nodes, StackHolds
<1>3. n \in Nat \ {0} /\ DOMAIN stack = 1 .. n
  BY <1>2, EmptySeq
<1>4. n \in DOMAIN stack /\ p = stack[n][1]
  BY <1>3 DEF L!Last
<1>5. p \in Nodes /\ p \in Seq(Nat) /\ w \in Nat /\ \A i \in 1 .. w : Append(p, i) \in Nodes
  <2>1. stack[n] \in Nodes \X Nat
    BY <1>2, <1>4
  <2>. QED  BY <1>1, <1>4, <2>1, TreeFacts
<1> DEFINE child(i) == Append(p, i)
<1>5a. \A i \in 1 .. w : child(i) \in Nodes
  BY <1>5
<1>5b. Len(p) \in Nat
  BY <1>5
<1> HIDE DEF n, w
<1>6. ASSUME NEW i \in 1 .. w
      PROVE  /\ child(i) # p /\ child(i) # <<>>
             /\ Len(child(i)) = Len(p) + 1
             /\ L!Front(child(i)) = p /\ L!Last(child(i)) = i
  <2>1. i \in Nat
    BY <1>5
  <2>. QED  BY <1>5, <2>1, ChildOf
<1> HIDE DEF child
<1> DEFINE kept == L!Front(stack)
           pushed == L!Pushed(p, Len(p))
<1>7. /\ kept \in Seq(Nodes \X Nat) /\ Len(kept) = n - 1
      /\ \A i \in 1 .. n - 1 : kept[i] = stack[i]
  <2>1. \A i \in 1 .. (n - 1) : stack[i] \in Nodes \X Nat
    BY <1>2, <1>3
  <2>. QED  BY <1>3, <2>1, SubSeqProperties DEF L!Front, n
<1>8. pushed \in Seq(Nodes \X Nat) /\ Len(pushed) = w
  <2>1. pushed = [i \in 1 .. w |-> <<child(i), Len(p) + 1>>]
    BY DEF L!Pushed, w, child
  <2>2. ASSUME NEW i \in 1 .. w
        PROVE  <<child(i), Len(p) + 1>> \in Nodes \X Nat
    BY <1>5a, <1>5b
  <2>. QED  BY <1>5, <2>1, <2>2
<1>8a. ASSUME NEW i \in 1 .. w
       PROVE  pushed[i] = <<child(i), Len(p) + 1>>
  BY DEF L!Pushed, w, child
<1> HIDE DEF kept, pushed
<1>5c. w \in Nat /\ n \in Nat \ {0}
  BY <1>3, <1>5
<1>9. stack' \in Seq(Nodes \X Nat) /\ DOMAIN stack' = 1 .. n - 1 + w
  <2>1. stack' = kept \o pushed
    BY DEF kept, pushed
  <2>. QED  BY <1>3, <1>5, <1>7, <1>8, <2>1, ConcatProperties
<1>9d. DOMAIN stack' = 1 .. n - 1 + w
  BY <1>9
<1>9a. ASSUME NEW i \in 1 .. n - 1
       PROVE  i \in DOMAIN stack' /\ i \in DOMAIN stack /\ stack'[i] = stack[i] /\ i # n
  <2>1. stack' = kept \o pushed /\ i \in 1 .. Len(kept) + Len(pushed) /\ i <= Len(kept)
    <3>1. stack' = kept \o pushed
      BY DEF kept, pushed
    <3>2. Len(kept) = n - 1 /\ Len(pushed) = w
      BY <1>7, <1>8
    <3> HIDE DEF n, w
    <3>3. i \in 1 .. (n - 1) + w /\ i <= n - 1
      BY <1>5c
    <3>. QED  BY <3>1, <3>2, <3>3
  <2>2. stack'[i] = kept[i]
    BY <1>7, <1>8, <2>1, ConcatProperties
  <2>3. kept[i] = stack[i]
    BY <1>7
  <2>4. i \in DOMAIN stack' /\ i \in DOMAIN stack /\ i # n
    BY <1>3, <1>5c, <1>9d
  <2>. QED  BY <2>2, <2>3, <2>4
<1>9b. ASSUME NEW i \in 1 .. w
       PROVE  n - 1 + i \in DOMAIN stack' /\ stack'[n - 1 + i] = <<child(i), Len(p) + 1>>
  <2>1. /\ stack' = kept \o pushed /\ n - 1 + i \in 1 .. Len(kept) + Len(pushed)
        /\ ~(n - 1 + i <= Len(kept)) /\ (n - 1 + i) - Len(kept) = i
    <3>1. stack' = kept \o pushed
      BY DEF kept, pushed
    <3>2. Len(kept) = n - 1 /\ Len(pushed) = w
      BY <1>7, <1>8
    <3> HIDE DEF n, w
    <3>3. /\ n - 1 + i \in 1 .. (n - 1) + w
          /\ ~(n - 1 + i <= n - 1) /\ (n - 1 + i) - (n - 1) = i
      BY <1>5c
    <3>. QED  BY <3>1, <3>2, <3>3
  <2> DEFINE j == n - 1 + i
  <2>2. stack'[j] = pushed[j - Len(kept)]
    <3>1. \A a \in 1 .. Len(kept) + Len(pushed) :
            (kept \o pushed)[a] = IF a <= Len(kept) THEN kept[a] ELSE pushed[a - Len(kept)]
      BY <1>7, <1>8, ConcatProperties
    <3> HIDE DEF j
    <3>. QED  BY <2>1, <3>1, Zenon DEF j
  <2>3. n - 1 + i \in DOMAIN stack'
    BY <1>5c, <1>9d
  <2>. QED  BY <1>8a, <2>1, <2>2, <2>3
<1>10. ASSUME NEW i \in DOMAIN stack'
       PROVE  \/ i \in 1 .. n - 1
              \/ \E k \in 1 .. w : i = n - 1 + k
  <2>1. i \in 1 .. n - 1 \/ (i - (n - 1) \in 1 .. w /\ i = n - 1 + (i - (n - 1)))
    BY <1>5c, <1>9d
  <2>. QED  BY <2>1
<1>11. p \notin visited /\ (p # <<>> => L!Front(p) \in visited)
  BY <1>1, <1>4 DEF WalkHolds
<1>12. \A i \in DOMAIN stack : i # n => stack[i][1] # p
  BY <1>1, <1>4 DEF StackHolds
<1>13. StackHolds'
  <2>1. ASSUME NEW i \in DOMAIN stack'
        PROVE  stack'[i][2] = Len(stack'[i][1])
    <3>1. CASE i \in 1 .. n - 1
      BY <1>1, <1>9a, <3>1 DEF StackHolds
    <3>2. ASSUME NEW k \in 1 .. w, i = n - 1 + k
          PROVE  stack'[i][2] = Len(stack'[i][1])
      BY <1>6, <1>9b, <3>2
    <3>. QED  BY <1>10, <3>1, <3>2
  <2>2. ASSUME NEW i \in DOMAIN stack', NEW j \in DOMAIN stack', stack'[i][1] = stack'[j][1]
        PROVE  i = j
    <3>1. ASSUME NEW a \in DOMAIN stack, NEW k \in 1 .. w, stack[a][1] = child(k)
          PROVE  FALSE
      <4>1. L!Front(stack[a][1]) \in visited
        BY <1>1, <1>6, <3>1 DEF WalkHolds
      <4>. QED  BY <1>6, <1>11, <3>1, <4>1
    <3>2. \A k, l \in 1 .. w : child(k) = child(l) => k = l
      BY <1>6
    <3>3. CASE i \in 1 .. n - 1 /\ j \in 1 .. n - 1
      <4>1. /\ i \in DOMAIN stack /\ stack'[i] = stack[i]
            /\ j \in DOMAIN stack /\ stack'[j] = stack[j]
        BY <1>9a, <3>3
      <4>2. \A a, c \in DOMAIN stack : stack[a][1] = stack[c][1] => a = c
        BY <1>1 DEF StackHolds
      <4>. QED  BY <2>2, <4>1, <4>2, Zenon
    <3>4. ASSUME NEW k \in 1 .. w, i = n - 1 + k, j \in 1 .. n - 1
          PROVE  FALSE
      BY <1>9a, <1>9b, <2>2, <3>1, <3>4
    <3>5. ASSUME NEW k \in 1 .. w, j = n - 1 + k, i \in 1 .. n - 1
          PROVE  FALSE
      BY <1>9a, <1>9b, <2>2, <3>1, <3>5
    <3>6. ASSUME NEW k \in 1 .. w, NEW l \in 1 .. w, i = n - 1 + k, j = n - 1 + l
          PROVE  i = j
      BY <1>9b, <2>2, <3>2, <3>6
    <3>. QED  BY <1>10, <3>3, <3>4, <3>5, <3>6
  <2>. QED  BY <1>2, <1>9, <2>1, <2>2 DEF StackHolds
<1>14. visited' \subseteq Nodes /\ IsFiniteSet(visited') /\ nodes' = Cardinality(visited')
  BY <1>1, <1>5, <1>11, FS_AddElement DEF WalkHolds
<1>15. ASSUME NEW i \in DOMAIN stack'
       PROVE  /\ stack'[i][1] \notin visited'
              /\ stack'[i][1] # <<>> => L!Front(stack'[i][1]) \in visited'
  <2>1. CASE i \in 1 .. n - 1
    BY <1>1, <1>9a, <1>12, <2>1 DEF WalkHolds
  <2>2. ASSUME NEW k \in 1 .. w, i = n - 1 + k
        PROVE  stack'[i][1] \notin visited' /\ L!Front(stack'[i][1]) \in visited'
    <3>1. stack'[i][1] = child(k)
      <4>1. stack'[n - 1 + k] = <<child(k), Len(p) + 1>>
        BY <1>9b
      <4>. QED  BY <2>2, <4>1
    <3>. QED  BY <1>1, <1>6, <1>11, <3>1 DEF WalkHolds
  <2>. QED  BY <1>10, <2>1, <2>2
<1>16. ASSUME NEW q, Waiting(q)
       PROVE  q \in visited' \/ Waiting(q)'
  <2>1. PICK i \in DOMAIN stack : stack[i][1] = q
    BY <1>16 DEF Waiting
  <2>2. CASE i = n
    BY <1>4, <2>1, <2>2
  <2>3. CASE i # n
    <3>1. i \in 1 .. n - 1
      BY <1>3, <2>3
    <3>. QED  BY <1>9a, <2>1, <3>1 DEF Waiting
  <2>. QED  BY <2>2, <2>3
<1>17. ASSUME NEW i \in 1 .. w
       PROVE  Waiting(child(i))'
  <2>1. n - 1 + i \in DOMAIN stack' /\ stack'[n - 1 + i][1] = child(i)
    BY <1>9b
  <2>. QED  BY <2>1 DEF Waiting
<1>18. ASSUME NEW q \in visited'
       PROVE  /\ Len(q) <= MaxDepth /\ ~L!ShapeFault(upload.tree[q])
              /\ q # <<>> => L!Front(q) \in visited'
              /\ \A i \in 1 .. L!Entered(upload.tree[q]) :
                   Append(q, i) \in visited' \/ Waiting(Append(q, i))'
  <2>1. CASE q = p
    BY <1>11, <1>17, <2>1 DEF w, child
  <2>2. CASE q \in visited
    BY <1>1, <1>16, <2>2 DEF WalkHolds
  <2>. QED  BY <2>1, <2>2
<1>19. <<>> \in visited' \/ Waiting(<<>>)'
  BY <1>1, <1>16 DEF WalkHolds
<1>20. WalkHolds'
  BY <1>2, <1>14, <1>15, <1>18, <1>19 DEF WalkHolds
<1>21. L!WalkBounded'
  <2>1. MaxNodes \in Nat /\ MaxDepth \in Nat
    BY DEF L!LoadingAssumption
  <2>2. Len(p) \in Nat
    BY <1>5
  <2>3. nodes' \in Nat
    BY <1>14, FS_CardinalityType
  <2>4. ASSUME NEW i \in DOMAIN stack'
        PROVE  stack'[i][2] <= MaxDepth + 1
    <3>1. CASE i \in 1 .. n - 1
      BY <1>9a, <3>1 DEF LoadingInv, L!WalkBounded
    <3>2. ASSUME NEW k \in 1 .. w, i = n - 1 + k
          PROVE  stack'[i][2] <= MaxDepth + 1
      <4>1. stack'[n - 1 + k] = <<child(k), Len(p) + 1>>
        BY <1>9b
      <4>2. stack'[i][2] = Len(p) + 1
        BY <3>2, <4>1
      <4>. QED  BY <2>1, <2>2, <4>2
    <3>. QED  BY <1>10, <3>1, <3>2
  <2>. QED  BY <2>1, <2>3, <2>4 DEF L!WalkBounded
<1>22. ParseHolds' /\ L!LoadedIffSound'
  BY <1>1 DEF ParseHolds, L!LoadedIffSound
<1>. QED  BY <1>1, <1>13, <1>20, <1>21, <1>22 DEF LoadingInv

(* One turn of the walk keeps the invariant. *)
LEMMA PopKeeps ==
  ASSUME L!LoadingAssumption, LoadingInv, L!PopNode
  PROVE  LoadingInv'
<1> DEFINE p == L!Last(stack)[1]
           depth == L!Last(stack)[2]
<1>1. upload \in Uploads /\ ParseHolds /\ StackHolds /\ WalkHolds /\ stack # <<>> /\ outcome = "parsed"
  BY DEF LoadingInv, L!PopNode
<1>2. nodes' = nodes + 1 /\ visited' = visited \cup {p} /\ upload' = upload
  BY DEF L!PopNode
<1>3. Len(stack) \in DOMAIN stack /\ p = stack[Len(stack)][1] /\ depth = stack[Len(stack)][2]
  <2>1. Len(stack) \in Nat \ {0} /\ DOMAIN stack = 1 .. Len(stack)
    BY <1>1, EmptySeq DEF StackHolds
  <2>. QED  BY <2>1 DEF L!Last
<1>4. p \in Nodes /\ depth = Len(p) /\ p \in Seq(Nat) /\ p \notin visited
  <2>1. stack[Len(stack)] \in Nodes \X Nat
    BY <1>1, <1>3 DEF StackHolds
  <2>. QED  BY <1>1, <1>3, <2>1, TreeFacts DEF StackHolds, WalkHolds
<1>5. /\ MaxNodes \in Nat /\ MaxDepth \in Nat /\ nodes \in Nat /\ nodes <= MaxNodes
      /\ IsFiniteSet(visited') /\ Cardinality(visited') = nodes + 1 /\ visited' \subseteq Nodes
  BY <1>1, <1>2, <1>4, FS_AddElement, FS_CardinalityType DEF L!LoadingAssumption, WalkHolds
<1> HIDE DEF p, depth
<1>6. ASSUME stack' = stack, outcome' \in {"too_large", "invalid"}, ~L!Sound(upload)
      PROVE  LoadingInv'
  <2>1. L!LoadedIffSound'
    BY <1>2, <1>6 DEF L!LoadedIffSound
  <2>2. L!WalkBounded'
    BY <1>2, <1>5, <1>6 DEF LoadingInv, L!WalkBounded
  <2>. QED  BY <1>1, <1>2, <1>6, <2>1, <2>2 DEF LoadingInv
<1>7. CASE L!Overrun(nodes + 1) \/ depth > MaxDepth
  <2>1. stack' = stack /\ outcome' = "too_large"
    BY <1>7 DEF L!PopNode, p, depth
  <2>2. ASSUME L!Overrun(nodes + 1)
        PROVE  ~L!Sound(upload)
    <3>1. ASSUME IsFiniteSet(Nodes)
          PROVE  Cardinality(Nodes) \in Nat /\ nodes + 1 <= Cardinality(Nodes)
      BY <1>5, <3>1, FS_Subset, FS_CardinalityType
    <3>2. ~(IsFiniteSet(Nodes) /\ Cardinality(Nodes) <= MaxNodes)
      BY <1>5, <2>2, <3>1 DEF L!Overrun
    <3>. QED  BY <3>2, SizesAgree, Zenon DEF L!Sound, L!Orderly, Nodes
  <2>3. ASSUME depth > MaxDepth
        PROVE  ~L!Sound(upload)
    <3>1. ~(Len(p) <= MaxDepth)
      <4>1. Len(p) \in Nat
        BY <1>4
      <4>. QED  BY <1>4, <1>5, <2>3, <4>1
    <3>. QED  BY <1>4, <3>1, Zenon DEF L!Sound, L!Orderly, Nodes
  <2>. QED  BY <1>6, <1>7, <2>1, <2>2, <2>3
<1>8. CASE ~(L!Overrun(nodes + 1) \/ depth > MaxDepth) /\ L!ShapeFault(upload.tree[p])
  <2>1. stack' = stack /\ outcome' = "invalid"
    BY <1>8 DEF L!PopNode, p, depth
  <2>2. ~(upload.tree[p].keys = "plain" /\ upload.tree[p].kind \notin {"constant", "overflow"})
    BY <1>8 DEF L!ShapeFault
  <2>3. ~L!Sound(upload)
    BY <1>4, <2>2, Zenon DEF L!Sound, L!Orderly, Nodes
  <2>. QED  BY <1>6, <2>1, <2>3
<1>9. CASE ~(L!Overrun(nodes + 1) \/ depth > MaxDepth) /\ ~L!ShapeFault(upload.tree[p])
  <2>1. stack' = L!Front(stack) \o L!Pushed(p, depth) /\ outcome' = outcome
    BY <1>9 DEF L!PopNode, p, depth
  <2>2. nodes + 1 <= MaxNodes /\ Len(p) <= MaxDepth
    <3>1. Len(p) \in Nat
      BY <1>4
    <3>. QED  BY <1>4, <1>5, <1>9, <3>1 DEF L!Overrun
  <2>3. p = L!Last(stack)[1]
    BY DEF p
  <2>. QED  BY <1>1, <1>2, <1>4, <1>9, <2>1, <2>2, <2>3, PushKeeps
<1>. QED  BY <1>7, <1>8, <1>9

(* When nothing waits, every node has been visited. *)
LEMMA WalkComplete ==
  ASSUME L!LoadingAssumption, upload \in Uploads, WalkHolds, stack = <<>>
  PROVE  visited = Nodes
<1> DEFINE missed == {n \in Nat : \E p \in Nodes \ visited : Len(p) = n}
<1>1. visited \subseteq Nodes /\ <<>> \in visited
  BY DEF WalkHolds, Waiting
<1> SUFFICES ASSUME Nodes \ visited # {} PROVE FALSE
  BY <1>1
<1>2. \A p \in Nodes : p \in Seq(Nat) /\ Len(p) \in Nat
  BY TreeFacts
<1>3. missed # {} /\ missed \in SUBSET Nat
  BY <1>2
<1>4. PICK n \in missed : \A k \in missed : n <= k
  <2> HIDE DEF missed
  <2>. QED  BY <1>3, LeastNat
<1>5. PICK p \in Nodes \ visited : Len(p) = n
  OBVIOUS
<1>6. p # <<>> /\ p \in Seq(Nat)
  BY <1>1, <1>2
<1> DEFINE q == L!Front(p)
<1>7. /\ q \in Seq(Nat) /\ Len(q) = n - 1 /\ p = Append(q, L!Last(p))
      /\ q \in Nodes /\ L!Last(p) \in 1 .. L!Entered(upload.tree[q])
  BY <1>5, <1>6, FrontAndLast, TreeFacts
<1> HIDE DEF q
<1>8. q \in visited
  <2>1. n \in Nat /\ Len(q) \in Nat
    BY <1>2, <1>7
  <2>2. Len(q) \notin missed
    BY <1>4, <1>7, <2>1
  <2>. QED  BY <1>7, <2>1, <2>2
<1>9. p \in visited
  <2>1. Append(q, L!Last(p)) \in visited \/ Waiting(Append(q, L!Last(p)))
    BY <1>7, <1>8, Zenon DEF WalkHolds
  <2>2. ~Waiting(Append(q, L!Last(p)))
    BY DEF Waiting
  <2>. QED  BY <1>7, <2>1, <2>2, Zenon
<1>. QED  BY <1>5, <1>9

(* A document that passes every check is sound. *)
LEMMA WalkedIsSound ==
  ASSUME L!LoadingAssumption, upload \in Uploads, ParseHolds, WalkHolds, visited = Nodes
  PROVE  L!Sound(upload) <=> upload.version = "3.x" /\ upload.paths
<1>1. upload.bytes = "ok"
  <2>1. upload.bytes \in {"ok", "too_large", "empty", "bom", "not_utf8"}
    BY Zenon DEF L!LoadingAssumption
  <2>. QED  BY <2>1 DEF ParseHolds, L!BytesFault
<1>2. /\ upload.wellFormed /\ upload.tree[<<>>].kind = "object"
      /\ upload.format = "json" => L!JsonFaults(upload) = {}
      /\ upload.format # "json" => L!YamlFaults(upload) = {}
  BY DEF ParseHolds, L!ParseFaults
<1>3. upload.nesting <= StackDepth
  <2>1. ~(upload.nesting > StackDepth)
    BY <1>2 DEF L!JsonFaults, L!YamlFaults
  <2>2. upload.nesting \in Nat /\ StackDepth \in Nat
    BY Zenon DEF L!LoadingAssumption
  <2>. QED  BY <2>1, <2>2
<1>4. ASSUME NEW p \in DOMAIN upload.tree
      PROVE  /\ upload.tree[p].keys \in {"plain", "number"} /\ upload.tree[p].kind # "illtyped"
             /\ upload.format = "json" => upload.tree[p].kind # "constant"
  <2>1. upload.tree[p].keys \in L!KeyKinds(upload.format)
    BY TreeFacts
  <2>2. upload.tree[p].kind \in L!Kinds(upload.format)
    BY Zenon DEF L!LoadingAssumption
  <2>3. CASE upload.format = "json"
    <3>1. ~L!HasKeys(upload.tree, {"duplicate"}) /\ ~L!HasKind(upload.tree, {"constant"})
      BY <1>2, <2>3 DEF L!JsonFaults
    <3>. QED  BY <2>1, <2>2, <2>3, <3>1 DEF L!KeyKinds, L!Kinds, L!HasKeys, L!HasKind
  <2>4. CASE upload.format # "json"
    <3>1. /\ ~L!HasKeys(upload.tree, {"duplicate", "merge", "structure"})
          /\ ~L!HasKind(upload.tree, {"illtyped"})
      BY <1>2, <2>4 DEF L!YamlFaults
    <3>. QED  BY <2>1, <2>4, <3>1 DEF L!KeyKinds, L!HasKeys, L!HasKind
  <2>. QED  BY <2>3, <2>4
<1>5. L!Readable(upload)
  BY <1>1, <1>2, <1>3, <1>4, Zenon DEF L!Readable
<1>6. L!IsFiniteSet(Nodes) /\ L!Cardinality(Nodes) <= MaxNodes
  BY SizesAgree DEF WalkHolds
<1>7. ASSUME NEW p \in Nodes
      PROVE  /\ Len(p) <= MaxDepth /\ upload.tree[p].keys = "plain"
             /\ upload.tree[p].kind \notin {"constant", "overflow"}
  <2>1. /\ Len(p) <= MaxDepth /\ upload.tree[p].keys # "number"
        /\ upload.tree[p].kind \notin {"constant", "overflow"}
    BY DEF WalkHolds, L!ShapeFault
  <2>2. upload.tree[p].keys \in {"plain", "number"}
    BY <1>4, TreeFacts
  <2>. QED  BY <2>1, <2>2
<1>8. L!Orderly(upload)
  BY <1>2, <1>6, <1>7, Zenon DEF L!Orderly, Nodes
<1>. QED  BY <1>5, <1>8, Zenon DEF L!Sound

(* The checks after the walk keep the invariant. *)
LEMMA AcceptKeeps ==
  ASSUME L!LoadingAssumption, LoadingInv, L!Accept
  PROVE  LoadingInv'
<1>1. /\ upload \in Uploads /\ ParseHolds /\ WalkHolds /\ stack = <<>>
      /\ upload' = upload /\ stack' = stack /\ nodes' = nodes /\ visited' = visited
  BY DEF LoadingInv, L!Accept
<1>2. L!Sound(upload) <=> upload.version = "3.x" /\ upload.paths
  BY <1>1, WalkComplete, WalkedIsSound
<1>3. outcome' = IF L!Sound(upload) THEN "loaded" ELSE "invalid"
  BY <1>2, Zenon DEF L!Accept
<1>4. L!LoadedIffSound'
  BY <1>1, <1>3 DEF L!LoadedIffSound
<1>5. L!WalkBounded'
  BY <1>1 DEF LoadingInv, L!WalkBounded
<1>. QED  BY <1>1, <1>3, <1>4, <1>5 DEF LoadingInv

(* load_document loads exactly the sound documents, and walks no further   *)
(* than its limits.                                                        *)
LEMMA LoadingKeeps ==
  ASSUME L!LoadingAssumption
  PROVE  L!Spec => [](L!LoadedIffSound /\ L!WalkBounded)
<1>1. L!Init => LoadingInv
  BY DEF L!Init, LoadingInv, L!LoadedIffSound, L!WalkBounded, L!LoadingAssumption
<1>2. LoadingInv /\ [L!Next]_(L!vars) => LoadingInv'
  <2> SUFFICES ASSUME LoadingInv, [L!Next]_(L!vars) PROVE LoadingInv'
    OBVIOUS
  <2>1. CASE UNCHANGED L!vars
    <3>1. /\ upload' = upload /\ stack' = stack /\ nodes' = nodes
          /\ visited' = visited /\ outcome' = outcome
      BY <2>1 DEF L!vars
    <3>. QED  BY <3>1 DEF LoadingInv, L!LoadedIffSound, L!WalkBounded, ParseHolds, StackHolds,
                          WalkHolds, Nodes, Waiting
  <2>. QED  BY <2>1, ParseKeeps, PopKeeps, AcceptKeeps DEF L!Next
<1>3. LoadingInv => L!LoadedIffSound /\ L!WalkBounded
  BY DEF LoadingInv
<1>. QED  BY <1>1, <1>2, <1>3, PTL DEF L!Spec

-----------------------------------------------------------------------------
(* References.  The recursion of _resolve goes down by levels of depth, so *)
(* an induction over it is one over the number of levels that are left.    *)

(* f is what _resolve returns with up to n levels left. *)
LevelRun(f, d, n) ==
  f = [i \in 0 .. n |->
         [place \in DOMAIN d |->
            [seen \in SUBSET R!Targets(d) |->
               IF i = 0 THEN R!Refused ELSE R!ResolveNode(d, place, seen, f[i - 1])]]]

(* The recursion of Levels defines a function. *)
LEMMA LevelRunExists ==
  ASSUME NEW d
  PROVE  \A n \in Nat : \E f : LevelRun(f, d, n)
<1> DEFINE bad == {n \in Nat : ~ \E f : LevelRun(f, d, n)}
           level(i, f) == [place \in DOMAIN d |->
                             [seen \in SUBSET R!Targets(d) |->
                                IF i = 0 THEN R!Refused ELSE R!ResolveNode(d, place, seen, f)]]
<1> SUFFICES ASSUME bad # {} PROVE FALSE
  OBVIOUS
<1>1. PICK n \in bad : \A k \in bad : n <= k
  <2>1. bad \in SUBSET Nat
    OBVIOUS
  <2> HIDE DEF bad
  <2>. QED  BY <2>1, LeastNat
<1>2. n \in Nat /\ ~ \E f : LevelRun(f, d, n)
  OBVIOUS
<1> HIDE DEF level
<1>3. n # 0
  <2>1. LevelRun([i \in 0 .. 0 |-> level(0, 0)], d, 0)
    BY DEF LevelRun, level
  <2>. QED  BY <1>2, <2>1
<1>4. n - 1 \in Nat /\ n - 1 \notin bad
  BY <1>1, <1>2, <1>3
<1>5. PICK f : LevelRun(f, d, n - 1)
  BY <1>4
<1>6. f = [i \in 0 .. n - 1 |-> level(i, f[i - 1])]
  BY <1>5 DEF LevelRun, level
<1> DEFINE g == [i \in 0 .. n |-> IF i = n THEN level(n, f[n - 1]) ELSE f[i]]
<1>7. g = [i \in 0 .. n |-> level(i, g[i - 1])]
  <2>1. ASSUME NEW i \in 0 .. n PROVE g[i] = level(i, g[i - 1])
    <3>1. i # 0 => i - 1 \in 0 .. n /\ g[i - 1] = f[i - 1]
      BY <1>2
    <3>2. level(0, g[0 - 1]) = level(0, f[0 - 1])
      BY DEF level
    <3>3. CASE i = n
      BY <1>3, <3>1, <3>3
    <3>4. CASE i # n
      <4>1. i \in 0 .. (n - 1) /\ g[i] = f[i]
        BY <1>2, <3>4
      <4>2. f[i] = level(i, f[i - 1])
        BY <1>6, <4>1
      <4>. QED  BY <3>1, <3>2, <4>1, <4>2
    <3>. QED  BY <3>3, <3>4
  <2> HIDE DEF level
  <2>2. g = [i \in 0 .. n |-> g[i]]
    OBVIOUS
  <2> HIDE DEF g
  <2>. QED  BY <2>1, <2>2
<1> HIDE DEF g
<1>8. LevelRun(g, d, n)
  BY <1>7 DEF LevelRun, level
<1>. QED  BY <1>2, <1>8

(* So Levels says what _resolve returns, level by level. *)
LEMMA LevelsAre ==
  ASSUME MaxResolutionDepth \in Nat, NEW d, NEW n \in 0 .. MaxResolutionDepth + 1,
         NEW place \in DOMAIN d, NEW seen \in SUBSET R!Targets(d)
  PROVE  R!Levels(d)[n][place][seen] =
           IF n = 0 THEN R!Refused ELSE R!ResolveNode(d, place, seen, R!Levels(d)[n - 1])
<1> DEFINE run == CHOOSE f : LevelRun(f, d, MaxResolutionDepth + 1)
<1>1. LevelRun(run, d, MaxResolutionDepth + 1)
  BY LevelRunExists
<1>2. R!Levels(d) = run
  BY DEF R!Levels, LevelRun
<1> HIDE DEF run
<1>3. run[n] = [p \in DOMAIN d |->
                  [s \in SUBSET R!Targets(d) |->
                     IF n = 0 THEN R!Refused ELSE R!ResolveNode(d, p, s, run[n - 1])]]
  BY <1>1 DEF LevelRun
<1>. QED  BY <1>2, <1>3

(* f is where the references of a document lead after up to n of them. *)
EndRun(f, d, n) ==
  f = [i \in 0 .. n |->
         [p \in DOMAIN d |->
            IF i = 0 \/ d[p].ref = <<>> \/ R!Broken(d, p) THEN p ELSE f[i - 1][d[p].ref]]]

(* The recursion of Ends defines a function. *)
LEMMA EndRunExists ==
  ASSUME NEW d
  PROVE  \A n \in Nat : \E f : EndRun(f, d, n)
<1> DEFINE bad == {n \in Nat : ~ \E f : EndRun(f, d, n)}
           end(i, f) == [p \in DOMAIN d |->
                           IF i = 0 \/ d[p].ref = <<>> \/ R!Broken(d, p) THEN p ELSE f[d[p].ref]]
<1> SUFFICES ASSUME bad # {} PROVE FALSE
  OBVIOUS
<1>1. PICK n \in bad : \A k \in bad : n <= k
  <2>1. bad \in SUBSET Nat
    OBVIOUS
  <2> HIDE DEF bad
  <2>. QED  BY <2>1, LeastNat
<1>2. n \in Nat /\ ~ \E f : EndRun(f, d, n)
  OBVIOUS
<1> HIDE DEF end
<1>3. n # 0
  <2>1. EndRun([i \in 0 .. 0 |-> end(0, 0)], d, 0)
    BY DEF EndRun, end
  <2>. QED  BY <1>2, <2>1
<1>4. n - 1 \in Nat /\ n - 1 \notin bad
  BY <1>1, <1>2, <1>3
<1>5. PICK f : EndRun(f, d, n - 1)
  BY <1>4
<1>6. f = [i \in 0 .. n - 1 |-> end(i, f[i - 1])]
  BY <1>5 DEF EndRun, end
<1> DEFINE g == [i \in 0 .. n |-> IF i = n THEN end(n, f[n - 1]) ELSE f[i]]
<1>7. g = [i \in 0 .. n |-> end(i, g[i - 1])]
  <2>1. ASSUME NEW i \in 0 .. n PROVE g[i] = end(i, g[i - 1])
    <3>1. i # 0 => i - 1 \in 0 .. n /\ g[i - 1] = f[i - 1]
      BY <1>2
    <3>2. end(0, g[0 - 1]) = end(0, f[0 - 1])
      BY DEF end
    <3>3. CASE i = n
      BY <1>3, <3>1, <3>3
    <3>4. CASE i # n
      <4>1. i \in 0 .. (n - 1) /\ g[i] = f[i]
        BY <1>2, <3>4
      <4>2. f[i] = end(i, f[i - 1])
        BY <1>6, <4>1
      <4>. QED  BY <3>1, <3>2, <4>1, <4>2
    <3>. QED  BY <3>3, <3>4
  <2>2. g = [i \in 0 .. n |-> g[i]]
    OBVIOUS
  <2> HIDE DEF g
  <2>. QED  BY <2>1, <2>2
<1> HIDE DEF g
<1>8. EndRun(g, d, n)
  BY <1>7 DEF EndRun, end
<1>. QED  BY <1>2, <1>8

(* So Ends follows one reference after the other. *)
LEMMA EndsAre ==
  ASSUME MaxResolutionDepth \in Nat, NEW d, NEW n \in 0 .. MaxResolutionDepth, NEW p \in DOMAIN d
  PROVE  R!Ends(d)[n][p] =
           IF n = 0 \/ d[p].ref = <<>> \/ R!Broken(d, p) THEN p ELSE R!Ends(d)[n - 1][d[p].ref]
<1> DEFINE run == CHOOSE f : EndRun(f, d, MaxResolutionDepth)
<1>1. EndRun(run, d, MaxResolutionDepth)
  BY EndRunExists
<1>2. R!Ends(d) = run
  BY DEF R!Ends, EndRun
<1> HIDE DEF run
<1>3. run[n] = [q \in DOMAIN d |->
                  IF n = 0 \/ d[q].ref = <<>> \/ R!Broken(d, q) THEN q ELSE run[n - 1][d[q].ref]]
  BY <1>1 DEF EndRun
<1>. QED  BY <1>2, <1>3

(* f is what a place is made of, after up to n steps. *)
UnfoldRun(f, d, place, n) ==
  f = [i \in 0 .. n |-> IF i = 0 THEN {place} ELSE UNION {R!Uses(d, p) : p \in f[i - 1]}]

(* The recursion of Unfolded defines a function. *)
LEMMA UnfoldRunExists ==
  ASSUME NEW d, NEW place
  PROVE  \A n \in Nat : \E f : UnfoldRun(f, d, place, n)
<1> DEFINE bad == {n \in Nat : ~ \E f : UnfoldRun(f, d, place, n)}
           onward(f) == UNION {R!Uses(d, p) : p \in f}
<1> SUFFICES ASSUME bad # {} PROVE FALSE
  OBVIOUS
<1>1. PICK n \in bad : \A k \in bad : n <= k
  <2>1. bad \in SUBSET Nat
    OBVIOUS
  <2> HIDE DEF bad
  <2>. QED  BY <2>1, LeastNat
<1>2. n \in Nat /\ ~ \E f : UnfoldRun(f, d, place, n)
  OBVIOUS
<1> HIDE DEF onward
<1>3. n # 0
  <2>1. UnfoldRun([i \in 0 .. 0 |-> {place}], d, place, 0)
    BY DEF UnfoldRun
  <2>. QED  BY <1>2, <2>1
<1>4. n - 1 \in Nat /\ n - 1 \notin bad
  BY <1>1, <1>2, <1>3
<1>5. PICK f : UnfoldRun(f, d, place, n - 1)
  BY <1>4
<1>6. f = [i \in 0 .. n - 1 |-> IF i = 0 THEN {place} ELSE onward(f[i - 1])]
  BY <1>5 DEF UnfoldRun, onward
<1> DEFINE g == [i \in 0 .. n |-> IF i = n THEN onward(f[n - 1]) ELSE f[i]]
<1>7. g = [i \in 0 .. n |-> IF i = 0 THEN {place} ELSE onward(g[i - 1])]
  <2>1. ASSUME NEW i \in 0 .. n PROVE g[i] = IF i = 0 THEN {place} ELSE onward(g[i - 1])
    <3>1. i # 0 => i - 1 \in 0 .. n /\ g[i - 1] = f[i - 1]
      BY <1>2
    <3>2. CASE i = n
      BY <1>3, <3>1, <3>2
    <3>3. CASE i # n
      <4>1. i \in 0 .. (n - 1) /\ g[i] = f[i]
        BY <1>2, <3>3
      <4>2. f[i] = IF i = 0 THEN {place} ELSE onward(f[i - 1])
        BY <1>6, <4>1
      <4>. QED  BY <3>1, <4>1, <4>2
    <3>. QED  BY <3>2, <3>3
  <2>2. g = [i \in 0 .. n |-> g[i]]
    OBVIOUS
  <2> HIDE DEF g
  <2>. QED  BY <2>1, <2>2
<1> HIDE DEF g
<1>8. UnfoldRun(g, d, place, n)
  BY <1>7 DEF UnfoldRun, onward
<1>. QED  BY <1>2, <1>8

(* So Unfolded goes one step further at a time. *)
LEMMA UnfoldedIs ==
  ASSUME MaxResolutionDepth \in Nat, NEW d, NEW place, NEW n \in 0 .. MaxResolutionDepth + 1
  PROVE  /\ n = 0 => R!Unfolded(d, place)[n] = {place}
         /\ n # 0 => \A q : q \in R!Unfolded(d, place)[n] <=>
                            \E p \in R!Unfolded(d, place)[n - 1] : q \in R!Uses(d, p)
<1> DEFINE run == CHOOSE f : UnfoldRun(f, d, place, MaxResolutionDepth + 1)
<1>1. UnfoldRun(run, d, place, MaxResolutionDepth + 1)
  BY UnfoldRunExists
<1>2. R!Unfolded(d, place) = run
  BY DEF R!Unfolded, UnfoldRun
<1> HIDE DEF run
<1>3. run[n] = IF n = 0 THEN {place} ELSE UNION {R!Uses(d, p) : p \in run[n - 1]}
  BY <1>1 DEF UnfoldRun
<1>. QED  BY <1>2, <1>3

(* What a tree of the resolver is: it has a root, and no reference. *)
RefFree(t) ==
  /\ DOMAIN t \subseteq Seq(STRING) /\ <<>> \in DOMAIN t
  /\ \A q \in DOMAIN t : t[q].ref = <<>>

(* What _resolve returns. *)
IsResult(x) == x = R!Refused \/ (x = R!Resolved(x.tree) /\ RefFree(x.tree))

(* A resolved tree is no refusal. *)
LEMMA ResolvedIsNotRefused ==
  ASSUME NEW t
  PROVE  /\ R!Resolved(t) # R!Refused /\ R!Resolved(t) # R!Pending /\ R!Pending # R!Refused
         /\ R!Resolved(t).tree = t
BY DEF R!Resolved, R!Refused, R!Pending

(* What a document contains is in it. *)
LEMMA KeysLead ==
  ASSUME NEW d, R!IsDocument(d), NEW p \in DOMAIN d, NEW k \in R!Members(d, p)
  PROVE  k \in STRING /\ Append(p, k) \in DOMAIN d
<1>1. PICK q \in DOMAIN d : q # <<>> /\ R!Front(q) = p /\ k = R!Last(q)
  BY DEF R!Members
<1>2. q \in Seq(STRING) /\ Len(q) > 0
  BY <1>1 DEF R!IsDocument
<1>3. q = Append(R!Front(q), R!Last(q)) /\ R!Last(q) \in STRING
  BY <1>2 DEF R!Front, R!Last
<1>. QED  BY <1>1, <1>3

(* Parts over a tree without references make one with the same root. *)
LEMMA OverlaysAreRefFree ==
  ASSUME NEW base, RefFree(base), NEW parts, DOMAIN parts \subseteq STRING,
         \A k \in DOMAIN parts : RefFree(parts[k])
  PROVE  RefFree(R!Overlay(base, parts)) /\ R!Overlay(base, parts)[<<>>] = base[<<>>]
<1> DEFINE kept == {r \in DOMAIN base : r = <<>> \/ Head(r) \notin DOMAIN parts}
           laid == UNION {{<<k>> \o r : r \in DOMAIN parts[k]} : k \in DOMAIN parts}
           over == R!Overlay(base, parts)
<1>1. /\ DOMAIN over = kept \cup laid
      /\ \A q \in kept \cup laid :
           over[q] = IF q # <<>> /\ Head(q) \in DOMAIN parts THEN parts[Head(q)][Tail(q)] ELSE base[q]
  BY DEF R!Overlay
<1> HIDE DEF over
<1>2. ASSUME NEW q \in laid
      PROVE  /\ q \in Seq(STRING) /\ q # <<>>
             /\ Head(q) \in DOMAIN parts /\ Tail(q) \in DOMAIN parts[Head(q)]
  <2>1. PICK k \in DOMAIN parts : \E r \in DOMAIN parts[k] : q = <<k>> \o r
    OBVIOUS
  <2>2. PICK r \in DOMAIN parts[k] : q = <<k>> \o r
    BY <2>1
  <2>3. k \in STRING /\ r \in Seq(STRING)
    BY DEF RefFree
  <2>4. q \in Seq(STRING) /\ q # <<>> /\ Head(q) = k /\ Tail(q) = r
    BY <2>2, <2>3
  <2>. QED  BY <2>4
<1>3. <<>> \in kept /\ kept \subseteq Seq(STRING)
  BY DEF RefFree
<1>4. ASSUME NEW q \in kept \cup laid PROVE over[q].ref = <<>>
  <2>1. CASE q \in laid
    <3>1. over[q] = parts[Head(q)][Tail(q)] /\ Tail(q) \in DOMAIN parts[Head(q)]
      BY <1>1, <1>2, <2>1
    <3>2. RefFree(parts[Head(q)])
      BY <1>2, <2>1
    <3>. QED  BY <3>1, <3>2 DEF RefFree
  <2>2. CASE q \in kept
    BY <1>1, <2>2 DEF RefFree
  <2>. QED  BY <2>1, <2>2
<1> HIDE DEF kept, laid
<1>5. DOMAIN over \subseteq Seq(STRING) /\ <<>> \in DOMAIN over
  BY <1>1, <1>2, <1>3
<1>6. over[<<>>] = base[<<>>]
  BY <1>1, <1>3
<1>. QED  BY <1>1, <1>4, <1>5, <1>6 DEF over, RefFree

(* What is assembled is refused exactly if a part is, and keeps its root. *)
LEMMA AssembledIs ==
  ASSUME NEW base, RefFree(base), NEW below, DOMAIN below \subseteq STRING,
         \A k \in DOMAIN below : IsResult(below[k])
  PROVE  LET x == R!Assembled(base, below)
         IN  /\ IsResult(x)
             /\ x # R!Refused <=> \A k \in DOMAIN below : below[k] # R!Refused
             /\ x # R!Refused => x.tree[<<>>] = base[<<>>]
<1> DEFINE parts == [k \in DOMAIN below |-> below[k].tree]
<1>1. CASE \E k \in DOMAIN below : below[k] = R!Refused
  <2>1. R!Assembled(base, below) = R!Refused
    BY <1>1 DEF R!Assembled
  <2>. QED  BY <1>1, <2>1 DEF IsResult
<1>2. CASE \A k \in DOMAIN below : below[k] # R!Refused
  <2>1. R!Assembled(base, below) = R!Resolved(R!Overlay(base, parts))
    BY <1>2 DEF R!Assembled
  <2>2. DOMAIN parts \subseteq STRING /\ \A k \in DOMAIN parts : RefFree(parts[k])
    BY <1>2 DEF IsResult
  <2> HIDE DEF parts
  <2>3. RefFree(R!Overlay(base, parts)) /\ R!Overlay(base, parts)[<<>>] = base[<<>>]
    BY <2>2, OverlaysAreRefFree
  <2>. QED  BY <1>2, <2>1, <2>3, ResolvedIsNotRefused DEF IsResult
<1>. QED  BY <1>1, <1>2

(* What _resolve returns with n levels left, below the targets in s. *)
At(d, n, p, s) == R!Levels(d)[n][p][s]

(* What it gets for the entries of a node, and for its target. *)
Below(d, n, p, s) == [k \in R!Members(d, p) |-> At(d, n - 1, Append(p, k), s)]
Inlined(d, n, p, s) == At(d, n - 1, d[p].ref, s \cup {d[p].ref})

(* The calls that _resolve makes: a container's entries, a reference's     *)
(* target, and what is beside it.                                          *)
LEMMA LevelsStep ==
  ASSUME MaxResolutionDepth \in Nat, NEW d, R!IsDocument(d),
         NEW n \in 1 .. MaxResolutionDepth + 1, NEW p \in DOMAIN d, NEW s \in SUBSET R!Targets(d)
  PROVE  /\ d[p].ref = <<>> =>
              At(d, n, p, s) = R!Assembled([q \in {<<>>} |-> d[p]], Below(d, n, p, s))
         /\ R!Broken(d, p) \/ (d[p].ref # <<>> /\ d[p].ref \in s) => At(d, n, p, s) = R!Refused
         /\ d[p].ref # <<>> /\ ~R!Broken(d, p) /\ d[p].ref \notin s =>
              /\ d[p].ref \in DOMAIN d /\ s \cup {d[p].ref} \in SUBSET R!Targets(d)
              /\ Inlined(d, n, p, s) = R!Refused => At(d, n, p, s) = R!Refused
              /\ Inlined(d, n, p, s) # R!Refused =>
                   At(d, n, p, s) = IF Inlined(d, n, p, s).tree[<<>>].kind = "object"
                                      THEN R!Assembled(Inlined(d, n, p, s).tree, Below(d, n, p, s))
                                      ELSE R!Resolved(Inlined(d, n, p, s).tree)
<1>1. At(d, n, p, s) = R!ResolveNode(d, p, s, R!Levels(d)[n - 1])
  BY LevelsAre DEF At
<1>2. d[p].ref \in R!Targets(d)
  BY DEF R!Targets
<1>3. R!Broken(d, p) => d[p].ref # <<>>
  BY DEF R!Broken
<1>4. d[p].ref # <<>> /\ ~R!Broken(d, p) => d[p].ref \in DOMAIN d
  BY DEF R!Broken
<1>. QED  BY <1>1, <1>2, <1>3, <1>4 DEF R!ResolveNode, R!Merged, R!Recursive, At, Below, Inlined

(* With no level left, the depth is greater than the limit. *)
LEMMA NoLevelLeft ==
  ASSUME MaxResolutionDepth \in Nat, NEW d, NEW p \in DOMAIN d, NEW s \in SUBSET R!Targets(d)
  PROVE  At(d, 0, p, s) = R!Refused
BY LevelsAre DEF At

(* A node without a reference is a tree of its own. *)
LEMMA NodesAreRefFree ==
  ASSUME NEW node, node.ref = <<>>
  PROVE  RefFree([q \in {<<>>} |-> node]) /\ [q \in {<<>>} |-> node][<<>>] = node
BY DEF RefFree

(* Whatever _resolve returns has no reference, and its root is of the kind *)
(* that the reference leads to in the end.                                 *)
LEMMA ResultsAre ==
  ASSUME MaxResolutionDepth \in Nat, NEW d, R!IsDocument(d)
  PROVE  \A n \in 0 .. MaxResolutionDepth + 1 : \A p \in DOMAIN d : \A s \in SUBSET R!Targets(d) :
           /\ IsResult(At(d, n, p, s))
           /\ At(d, n, p, s) # R!Refused =>
                \A j \in 0 .. MaxResolutionDepth :
                  n - 1 <= j => At(d, n, p, s).tree[<<>>].kind = d[R!Ends(d)[j][p]].kind
<1> DEFINE Good(n) ==
      \A p \in DOMAIN d : \A s \in SUBSET R!Targets(d) :
        /\ IsResult(At(d, n, p, s))
        /\ At(d, n, p, s) # R!Refused =>
             \A j \in 0 .. MaxResolutionDepth :
               n - 1 <= j => At(d, n, p, s).tree[<<>>].kind = d[R!Ends(d)[j][p]].kind
      bad == {n \in 0 .. MaxResolutionDepth + 1 : ~Good(n)}
<1> SUFFICES ASSUME bad # {} PROVE FALSE
  OBVIOUS
<1>1. PICK n \in bad : \A k \in bad : n <= k
  <2>1. bad \in SUBSET Nat
    OBVIOUS
  <2> HIDE DEF bad
  <2>. QED  BY <2>1, LeastNat
<1>2. n \in 0 .. MaxResolutionDepth + 1 /\ ~Good(n)
  OBVIOUS
<1>3. n # 0
  <2>1. Good(0)
    BY NoLevelLeft DEF IsResult
  <2>. QED  BY <1>2, <2>1
<1>4. n \in 1 .. MaxResolutionDepth + 1 /\ n - 1 \in 0 .. MaxResolutionDepth
  BY <1>2, <1>3
<1>5. Good(n - 1)
  <2>1. n - 1 \notin bad
    BY <1>1, <1>4
  <2>. QED  BY <1>4, <2>1
<1> HIDE DEF bad
<1>6. ASSUME NEW p \in DOMAIN d, NEW s \in SUBSET R!Targets(d)
      PROVE  /\ IsResult(At(d, n, p, s))
             /\ At(d, n, p, s) # R!Refused =>
                  \A j \in 0 .. MaxResolutionDepth :
                    n - 1 <= j => At(d, n, p, s).tree[<<>>].kind = d[R!Ends(d)[j][p]].kind
  <2> DEFINE ref == d[p].ref
             below == Below(d, n, p, s)
             inlined == Inlined(d, n, p, s)
             single == [q \in {<<>>} |-> d[p]]
  <2>1. DOMAIN below \subseteq STRING /\ \A k \in DOMAIN below : IsResult(below[k])
    BY <1>5, KeysLead DEF Below
  <2>2. /\ ref = <<>> => At(d, n, p, s) = R!Assembled(single, below)
        /\ R!Broken(d, p) \/ (ref # <<>> /\ ref \in s) => At(d, n, p, s) = R!Refused
        /\ ref # <<>> /\ ~R!Broken(d, p) /\ ref \notin s =>
             /\ ref \in DOMAIN d /\ s \cup {ref} \in SUBSET R!Targets(d)
             /\ inlined = R!Refused => At(d, n, p, s) = R!Refused
             /\ inlined # R!Refused =>
                  At(d, n, p, s) = IF inlined.tree[<<>>].kind = "object"
                                     THEN R!Assembled(inlined.tree, below)
                                     ELSE R!Resolved(inlined.tree)
    BY <1>4, LevelsStep
  <2>3. CASE ref = <<>>
    <3>1. RefFree(single) /\ single[<<>>] = d[p]
      BY <2>3, NodesAreRefFree
    <3> HIDE DEF below, single
    <3>2. /\ IsResult(At(d, n, p, s))
          /\ At(d, n, p, s) # R!Refused => At(d, n, p, s).tree[<<>>] = d[p]
      BY <2>1, <2>2, <2>3, <3>1, AssembledIs
    <3>3. \A j \in 0 .. MaxResolutionDepth : R!Ends(d)[j][p] = p
      BY <2>3, EndsAre
    <3>. QED  BY <3>2, <3>3
  <2>4. CASE R!Broken(d, p) \/ (ref # <<>> /\ ref \in s)
    BY <2>2, <2>4 DEF IsResult
  <2>5. CASE ref # <<>> /\ ~R!Broken(d, p) /\ ref \notin s
    <3>1. CASE inlined = R!Refused
      BY <2>2, <2>5, <3>1 DEF IsResult
    <3>2. CASE inlined # R!Refused
      <4>1. /\ IsResult(inlined)
            /\ \A j \in 0 .. MaxResolutionDepth :
                 n - 2 <= j => inlined.tree[<<>>].kind = d[R!Ends(d)[j][ref]].kind
        <5>1. ref \in DOMAIN d /\ s \cup {ref} \in SUBSET R!Targets(d)
          BY <2>2, <2>5
        <5>2. inlined = At(d, n - 1, ref, s \cup {ref})
          BY DEF Inlined
        <5>3. (n - 1) - 1 = n - 2
          BY <1>4
        <5> HIDE DEF inlined, ref
        <5>. QED  BY <1>5, <3>2, <5>1, <5>2, <5>3
      <4>2. n - 1 # 0
        BY <2>2, <2>5, <3>2, NoLevelLeft DEF Inlined
      <4>3. \A j \in 0 .. MaxResolutionDepth :
              n - 1 <= j => j # 0 /\ j - 1 \in 0 .. MaxResolutionDepth /\ n - 2 <= j - 1
        BY <1>4, <4>2
      <4>4. \A j \in 0 .. MaxResolutionDepth :
              n - 1 <= j => R!Ends(d)[j][p] = R!Ends(d)[j - 1][ref]
        BY <2>5, <4>3, EndsAre
      <4>5. RefFree(inlined.tree)
        BY <3>2, <4>1 DEF IsResult
      <4> HIDE DEF below, inlined, single
      <4>6. \A j \in 0 .. MaxResolutionDepth :
              n - 1 <= j => inlined.tree[<<>>].kind = d[R!Ends(d)[j][p]].kind
        BY <4>1, <4>3, <4>4
      <4>7. CASE inlined.tree[<<>>].kind = "object"
        <5>1. At(d, n, p, s) = R!Assembled(inlined.tree, below)
          BY <2>2, <2>5, <3>2, <4>7
        <5>2. /\ IsResult(At(d, n, p, s))
              /\ At(d, n, p, s) # R!Refused => At(d, n, p, s).tree[<<>>] = inlined.tree[<<>>]
          BY <2>1, <4>5, <5>1, AssembledIs
        <5>. QED  BY <4>6, <5>2
      <4>8. CASE inlined.tree[<<>>].kind # "object"
        <5>1. At(d, n, p, s) = R!Resolved(inlined.tree)
          BY <2>2, <2>5, <3>2, <4>8
        <5>. QED  BY <4>5, <4>6, <5>1, ResolvedIsNotRefused DEF IsResult
      <4>. QED  BY <4>7, <4>8
    <3>. QED  BY <3>1, <3>2
  <2>. QED  BY <2>3, <2>4, <2>5
<1>. QED  BY <1>2, <1>6

(* Where a reference leads to is what its target leads to. *)
LEMMA TargetKind ==
  ASSUME MaxResolutionDepth \in Nat, NEW d, R!IsDocument(d),
         NEW n \in 1 .. MaxResolutionDepth + 1, NEW p \in DOMAIN d, NEW s \in SUBSET R!Targets(d),
         d[p].ref # <<>>, ~R!Broken(d, p), d[p].ref \notin s, Inlined(d, n, p, s) # R!Refused
  PROVE  /\ Inlined(d, n, p, s).tree[<<>>].kind = d[R!Ends(d)[MaxResolutionDepth][p]].kind
         /\ IsResult(Inlined(d, n, p, s)) /\ RefFree(Inlined(d, n, p, s).tree)
<1> DEFINE ref == d[p].ref
           M == MaxResolutionDepth
<1>1. ref \in DOMAIN d /\ s \cup {ref} \in SUBSET R!Targets(d)
  BY LevelsStep
<1>2. Inlined(d, n, p, s) = At(d, n - 1, ref, s \cup {ref})
  BY DEF Inlined
<1>3. n - 1 # 0
  BY <1>1, <1>2, NoLevelLeft
<1>4. /\ n - 1 \in 0 .. M + 1 /\ M # 0 /\ M \in 0 .. M
      /\ M - 1 \in 0 .. M /\ (n - 1) - 1 <= M - 1
  BY <1>3
<1>5. R!Ends(d)[M][p] = R!Ends(d)[M - 1][ref]
  BY <1>4, EndsAre
<1> HIDE DEF ref
<1>6. /\ IsResult(At(d, n - 1, ref, s \cup {ref}))
      /\ At(d, n - 1, ref, s \cup {ref}).tree[<<>>].kind = d[R!Ends(d)[M - 1][ref]].kind
  BY <1>1, <1>2, <1>4, ResultsAre
<1>7. RefFree(Inlined(d, n, p, s).tree)
  BY <1>2, <1>6 DEF IsResult
<1>. QED  BY <1>2, <1>5, <1>6, <1>7

(* What a place is made of is in the document. *)
LEMMA UsesAre ==
  ASSUME NEW d, R!IsDocument(d), NEW p \in DOMAIN d
  PROVE  /\ R!Uses(d, p) \subseteq DOMAIN d
         /\ d[p].ref # <<>> /\ ~R!Broken(d, p) => d[p].ref \in R!Uses(d, p)
         /\ \A k \in R!Members(d, p) :
              d[p].ref = <<>> \/ d[R!Ends(d)[MaxResolutionDepth][p]].kind = "object" =>
                Append(p, k) \in R!Uses(d, p)
         /\ \A q \in R!Uses(d, p) :
              \/ d[p].ref # <<>> /\ q = d[p].ref
              \/ /\ d[p].ref = <<>> \/ d[R!Ends(d)[MaxResolutionDepth][p]].kind = "object"
                 /\ \E k \in R!Members(d, p) : q = Append(p, k)
<1>1. \A k \in R!Members(d, p) : Append(p, k) \in DOMAIN d
  BY KeysLead
<1>2. d[p].ref # <<>> /\ ~R!Broken(d, p) => d[p].ref \in DOMAIN d
  BY DEF R!Broken
<1>. QED  BY <1>1, <1>2 DEF R!Uses

(* What the entries of a node give is a result each. *)
LEMMA BelowAre ==
  ASSUME MaxResolutionDepth \in Nat, NEW d, R!IsDocument(d),
         NEW n \in 1 .. MaxResolutionDepth + 1, NEW p \in DOMAIN d, NEW s \in SUBSET R!Targets(d)
  PROVE  /\ DOMAIN Below(d, n, p, s) = R!Members(d, p) /\ R!Members(d, p) \subseteq STRING
         /\ \A k \in R!Members(d, p) :
              /\ IsResult(Below(d, n, p, s)[k])
              /\ Below(d, n, p, s)[k] = At(d, n - 1, Append(p, k), s)
<1>1. n - 1 \in 0 .. MaxResolutionDepth + 1
  OBVIOUS
<1>2. \A k \in R!Members(d, p) : k \in STRING /\ Append(p, k) \in DOMAIN d
  BY KeysLead
<1>3. \A k \in R!Members(d, p) : IsResult(At(d, n - 1, Append(p, k), s))
  BY <1>1, <1>2, ResultsAre
<1>. QED  BY <1>2, <1>3 DEF Below

(* A place is refused exactly if its reference is broken or recursive, or  *)
(* something that it is made of is refused.                                *)
LEMMA RefusedFor ==
  ASSUME MaxResolutionDepth \in Nat, NEW d, R!IsDocument(d),
         NEW n \in 1 .. MaxResolutionDepth + 1, NEW p \in DOMAIN d, NEW s \in SUBSET R!Targets(d)
  PROVE  At(d, n, p, s) # R!Refused <=>
           /\ ~R!Broken(d, p)
           /\ d[p].ref # <<>> =>
                d[p].ref \notin s /\ At(d, n - 1, d[p].ref, s \cup {d[p].ref}) # R!Refused
           /\ \A k \in R!Members(d, p) :
                d[p].ref = <<>> \/ d[R!Ends(d)[MaxResolutionDepth][p]].kind = "object" =>
                  At(d, n - 1, Append(p, k), s) # R!Refused
<1> DEFINE ref == d[p].ref
           below == Below(d, n, p, s)
           inlined == Inlined(d, n, p, s)
           single == [q \in {<<>>} |-> d[p]]
<1>1. /\ DOMAIN below = R!Members(d, p) /\ DOMAIN below \subseteq STRING
      /\ \A k \in DOMAIN below : IsResult(below[k]) /\ below[k] = At(d, n - 1, Append(p, k), s)
  BY BelowAre
<1>2. /\ ref = <<>> => At(d, n, p, s) = R!Assembled(single, below)
      /\ R!Broken(d, p) \/ (ref # <<>> /\ ref \in s) => At(d, n, p, s) = R!Refused
      /\ ref # <<>> /\ ~R!Broken(d, p) /\ ref \notin s =>
           /\ inlined = R!Refused => At(d, n, p, s) = R!Refused
           /\ inlined # R!Refused =>
                At(d, n, p, s) = IF inlined.tree[<<>>].kind = "object"
                                   THEN R!Assembled(inlined.tree, below)
                                   ELSE R!Resolved(inlined.tree)
  BY LevelsStep
<1>3. CASE ref = <<>>
  <2>1. RefFree(single) /\ ~R!Broken(d, p)
    BY <1>3, NodesAreRefFree DEF R!Broken
  <2> HIDE DEF below, single
  <2>2. At(d, n, p, s) # R!Refused <=> \A k \in DOMAIN below : below[k] # R!Refused
    BY <1>1, <1>2, <1>3, <2>1, AssembledIs
  <2>. QED  BY <1>1, <1>3, <2>1, <2>2
<1>4. CASE R!Broken(d, p) \/ (ref # <<>> /\ ref \in s)
  BY <1>2, <1>4
<1>5. CASE ref # <<>> /\ ~R!Broken(d, p) /\ ref \notin s
  <2>1. inlined = At(d, n - 1, ref, s \cup {ref})
    BY DEF Inlined
  <2>2. CASE inlined = R!Refused
    BY <1>2, <1>5, <2>1, <2>2
  <2>3. CASE inlined # R!Refused
    <3>1. /\ inlined.tree[<<>>].kind = d[R!Ends(d)[MaxResolutionDepth][p]].kind
          /\ RefFree(inlined.tree)
      BY <1>5, <2>3, TargetKind
    <3> HIDE DEF below, inlined
    <3>2. CASE inlined.tree[<<>>].kind = "object"
      <4>1. At(d, n, p, s) # R!Refused <=> \A k \in DOMAIN below : below[k] # R!Refused
        BY <1>1, <1>2, <1>5, <2>3, <3>1, <3>2, AssembledIs
      <4>. QED  BY <1>1, <1>5, <2>1, <2>3, <3>1, <3>2, <4>1
    <3>3. CASE inlined.tree[<<>>].kind # "object"
      <4>1. At(d, n, p, s) # R!Refused
        BY <1>2, <1>5, <2>3, <3>3, ResolvedIsNotRefused
      <4>. QED  BY <1>5, <2>1, <2>3, <3>1, <3>3, <4>1
    <3>. QED  BY <3>2, <3>3
  <2>. QED  BY <2>2, <2>3
<1>. QED  BY <1>3, <1>4, <1>5

(* What a place is made of stays in the document, step by step. *)
LEMMA UnfoldedIn ==
  ASSUME MaxResolutionDepth \in Nat, NEW d, R!IsDocument(d), NEW place \in DOMAIN d
  PROVE  \A n \in 0 .. MaxResolutionDepth + 1 : R!Unfolded(d, place)[n] \subseteq DOMAIN d
<1> DEFINE bad == {n \in 0 .. MaxResolutionDepth + 1 : ~(R!Unfolded(d, place)[n] \subseteq DOMAIN d)}
<1> SUFFICES ASSUME bad # {} PROVE FALSE
  OBVIOUS
<1>1. PICK n \in bad : \A k \in bad : n <= k
  <2>1. bad \in SUBSET Nat
    OBVIOUS
  <2> HIDE DEF bad
  <2>. QED  BY <2>1, LeastNat
<1>2. n # 0
  <2>1. 0 \in 0 .. MaxResolutionDepth + 1
    OBVIOUS
  <2>2. R!Unfolded(d, place)[0] = {place}
    BY <2>1, UnfoldedIs
  <2>. QED  BY <2>2
<1>3. n - 1 \in 0 .. MaxResolutionDepth + 1 /\ R!Unfolded(d, place)[n - 1] \subseteq DOMAIN d
  BY <1>1, <1>2
<1>4. \A q \in R!Unfolded(d, place)[n] :
        \E p \in R!Unfolded(d, place)[n - 1] : q \in R!Uses(d, p)
  <2>1. n \in 0 .. MaxResolutionDepth + 1
    OBVIOUS
  <2> HIDE DEF bad
  <2>. QED  BY <1>2, <2>1, UnfoldedIs
<1>5. \A p \in R!Unfolded(d, place)[n - 1] : R!Uses(d, p) \subseteq DOMAIN d
  BY <1>3, UsesAre
<1>. QED  BY <1>4, <1>5

(* Every target in s leads to p, in what the place is made of. *)
LeadsTo(d, place, s, p) ==
  \A r \in s : \E m \in Nat : \A i \in 0 .. MaxResolutionDepth + 1 :
    r \in R!Unfolded(d, place)[i] =>
      i + m \in 0 .. MaxResolutionDepth /\ p \in R!Unfolded(d, place)[i + m]

(* What ends within the limit and has no broken reference is resolved: a   *)
(* target that is met again below itself would have no end.                *)
LEMMA ResolvableIsResolved ==
  ASSUME MaxResolutionDepth \in Nat, NEW d, R!IsDocument(d), NEW place \in DOMAIN d,
         R!Resolvable(d, place)
  PROVE  R!Resolve(d, place) # R!Refused
<1> DEFINE M == MaxResolutionDepth
           U(i) == R!Unfolded(d, place)[i]
           Holds(k) == \A p \in U(M + 1 - k) : \A s \in SUBSET R!Targets(d) :
                         LeadsTo(d, place, s, p) => At(d, k, p, s) # R!Refused
           bad == {k \in 0 .. M + 1 : ~Holds(k)}
<1>1. U(M + 1) = {} /\ \A i \in 0 .. M : \A p \in U(i) : ~R!Broken(d, p)
  BY DEF R!Resolvable
<1>2. /\ U(0) = {place}
      /\ \A i \in 0 .. M : \A p \in U(i) : \A q \in R!Uses(d, p) : q \in U(i + 1)
  <2>1. 0 \in 0 .. M + 1
    OBVIOUS
  <2>2. U(0) = {place}
    BY <2>1, UnfoldedIs
  <2>3. ASSUME NEW i \in 0 .. M PROVE \A p \in U(i) : \A q \in R!Uses(d, p) : q \in U(i + 1)
    <3>1. i + 1 \in 0 .. M + 1 /\ i + 1 # 0 /\ (i + 1) - 1 = i
      OBVIOUS
    <3>. QED  BY <3>1, UnfoldedIs
  <2>. QED  BY <2>2, <2>3
<1>3. \A i \in 0 .. M + 1 : U(i) \subseteq DOMAIN d
  BY UnfoldedIn
<1>4. ASSUME NEW i \in 0 .. M, NEW p \in U(i), NEW q \in R!Uses(d, p)
      PROVE  i + 1 \in 0 .. M /\ q \in U(i + 1)
  <2>1. q \in U(i + 1)
    BY <1>2
  <2>2. i # M
    BY <1>1, <2>1
  <2>. QED  BY <2>1, <2>2
<1>5. bad = {}
  <2> SUFFICES ASSUME bad # {} PROVE FALSE
    OBVIOUS
  <2>1. PICK k \in bad : \A j \in bad : k <= j
    <3>1. bad \in SUBSET Nat
      OBVIOUS
    <3> HIDE DEF bad
    <3>. QED  BY <3>1, LeastNat
  <2>2. k \in 0 .. M + 1 /\ ~Holds(k)
    OBVIOUS
  <2>3. k # 0
    <3>1. M + 1 - 0 = M + 1
      OBVIOUS
    <3>2. Holds(0)
      BY <1>1, <3>1
    <3>. QED  BY <2>2, <3>2
  <2>4. k \in 1 .. M + 1 /\ k - 1 \in 0 .. M + 1
    BY <2>2, <2>3
  <2>5. Holds(k - 1)
    BY <2>1, <2>4
  <2>6. PICK p \in U(M + 1 - k), s \in SUBSET R!Targets(d) :
          LeadsTo(d, place, s, p) /\ At(d, k, p, s) = R!Refused
    BY <2>2
  <2> DEFINE i == M + 1 - k
             ref == d[p].ref
  <2>7. i \in 0 .. M /\ M + 1 - (k - 1) = i + 1 /\ i \in 0 .. M + 1
    BY <2>4
  <2> HIDE DEF bad, i
  <2>8. p \in U(i)
    BY <2>6 DEF i
  <2>9. p \in DOMAIN d /\ ~R!Broken(d, p)
    BY <1>1, <1>3, <2>7, <2>8
  <2>10. ASSUME NEW q \in R!Uses(d, p), NEW t \in SUBSET R!Targets(d),
                t = s \/ (q = ref /\ t = s \cup {ref})
         PROVE  At(d, k - 1, q, t) # R!Refused
    <3>1. q \in U(i + 1)
      BY <1>4, <2>7, <2>8
    <3>2. LeadsTo(d, place, t, q)
      <4> SUFFICES ASSUME NEW r \in t
                   PROVE  \E m \in Nat : \A j \in 0 .. M + 1 :
                            r \in U(j) => j + m \in 0 .. M /\ q \in U(j + m)
        BY DEF LeadsTo
      <4>1. CASE r \in s
        <5>1. PICK m \in Nat : \A j \in 0 .. M + 1 : r \in U(j) => j + m \in 0 .. M /\ p \in U(j + m)
          BY <2>6, <4>1 DEF LeadsTo
        <5>2. ASSUME NEW j \in 0 .. M + 1, r \in U(j)
              PROVE  j + (m + 1) \in 0 .. M /\ q \in U(j + (m + 1))
          <6>1. j + m \in 0 .. M /\ p \in U(j + m)
            BY <5>1, <5>2
          <6>2. (j + m) + 1 \in 0 .. M /\ q \in U((j + m) + 1)
            BY <1>4, <6>1
          <6>3. (j + m) + 1 = j + (m + 1)
            OBVIOUS
          <6>. QED  BY <6>2, <6>3
        <5>3. m + 1 \in Nat
          OBVIOUS
        <5>. QED  BY <5>2, <5>3
      <4>2. CASE r \notin s
        <5>1. r = q
          BY <2>10, <4>2
        <5>2. ASSUME NEW j \in 0 .. M + 1, r \in U(j)
              PROVE  j + 0 \in 0 .. M /\ q \in U(j + 0)
          <6>1. j # M + 1
            BY <1>1, <5>2
          <6>2. j + 0 = j /\ j \in 0 .. M
            BY <6>1
          <6>. QED  BY <5>1, <5>2, <6>2
        <5>. QED  BY <5>2
      <4>. QED  BY <4>1, <4>2
    <3>. QED  BY <2>5, <2>7, <3>1, <3>2
  <2>11. ref # <<>> => ref \notin s
    <3> SUFFICES ASSUME ref # <<>>, ref \in s PROVE FALSE
      OBVIOUS
    <3>1. ref \in R!Uses(d, p)
      BY <2>9, UsesAre
    <3>2. PICK m \in Nat : \A j \in 0 .. M + 1 : ref \in U(j) => j + m \in 0 .. M /\ p \in U(j + m)
      BY <2>6 DEF LeadsTo
    <3> DEFINE left == {l \in 0 .. M : ref \in U(M - l)}
    <3>3. ASSUME NEW j \in 0 .. M, ref \in U(j) PROVE M - j \in left
      <4>1. M - (M - j) = j /\ M - j \in 0 .. M
        OBVIOUS
      <4>. QED  BY <3>3, <4>1
    <3>4. left # {}
      BY <1>4, <2>7, <2>8, <3>1, <3>3
    <3>5. PICK l \in left : \A j \in left : l <= j
      <4>1. left \in SUBSET Nat
        OBVIOUS
      <4> HIDE DEF left
      <4>. QED  BY <3>4, <4>1, LeastNat
    <3>6. M - l \in 0 .. M + 1 /\ ref \in U(M - l) /\ l \in 0 .. M
      OBVIOUS
    <3>7. (M - l) + m \in 0 .. M /\ p \in U((M - l) + m)
      BY <3>2, <3>6
    <3>8. ((M - l) + m) + 1 \in 0 .. M /\ ref \in U(((M - l) + m) + 1)
      BY <1>4, <3>1, <3>7
    <3>9. M - (((M - l) + m) + 1) \in left
      BY <3>3, <3>8
    <3>10. M - (((M - l) + m) + 1) < l
      BY <3>6
    <3> HIDE DEF left
    <3>. QED  BY <3>5, <3>6, <3>9, <3>10
  <2>12. ref # <<>> => At(d, k - 1, ref, s \cup {ref}) # R!Refused
    <3>1. ref \in R!Targets(d)
      BY <2>9 DEF R!Targets
    <3>. QED  BY <2>9, <2>10, <3>1, UsesAre
  <2>13. ASSUME NEW key \in R!Members(d, p), ref = <<>> \/ d[R!Ends(d)[M][p]].kind = "object"
         PROVE  At(d, k - 1, Append(p, key), s) # R!Refused
    <3>1. Append(p, key) \in R!Uses(d, p)
      BY <2>9, <2>13, UsesAre
    <3>. QED  BY <2>10, <3>1
  <2>14. At(d, k, p, s) # R!Refused
    BY <2>4, <2>9, <2>11, <2>12, <2>13, RefusedFor
  <2>. QED  BY <2>6, <2>14
<1>6. Holds(M + 1)
  <2>1. M + 1 \in 0 .. M + 1
    OBVIOUS
  <2>. QED  BY <1>5, <2>1
<1>7. At(d, M + 1, place, {}) # R!Refused
  <2>1. M + 1 - (M + 1) = 0
    OBVIOUS
  <2>2. LeadsTo(d, place, {}, place)
    BY DEF LeadsTo
  <2>3. {} \in SUBSET R!Targets(d)
    OBVIOUS
  <2>. QED  BY <1>2, <1>6, <2>1, <2>2, <2>3
<1>. QED  BY <1>7 DEF R!Resolve, At

(* What is resolved ends within the limit and has no broken reference. *)
LEMMA ResolvedIsResolvable ==
  ASSUME MaxResolutionDepth \in Nat, NEW d, R!IsDocument(d), NEW place \in DOMAIN d,
         R!Resolve(d, place) # R!Refused
  PROVE  R!Resolvable(d, place)
<1> DEFINE M == MaxResolutionDepth
           U(i) == R!Unfolded(d, place)[i]
           Holds(i) == \A p \in U(i) : \E s \in SUBSET R!Targets(d) :
                         At(d, M + 1 - i, p, s) # R!Refused
           bad == {i \in 0 .. M + 1 : ~Holds(i)}
<1>1. \A i \in 0 .. M + 1 : U(i) \subseteq DOMAIN d
  BY UnfoldedIn
<1>2. ASSUME NEW i \in 0 .. M, NEW p \in U(i), NEW s \in SUBSET R!Targets(d),
             At(d, M + 1 - i, p, s) # R!Refused
      PROVE  /\ ~R!Broken(d, p)
             /\ \A q \in R!Uses(d, p) : \E t \in SUBSET R!Targets(d) :
                  At(d, M + 1 - (i + 1), q, t) # R!Refused
  <2> DEFINE n == M + 1 - i
             ref == d[p].ref
  <2>1. n \in 1 .. M + 1 /\ n - 1 = M + 1 - (i + 1) /\ i \in 0 .. M + 1
    OBVIOUS
  <2>2. p \in DOMAIN d
    BY <1>1, <2>1
  <2>3. At(d, n, p, s) # R!Refused
    BY <1>2
  <2> HIDE DEF n
  <2>4. /\ ~R!Broken(d, p)
        /\ ref # <<>> => At(d, n - 1, ref, s \cup {ref}) # R!Refused
        /\ \A k \in R!Members(d, p) :
             ref = <<>> \/ d[R!Ends(d)[M][p]].kind = "object" =>
               At(d, n - 1, Append(p, k), s) # R!Refused
    BY <2>1, <2>2, <2>3, RefusedFor
  <2>5. s \cup {ref} \in SUBSET R!Targets(d)
    BY <2>2 DEF R!Targets
  <2>6. ASSUME NEW q \in R!Uses(d, p)
        PROVE  \E t \in SUBSET R!Targets(d) : At(d, n - 1, q, t) # R!Refused
    <3>1. CASE ref # <<>> /\ q = ref
      BY <2>4, <2>5, <3>1
    <3>2. CASE ~(ref # <<>> /\ q = ref)
      <4>1. PICK k \in R!Members(d, p) :
              q = Append(p, k) /\ (ref = <<>> \/ d[R!Ends(d)[M][p]].kind = "object")
        BY <2>2, <2>4, <3>2, UsesAre
      <4>. QED  BY <2>4, <4>1
    <3>. QED  BY <3>1, <3>2
  <2>. QED  BY <2>1, <2>4, <2>6
<1>3. bad = {}
  <2> SUFFICES ASSUME bad # {} PROVE FALSE
    OBVIOUS
  <2>1. PICK i \in bad : \A j \in bad : i <= j
    <3>1. bad \in SUBSET Nat
      OBVIOUS
    <3> HIDE DEF bad
    <3>. QED  BY <3>1, LeastNat
  <2>2. i \in 0 .. M + 1 /\ ~Holds(i)
    OBVIOUS
  <2>3. i # 0
    <3>1. 0 \in 0 .. M + 1 /\ M + 1 - 0 = M + 1
      OBVIOUS
    <3>2. U(0) = {place}
      BY <3>1, UnfoldedIs
    <3>3. At(d, M + 1, place, {}) # R!Refused
      BY DEF R!Resolve, At
    <3>4. Holds(0)
      BY <3>1, <3>2, <3>3
    <3>. QED  BY <2>2, <3>4
  <2>4. i - 1 \in 0 .. M /\ (i - 1) + 1 = i
    BY <2>2, <2>3
  <2>5. Holds(i - 1)
    BY <2>1, <2>4
  <2> HIDE DEF bad
  <2>6. \A q \in U(i) : \E p \in U(i - 1) : q \in R!Uses(d, p)
    BY <2>2, <2>3, UnfoldedIs
  <2>7. ASSUME NEW q \in U(i)
        PROVE  \E t \in SUBSET R!Targets(d) : At(d, M + 1 - i, q, t) # R!Refused
    <3>1. PICK p \in U(i - 1) : q \in R!Uses(d, p)
      BY <2>6
    <3>2. PICK s \in SUBSET R!Targets(d) : At(d, M + 1 - (i - 1), p, s) # R!Refused
      BY <2>5
    <3>3. \E t \in SUBSET R!Targets(d) : At(d, M + 1 - ((i - 1) + 1), q, t) # R!Refused
      BY <1>2, <2>4, <3>1, <3>2
    <3>. QED  BY <2>4, <3>3
  <2>. QED  BY <2>2, <2>7
<1>4. \A i \in 0 .. M + 1 : Holds(i)
  BY <1>3
<1>5. U(M + 1) = {}
  <2>1. M + 1 \in 0 .. M + 1 /\ M + 1 - (M + 1) = 0
    OBVIOUS
  <2>2. \A p \in U(M + 1) : \E s \in SUBSET R!Targets(d) : At(d, 0, p, s) # R!Refused
    BY <1>4, <2>1
  <2>3. U(M + 1) \subseteq DOMAIN d
    BY <1>1, <2>1
  <2>. QED  BY <2>2, <2>3, NoLevelLeft
<1>6. \A i \in 0 .. M : \A p \in U(i) : ~R!Broken(d, p)
  <2>1. \A i \in 0 .. M : i \in 0 .. M + 1
    OBVIOUS
  <2>. QED  BY <1>2, <1>4, <2>1
<1>. QED  BY <1>5, <1>6 DEF R!Resolvable

(* What holds of every state of the resolver. *)
ReferencesInv ==
  /\ input \in Inputs
  /\ resolved \in {R!Pending, R!Resolve(input[1], input[2])}

(* The resolver leaves no reference, and refuses for cause. *)
LEMMA ReferencesKeep ==
  ASSUME R!ReferencesAssumption
  PROVE  R!Spec => [](R!NoReferenceLeft /\ R!UnresolvedForCause)
<1>1. R!Init => ReferencesInv
  BY DEF R!Init, ReferencesInv
<1>2. ReferencesInv /\ [R!Next]_(R!vars) => ReferencesInv'
  BY DEF ReferencesInv, R!Next, R!ResolveInput, R!vars
<1>3. ReferencesInv => R!NoReferenceLeft /\ R!UnresolvedForCause
  <2> SUFFICES ASSUME ReferencesInv PROVE R!NoReferenceLeft /\ R!UnresolvedForCause
    OBVIOUS
  <2> DEFINE d == input[1]
             place == input[2]
  <2>1. MaxResolutionDepth \in Nat /\ R!IsDocument(d) /\ place \in DOMAIN d
    BY DEF ReferencesInv, R!ReferencesAssumption
  <2>2. /\ MaxResolutionDepth + 1 \in 0 .. MaxResolutionDepth + 1
        /\ {} \in SUBSET R!Targets(d)
    BY <2>1
  <2> HIDE DEF d, place
  <2>3. IsResult(R!Resolve(d, place))
    <3>1. IsResult(At(d, MaxResolutionDepth + 1, place, {}))
      BY <2>1, <2>2, ResultsAre
    <3>. QED  BY <3>1 DEF R!Resolve, At
  <2>4. R!Resolve(d, place) # R!Refused <=> R!Resolvable(d, place)
    BY <2>1, ResolvableIsResolved, ResolvedIsResolvable
  <2>5. R!Resolve(d, place) # R!Pending
    BY <2>3, ResolvedIsNotRefused DEF IsResult
  <2>6. resolved = R!Pending \/ resolved = R!Resolve(d, place)
    BY DEF ReferencesInv, d, place
  <2>7. R!NoReferenceLeft
    <3>1. R!Done => resolved = R!Resolve(d, place) /\ resolved # R!Refused
      BY <2>6 DEF R!Done
    <3>. QED  BY <2>3, <3>1 DEF R!NoReferenceLeft, IsResult, RefFree
  <2>8. R!UnresolvedForCause
    BY <2>4, <2>5, <2>6 DEF R!UnresolvedForCause, R!Done, d, place
  <2>. QED  BY <2>7, <2>8
<1>. QED  BY <1>1, <1>2, <1>3, PTL DEF R!Spec

-----------------------------------------------------------------------------
(* Analysis. *)

(* What results and diagnostics are made of. *)
ResultCodes ==
  {"invalid_operation", "tool_name_collision", "description_generated", "operation_deprecated"}
    \cup {i.ops[m].outcome : i \in O!Items, m \in O!ToSet(MethodOrder)}

ResultNames == {i.ops[m].name : i \in O!Items, m \in O!ToSet(MethodOrder)}

Results ==
  [path : Nat, method : O!ToSet(MethodOrder), tool : BOOLEAN, codes : SUBSET ResultCodes,
   name : ResultNames]

BaseUrlCodes == {"invalid_base_url", "base_url_missing", "server_variables_unsupported"}

LoopCodes ==
  {"invalid_path", "invalid_path_item", "unresolved", "operation_limit_exceeded",
   "unsupported_method", "no_convertible_operations"}

Diagnostics == [code : BaseUrlCodes \cup LoopCodes, path : Nat]

(* What convert_operation makes a tool of. *)
Converts(item, m) ==
  item.ops[MethodOrder[m]].shape = "object" /\ item.ops[MethodOrder[m]].outcome = "tool"

(* The loops have passed the mth method of an item. *)
Passed(item, m) ==
  \/ item \in O!Items \ pending
  \/ pending # {} /\ item = O!Item /\ m < next

AnalysisTypes ==
  /\ document \in Documents
  /\ pending \subseteq O!Items
  /\ next \in 1 .. Len(MethodOrder) + 1
  /\ operations \in Seq(Results)
  /\ diagnostics \in Seq(Diagnostics)
  /\ status \in {"start", "running", "done", "failed", "crashed"}

(* Where the loops are: what is left lies behind what is done, and the     *)
(* loop over the methods is within an item that resolves to an object.     *)
(* Where they were left at once there is a reason.                         *)
PlaceHolds ==
  /\ \A item \in O!Items \ pending, other \in pending : item.path < other.path
  /\ next > 1 =>
       pending # {} /\ O!Item.kind = "item" /\ O!Resolves(O!Item) /\ O!Item.root = "object"
  /\ status = "start" => pending = {} /\ next = 1 /\ operations = <<>>
  /\ status = "done" => pending = {}
  /\ status = "crashed" => O!Fatal

(* The ith result: it is of a method that the loops have passed, and       *)
(* convertible without a tool only if its name was claimed.                *)
ResultHolds(i) ==
  \E item \in O!Items, m \in DOMAIN MethodOrder :
    /\ item.kind = "item" /\ O!Resolves(item) /\ Passed(item, m)
    /\ operations[i].path = item.path /\ operations[i].method = MethodOrder[m]
    /\ Converts(item, m) /\ ~operations[i].tool =>
         \E j \in 1 .. i - 1 : operations[j].tool /\ operations[j].name = operations[i].name

(* Results are in the order of the loops, and only the first tool of a     *)
(* name is one.                                                            *)
OrderHolds ==
  \A i \in DOMAIN operations : \A j \in 1 .. i - 1 :
    /\ O!Before(operations[j], operations[i])
    /\ operations[i].tool /\ operations[j].tool => operations[i].name # operations[j].name

(* The mth method of an item is accounted for. *)
Accounted(item, m) ==
  IF O!Resolves(item)
  THEN /\ item.root = "object"
       /\ \/ item.ops[MethodOrder[m]].shape = "absent"
          \/ \E r \in O!ResultOf(item, MethodOrder[m]) : r.tool \/ r.codes # {}
          \/ /\ Len(operations) >= MaxOperations
             /\ O!Diagnostic("operation_limit_exceeded", item.path) \in O!ToSet(diagnostics)
  ELSE \E d \in O!ToSet(diagnostics) : d.code = "unresolved" /\ d.path \in {0, item.path}

PassedAccounted ==
  status \in {"running", "done"} =>
    \A item \in O!Items, m \in DOMAIN MethodOrder :
      item.kind = "item" /\ Passed(item, m) => Accounted(item, m)

(* The inductive invariant of the analysis. *)
AnalysisInv ==
  /\ AnalysisTypes
  /\ PlaceHolds
  /\ \A i \in DOMAIN operations : ResultHolds(i)
  /\ OrderHolds
  /\ PassedAccounted
  /\ O!BaseUrlExplained

(* What a sequence holds once an element is added. *)
LEMMA ToSetAppend ==
  ASSUME NEW S, NEW s \in Seq(S), NEW e \in S
  PROVE  O!ToSet(Append(s, e)) = O!ToSet(s) \cup {e}
<1>1. /\ Append(s, e) \in Seq(S) /\ DOMAIN s = 1 .. Len(s) /\ Len(s) \in Nat
      /\ DOMAIN Append(s, e) = 1 .. Len(s) + 1
  OBVIOUS
<1>2. Append(s, e)[Len(s) + 1] = e /\ \A i \in 1 .. Len(s) : Append(s, e)[i] = s[i]
  OBVIOUS
<1>3. ASSUME NEW x \in O!ToSet(Append(s, e))
      PROVE  x \in O!ToSet(s) \cup {e}
  <2>1. PICK i \in 1 .. Len(s) + 1 : x = Append(s, e)[i]
    BY <1>1 DEF O!ToSet
  <2>2. i = Len(s) + 1 \/ i \in 1 .. Len(s)
    BY <1>1
  <2>. QED  BY <1>1, <1>2, <2>1, <2>2, Zenon DEF O!ToSet
<1>4. ASSUME NEW x \in O!ToSet(s) \cup {e}
      PROVE  x \in O!ToSet(Append(s, e))
  <2>1. CASE x = e
    <3>1. Len(s) + 1 \in DOMAIN Append(s, e)
      BY <1>1
    <3>. QED  BY <1>2, <2>1, <3>1, Zenon DEF O!ToSet
  <2>2. CASE x \in O!ToSet(s)
    <3>1. PICK i \in 1 .. Len(s) : x = s[i]
      BY <1>1, <2>2, Zenon DEF O!ToSet
    <3>2. i \in DOMAIN Append(s, e)
      BY <1>1
    <3>. QED  BY <1>2, <3>1, <3>2, Zenon DEF O!ToSet
  <2>. QED  BY <2>1, <2>2
<1>. QED  BY <1>3, <1>4

(* The items of a document. *)
LEMMA ItemsOfDocument ==
  ASSUME O!AnalysisAssumption, document \in Documents
  PROVE  /\ \A item \in O!Items : O!PathItem(item)
         /\ \A item, other \in O!Items : item.path = other.path => item = other
<1>1. O!Document(document)
  BY DEF O!AnalysisAssumption
<1>. QED  BY <1>1, Zenon DEF O!Document, O!Items, O!ToSet

(* The loop is at the first path that is left. *)
LEMMA ItemIsFirst ==
  ASSUME O!AnalysisAssumption, AnalysisTypes, pending # {}
  PROVE  /\ O!Item \in pending /\ O!Item \in O!Items
         /\ \A other \in pending : O!Item.path <= other.path
<1> DEFINE paths == {i.path : i \in pending}
<1>1. \A i \in pending : i.path \in Nat
  BY ItemsOfDocument DEF AnalysisTypes, O!PathItem
<1>2. paths \in SUBSET Nat /\ paths # {}
  BY <1>1
<1>3. PICK least \in paths : \A k \in paths : least <= k
  <2> HIDE DEF paths
  <2>. QED  BY <1>2, LeastNat
<1>4. \E i \in pending : \A j \in pending : i.path <= j.path
  BY <1>3
<1>. QED  BY <1>4, Zenon DEF O!Item, AnalysisTypes

(* The place of a method among the methods. *)
LEMMA PlaceOfMethod ==
  ASSUME O!AnalysisAssumption, NEW m \in DOMAIN MethodOrder
  PROVE  O!Place(MethodOrder[m]) = m
BY Zenon DEF O!AnalysisAssumption, O!Place

(* Types of what surrounds the loops. *)
LEMMA MethodFacts ==
  ASSUME O!AnalysisAssumption
  PROVE  /\ DOMAIN MethodOrder = 1 .. Len(MethodOrder) /\ Len(MethodOrder) \in Nat
         /\ \A m \in DOMAIN MethodOrder :
              MethodOrder[m] \in O!ToSet(MethodOrder)
<1>1. MethodOrder \in Seq(STRING)
  BY DEF O!AnalysisAssumption
<1>2. DOMAIN MethodOrder = 1 .. Len(MethodOrder) /\ Len(MethodOrder) \in Nat
  BY <1>1
<1>. QED  BY <1>2, Zenon DEF O!ToSet

(* What is accounted for stays so. *)
LEMMA AccountedStays ==
  ASSUME NEW item, NEW m, Accounted(item, m),
         O!ToSet(operations) \subseteq O!ToSet(operations'),
         Len(operations) >= MaxOperations => Len(operations') >= MaxOperations,
         O!ToSet(diagnostics) \subseteq O!ToSet(diagnostics')
  PROVE  Accounted(item, m)'
<1>1. O!ResultOf(item, MethodOrder[m]) \subseteq O!ResultOf(item, MethodOrder[m])'
  BY Zenon DEF O!ResultOf
<1>2. O!Diagnostic("operation_limit_exceeded", item.path)' = O!Diagnostic("operation_limit_exceeded", item.path)
  BY DEF O!Diagnostic
<1>3. O!Resolves(item)' = O!Resolves(item)
  BY DEF O!Resolves
<1>4. O!ToSet(diagnostics)' = O!ToSet(diagnostics')
  BY Zenon DEF O!ToSet
<1>. QED  BY <1>1, <1>2, <1>3, <1>4 DEF Accounted

(* So does the reason for an exception. *)
LEMMA FatalStays ==
  ASSUME document' = document, O!Fatal
  PROVE  O!Fatal'
<1>1. O!Items' = O!Items /\ O!ToSet(MethodOrder)' = O!ToSet(MethodOrder)
  BY Zenon DEF O!Items, O!ToSet
<1>2. \A item : O!Resolves(item)' <=> O!Resolves(item)
  BY Zenon DEF O!Resolves
<1>3. O!Unparsable(document)' <=> O!Unparsable(document)
  BY DEF O!Unparsable
<1>. QED  BY <1>1, <1>2, <1>3, Zenon DEF O!Fatal

(* A diagnostic that is not about the base URL explains none. *)
LEMMA BaseUrlStays ==
  ASSUME AnalysisTypes, O!BaseUrlExplained, status = "running", status' \in {"running", "done"},
         baseUrl' = baseUrl, NEW d \in Diagnostics, diagnostics' = Append(diagnostics, d),
         d.code \notin BaseUrlCodes
  PROVE  O!BaseUrlExplained'
<1>1. O!ToSet(diagnostics') = O!ToSet(diagnostics) \cup {d}
  BY ToSetAppend DEF AnalysisTypes
<1>2. O!ToSet(diagnostics)' = O!ToSet(diagnostics')
  BY Zenon DEF O!ToSet
<1>. QED  BY <1>1, <1>2 DEF O!BaseUrlExplained, BaseUrlCodes

(* A document keeps its results. *)
LEMMA ResultsStay ==
  ASSUME O!Items' = O!Items
  PROVE  Results' = Results
<1>1. O!ToSet(MethodOrder)' = O!ToSet(MethodOrder)
  BY Zenon DEF O!ToSet
<1>2. ResultCodes' = ResultCodes
  BY <1>1 DEF ResultCodes
<1>3. ResultNames' = ResultNames
  BY <1>1 DEF ResultNames
<1>. QED  BY <1>1, <1>2, <1>3 DEF Results

(* The loop leaves an item whose methods are all accounted for. *)
LEMMA LeaveItem ==
  ASSUME O!AnalysisAssumption, AnalysisInv, O!Looping,
         document' = document, operations' = operations, status' = status,
         NEW here, here = O!Item, pending' = pending \ {here}, next' = 1,
         diagnostics' \in Seq(Diagnostics),
         O!ToSet(diagnostics) \subseteq O!ToSet(diagnostics'),
         here.kind = "item" => \A m \in DOMAIN MethodOrder : Accounted(here, m)',
         O!BaseUrlExplained'
  PROVE  AnalysisInv'
<1>1. AnalysisTypes /\ PlaceHolds /\ status = "running" /\ pending # {}
  BY DEF AnalysisInv, O!Looping
<1>2. /\ here \in pending /\ here \in O!Items
      /\ \A other \in pending : here.path <= other.path
  BY <1>1, ItemIsFirst
<1>3. /\ \A item \in O!Items : item.path \in Nat
      /\ \A item, other \in O!Items : item.path = other.path => item = other
  BY <1>1, ItemsOfDocument DEF AnalysisTypes, O!PathItem
<1>4. O!Items' = O!Items
  BY Zenon DEF O!Items, O!ToSet
<1>5. Results' = Results
  BY <1>4, ResultsStay
<1>6. AnalysisTypes'
  <2>1. next' \in 1 .. Len(MethodOrder) + 1
    BY MethodFacts
  <2>. QED  BY <1>1, <1>4, <1>5, <2>1 DEF AnalysisTypes
<1>7. PlaceHolds'
  <2>1. ASSUME NEW item \in O!Items \ pending', NEW other \in pending'
        PROVE  item.path < other.path
    <3>1. other \in pending /\ other # here /\ other \in O!Items
      BY <1>1 DEF AnalysisTypes
    <3>2. CASE item \in O!Items \ pending
      BY <1>1, <3>1, <3>2 DEF PlaceHolds
    <3>3. CASE item = here
      <4>1. here.path <= other.path /\ here.path # other.path
        BY <1>2, <1>3, <3>1
      <4>2. here.path \in Nat /\ other.path \in Nat
        BY <1>2, <1>3, <3>1
      <4>. QED  BY <3>3, <4>1, <4>2
    <3>. QED  BY <3>2, <3>3
  <2>. QED  BY <1>1, <1>4, <2>1 DEF PlaceHolds
<1>8. ASSUME NEW item \in O!Items, NEW m \in DOMAIN MethodOrder
      PROVE  /\ Passed(item, m) => Passed(item, m)'
             /\ Passed(item, m)' => Passed(item, m) \/ item = here
  <2>1. m \in Nat \ {0}
    BY MethodFacts
  <2>. QED  BY <1>2, <1>4, <2>1 DEF Passed
<1>9. ASSUME NEW i \in DOMAIN operations'
      PROVE  ResultHolds(i)'
  <2>1. ResultHolds(i)
    BY DEF AnalysisInv
  <2>. QED  BY <1>4, <1>8, <2>1, Zenon DEF ResultHolds, Converts, O!Resolves
<1>10. OrderHolds'
  BY Zenon DEF AnalysisInv, OrderHolds, O!Before, O!Place
<1>11. PassedAccounted'
  <2>1. ASSUME NEW item \in O!Items, NEW m \in DOMAIN MethodOrder, item.kind = "item", Passed(item, m)'
        PROVE  Accounted(item, m)'
    <3>1. CASE item = here
      BY <2>1, <3>1
    <3>2. CASE item # here
      <4>1. Passed(item, m)
        BY <1>8, <2>1, <3>2
      <4>2. Accounted(item, m)
        BY <1>1, <2>1, <4>1 DEF AnalysisInv, PassedAccounted
      <4>. QED  BY <4>2, AccountedStays
    <3>. QED  BY <3>1, <3>2
  <2>. QED  BY <1>4, <2>1, Zenon DEF PassedAccounted
<1>. QED  BY <1>6, <1>7, <1>9, <1>10, <1>11, Zenon DEF AnalysisInv

(* The loop over the methods goes on, past methods that are accounted for. *)
LEMMA PassMethods ==
  ASSUME O!AnalysisAssumption, AnalysisInv, O!LoopingMethods,
         document' = document, operations' = operations, status' = status, pending' = pending,
         next' \in next + 1 .. Len(MethodOrder) + 1,
         diagnostics' \in Seq(Diagnostics),
         O!ToSet(diagnostics) \subseteq O!ToSet(diagnostics'),
         NEW here, here = O!Item, \A m \in next .. next' - 1 : Accounted(here, m)',
         O!BaseUrlExplained'
  PROVE  AnalysisInv'
<1>1. AnalysisTypes /\ PlaceHolds /\ status = "running" /\ pending # {}
  BY DEF AnalysisInv, O!Looping, O!LoopingMethods
<1>2. O!Item' = O!Item /\ O!Items' = O!Items
  BY Zenon DEF O!Item, O!Items, O!ToSet
<1>3. Results' = Results
  BY <1>2, ResultsStay
<1>4. next \in Nat \ {0} /\ Len(MethodOrder) \in Nat
  BY <1>1, MethodFacts DEF AnalysisTypes
<1>5. AnalysisTypes'
  BY <1>1, <1>2, <1>3, <1>4 DEF AnalysisTypes
<1>6. PlaceHolds'
  <2>1. O!Resolves(O!Item)'
    BY <1>2, Zenon DEF O!LoopingMethods, O!Resolves
  <2>. QED  BY <1>1, <1>2, <2>1 DEF PlaceHolds, O!LoopingMethods
<1>7. ASSUME NEW item \in O!Items, NEW m \in DOMAIN MethodOrder
      PROVE  /\ Passed(item, m) => Passed(item, m)'
             /\ Passed(item, m)' => Passed(item, m) \/ (item = O!Item /\ m \in next .. next' - 1)
  <2>1. m \in Nat \ {0}
    BY MethodFacts
  <2>. QED  BY <1>2, <1>4, <2>1 DEF Passed
<1>8. ASSUME NEW i \in DOMAIN operations'
      PROVE  ResultHolds(i)'
  <2>1. ResultHolds(i)
    BY DEF AnalysisInv
  <2>. QED  BY <1>2, <1>7, <2>1, Zenon DEF ResultHolds, Converts, O!Resolves
<1>9. OrderHolds'
  BY Zenon DEF AnalysisInv, OrderHolds, O!Before, O!Place
<1>10. PassedAccounted'
  <2>1. ASSUME NEW item \in O!Items, NEW m \in DOMAIN MethodOrder, item.kind = "item", Passed(item, m)'
        PROVE  Accounted(item, m)'
    <3>1. CASE item = O!Item /\ m \in next .. next' - 1
      BY <3>1
    <3>2. CASE Passed(item, m)
      <4>1. Accounted(item, m)
        BY <1>1, <2>1, <3>2 DEF AnalysisInv, PassedAccounted
      <4>. QED  BY <4>1, AccountedStays
    <3>. QED  BY <1>7, <2>1, <3>1, <3>2
  <2>. QED  BY <1>2, <2>1, Zenon DEF PassedAccounted
<1>. QED  BY <1>5, <1>6, <1>8, <1>9, <1>10, Zenon DEF AnalysisInv

(* A diagnostic that is added. *)
LEMMA DiagnosticAdded ==
  ASSUME O!AnalysisAssumption, AnalysisInv, status = "running", status' \in {"running", "done"}, baseUrl' = baseUrl,
         NEW code \in LoopCodes, NEW path \in Nat,
         diagnostics' = Append(diagnostics, O!Diagnostic(code, path))
  PROVE  /\ diagnostics' \in Seq(Diagnostics)
         /\ O!ToSet(diagnostics) \subseteq O!ToSet(diagnostics')
         /\ O!Diagnostic(code, path) \in O!ToSet(diagnostics')
         /\ O!BaseUrlExplained'
<1>1. O!Diagnostic(code, path) \in Diagnostics /\ O!Diagnostic(code, path).code = code
  BY DEF O!Diagnostic, Diagnostics
<1>1a. O!Diagnostic(code, path).code \notin BaseUrlCodes
  BY <1>1 DEF BaseUrlCodes, LoopCodes
<1>2. diagnostics \in Seq(Diagnostics)
  BY DEF AnalysisInv, AnalysisTypes
<1>3. O!ToSet(diagnostics') = O!ToSet(diagnostics) \cup {O!Diagnostic(code, path)}
  BY <1>1, <1>2, ToSetAppend
<1>4. O!BaseUrlExplained'
  BY <1>1, <1>1a, BaseUrlStays DEF AnalysisInv
<1>5. diagnostics' \in Seq(Diagnostics)
  BY <1>1, <1>2
<1>. QED  BY <1>3, <1>4, <1>5

(* Begin keeps the invariant. *)
LEMMA BeginKeeps ==
  ASSUME O!AnalysisAssumption, AnalysisInv, O!Begin
  PROVE  AnalysisInv'
<1>1. /\ AnalysisTypes /\ PlaceHolds /\ status = "start" /\ operations = <<>> /\ next = 1
      /\ document' = document /\ next' = next /\ operations' = operations
      /\ pending' = O!Items /\ O!Items' = O!Items
  BY Zenon DEF AnalysisInv, PlaceHolds, O!Begin, O!Items, O!ToSet
<1>2. /\ diagnostics' \in Seq(Diagnostics) /\ status' \in {"running", "failed", "crashed"}
      /\ status' = "crashed" => O!Fatal'
      /\ O!BaseUrlExplained'
  <2>1. CASE status' = "crashed" /\ O!Unparsable(document) /\ diagnostics' = diagnostics
    <3>1. O!Fatal
      BY <2>1, Zenon DEF O!Fatal
    <3>. QED  BY <1>1, <2>1, <3>1, FatalStays DEF AnalysisTypes, O!BaseUrlExplained
  <2>2. CASE status' = "failed" /\ diagnostics' = diagnostics
    BY <1>1, <2>2 DEF AnalysisTypes, O!BaseUrlExplained
  <2>3. CASE /\ status' = "running"
             /\ baseUrl' = O!ResolveBaseUrl(document)[1]
             /\ diagnostics' = O!ResolveBaseUrl(document)[2]
    <3> DEFINE found == O!ResolveBaseUrl(document)
    <3>1. status' = "running" /\ baseUrl' = found[1] /\ diagnostics' = found[2]
      BY <2>3
    <3>2. \/ found[1] \in {"override", "server"} /\ found[2] = <<>>
          \/ found[1] = "none" /\ \E code \in BaseUrlCodes : found[2] = <<O!Diagnostic(code, 0)>>
      BY DEF O!ResolveBaseUrl, BaseUrlCodes
    <3>3. CASE found[1] \in {"override", "server"} /\ found[2] = <<>>
      BY <3>1, <3>3 DEF O!BaseUrlExplained, O!ToSet
    <3>4. ASSUME NEW code \in BaseUrlCodes, found[1] = "none", found[2] = <<O!Diagnostic(code, 0)>>
          PROVE  diagnostics' \in Seq(Diagnostics) /\ O!BaseUrlExplained'
      <4>1. O!Diagnostic(code, 0) \in Diagnostics /\ O!Diagnostic(code, 0).code = code
        BY DEF O!Diagnostic, Diagnostics
      <4>2. diagnostics' = <<O!Diagnostic(code, 0)>> /\ baseUrl' = "none"
        BY <3>1, <3>4
      <4>3. O!Diagnostic(code, 0) \in O!ToSet(diagnostics)'
        BY <4>2 DEF O!ToSet
      <4>. QED  BY <4>1, <4>2, <4>3 DEF O!BaseUrlExplained, BaseUrlCodes
    <3>. QED  BY <3>1, <3>2, <3>3, <3>4
  <2>. QED  BY <2>1, <2>2, <2>3 DEF O!Begin
<1>3. Results' = Results
  BY <1>1, ResultsStay
<1>4. AnalysisTypes'
  BY <1>1, <1>2, <1>3 DEF AnalysisTypes
<1>5. PlaceHolds'
  BY <1>1, <1>2 DEF PlaceHolds
<1>6. (\A i \in DOMAIN operations : ResultHolds(i))' /\ OrderHolds'
  BY <1>1 DEF OrderHolds
<1>7. PassedAccounted'
  <2>1. ASSUME NEW item \in O!Items, NEW m \in DOMAIN MethodOrder
        PROVE  ~Passed(item, m)'
    <3>1. m \in Nat \ {0}
      BY MethodFacts
    <3>. QED  BY <1>1, <3>1 DEF Passed
  <2>. QED  BY <1>1, <2>1, Zenon DEF PassedAccounted
<1>. QED  BY <1>2, <1>4, <1>5, <1>6, <1>7, Zenon DEF AnalysisInv

(* What is known of the item that the loop is at. *)
LEMMA ItemFacts ==
  ASSUME O!AnalysisAssumption, AnalysisInv, O!Looping
  PROVE  /\ status = "running" /\ pending # {} /\ O!Item \in O!Items
         /\ O!Item.kind \in {"item", "invalid_path", "invalid_path_item"}
         /\ O!Item.path \in Nat
         /\ next # 1 => O!Item.kind = "item" /\ O!Resolves(O!Item) /\ O!Item.root = "object"
         /\ next \in 1 .. Len(MethodOrder) + 1
<1>1. O!Item \in O!Items /\ status = "running" /\ pending # {} /\ AnalysisTypes /\ PlaceHolds
  BY ItemIsFirst DEF AnalysisInv, O!Looping
<1>2. O!PathItem(O!Item)
  BY <1>1, ItemsOfDocument DEF AnalysisTypes
<1>3. next \in 1 .. Len(MethodOrder) + 1 /\ Len(MethodOrder) \in Nat
  BY <1>1, MethodFacts DEF AnalysisTypes
<1>. QED  BY <1>1, <1>2, <1>3 DEF O!PathItem, PlaceHolds

(* An item that is skipped keeps the invariant. *)
LEMMA SkipItemKeeps ==
  ASSUME O!AnalysisAssumption, AnalysisInv, O!SkipItem
  PROVE  AnalysisInv'
<1>1. O!Looping /\ O!Item.kind # "item"
  BY DEF O!SkipItem
<1>2. /\ status = "running" /\ O!Item.kind \in {"invalid_path", "invalid_path_item"} /\ next = 1
      /\ O!Item.path \in Nat
  BY <1>1, ItemFacts
<1>3. /\ diagnostics' = Append(diagnostics, O!Diagnostic(O!Item.kind, O!Item.path))
      /\ document' = document /\ operations' = operations /\ status' = status /\ baseUrl' = baseUrl
      /\ pending' = pending \ {O!Item} /\ next' = 1
  BY <1>2 DEF O!SkipItem
<1>4. /\ diagnostics' \in Seq(Diagnostics)
      /\ O!ToSet(diagnostics) \subseteq O!ToSet(diagnostics')
      /\ O!BaseUrlExplained'
  <2>1. O!Item.kind \in LoopCodes /\ status' \in {"running", "done"}
    BY <1>2, <1>3 DEF LoopCodes
  <2>. QED  BY <1>2, <1>3, <2>1, DiagnosticAdded
<1>5. PICK here : here = O!Item
  OBVIOUS
<1>6. ~(here.kind = "item") /\ pending' = pending \ {here}
  BY <1>1, <1>3, <1>5
<1>. QED  BY <1>1, <1>3, <1>4, <1>5, <1>6, LeaveItem

(* An item whose references do not resolve keeps the invariant. *)
LEMMA UnresolvedItemKeeps ==
  ASSUME O!AnalysisAssumption, AnalysisInv, O!UnresolvedItem
  PROVE  AnalysisInv'
<1>1. O!Looping /\ ~O!Resolves(O!Item)
  BY DEF O!UnresolvedItem
<1>2. status = "running" /\ next = 1 /\ O!Item.path \in Nat
  BY <1>1, ItemFacts
<1>3. PICK where \in {0, O!Item.path} :
        diagnostics' = Append(diagnostics, O!Diagnostic("unresolved", where))
  BY DEF O!UnresolvedItem
<1>4. /\ document' = document /\ operations' = operations /\ status' = status /\ baseUrl' = baseUrl
      /\ pending' = pending \ {O!Item} /\ next' = 1
  BY <1>2 DEF O!UnresolvedItem
<1>5. /\ diagnostics' \in Seq(Diagnostics)
      /\ O!ToSet(diagnostics) \subseteq O!ToSet(diagnostics')
      /\ O!Diagnostic("unresolved", where) \in O!ToSet(diagnostics')
      /\ O!BaseUrlExplained'
  <2>1. where \in Nat /\ status' \in {"running", "done"}
    BY <1>2, <1>4
  <2>2. "unresolved" \in LoopCodes
    BY DEF LoopCodes
  <2>. QED  BY <1>2, <1>3, <1>4, <2>1, <2>2, DiagnosticAdded
<1>6. PICK here : here = O!Item
  OBVIOUS
<1>7. ASSUME NEW m \in DOMAIN MethodOrder
      PROVE  Accounted(here, m)'
  <2>1. ~O!Resolves(here)'
    BY <1>1, <1>6, Zenon DEF O!Resolves
  <2>2. O!Diagnostic("unresolved", where).code = "unresolved" /\ O!Diagnostic("unresolved", where).path = where
    BY DEF O!Diagnostic
  <2>3. where \in {0, here.path}
    BY <1>6
  <2>4. O!Diagnostic("unresolved", where) \in O!ToSet(diagnostics)'
    BY <1>5, Zenon DEF O!ToSet
  <2>. QED  BY <2>1, <2>2, <2>3, <2>4, Zenon DEF Accounted
<1>. QED  BY <1>1, <1>4, <1>5, <1>6, <1>7, LeaveItem

(* An item that is done keeps the invariant. *)
LEMMA EndItemKeeps ==
  ASSUME O!AnalysisAssumption, AnalysisInv, O!EndItem
  PROVE  AnalysisInv'
<1>1. O!Looping /\ O!Item.kind = "item" /\ next > Len(MethodOrder)
  BY DEF O!EndItem
<1>2. status = "running" /\ O!Item \in O!Items /\ O!Item.path \in Nat /\ pending # {}
  BY <1>1, ItemFacts
<1>3. /\ document' = document /\ operations' = operations /\ status' = status /\ baseUrl' = baseUrl
      /\ pending' = pending \ {O!Item} /\ next' = 1
  BY DEF O!EndItem
<1>4. /\ diagnostics' \in Seq(Diagnostics)
      /\ O!ToSet(diagnostics) \subseteq O!ToSet(diagnostics')
      /\ O!BaseUrlExplained'
  <2>1. CASE diagnostics' = diagnostics
    BY <1>2, <1>3, <2>1 DEF AnalysisInv, AnalysisTypes, O!BaseUrlExplained, O!ToSet
  <2>2. CASE diagnostics' = Append(diagnostics, O!Diagnostic("unsupported_method", O!Item.path))
    <3>1. "unsupported_method" \in LoopCodes /\ status' \in {"running", "done"}
      BY <1>2, <1>3 DEF LoopCodes
    <3>. QED  BY <1>2, <1>3, <2>2, <3>1, DiagnosticAdded
  <2>. QED  BY <2>1, <2>2 DEF O!EndItem
<1>5. PICK here : here = O!Item
  OBVIOUS
<1>6. ASSUME NEW m \in DOMAIN MethodOrder
      PROVE  Accounted(here, m)'
  <2>1. m < next
    BY <1>1, MethodFacts DEF AnalysisInv, AnalysisTypes
  <2>2. Accounted(here, m)
    BY <1>1, <1>2, <1>5, <2>1 DEF AnalysisInv, PassedAccounted, Passed
  <2>. QED  BY <1>3, <1>4, <2>2, AccountedStays
<1>7. pending' = pending \ {here}
  BY <1>3, <1>5
<1>. QED  BY <1>1, <1>3, <1>4, <1>5, <1>6, <1>7, LeaveItem

(* A method that the item has not keeps the invariant. *)
LEMMA SkipMethodKeeps ==
  ASSUME O!AnalysisAssumption, AnalysisInv, O!SkipMethod
  PROVE  AnalysisInv'
<1>1. O!LoopingMethods /\ O!Looping /\ next <= Len(MethodOrder) /\ O!Found.shape = "absent"
  BY DEF O!SkipMethod, O!LoopingMethods
<1>2. next \in 1 .. Len(MethodOrder) + 1 /\ Len(MethodOrder) \in Nat
  BY <1>1, ItemFacts, MethodFacts
<1>3. /\ document' = document /\ operations' = operations /\ status' = status /\ baseUrl' = baseUrl
      /\ pending' = pending /\ next' = next + 1 /\ diagnostics' = diagnostics
  BY DEF O!SkipMethod
<1>4. /\ diagnostics' \in Seq(Diagnostics)
      /\ O!ToSet(diagnostics) \subseteq O!ToSet(diagnostics')
      /\ O!BaseUrlExplained'
  BY <1>3 DEF AnalysisInv, AnalysisTypes, O!BaseUrlExplained, O!ToSet
<1>5. PICK here : here = O!Item
  OBVIOUS
<1>6. ASSUME NEW m \in next .. next' - 1
      PROVE  Accounted(here, m)'
  <2>1. m = next
    BY <1>2, <1>3
  <2>2. here.ops[MethodOrder[m]].shape = "absent" /\ O!Resolves(here) /\ here.root = "object"
    BY <1>1, <1>5, <2>1 DEF O!Found, O!Method, O!LoopingMethods
  <2>3. O!Resolves(here)'
    BY <2>2, Zenon DEF O!Resolves
  <2>. QED  BY <2>2, <2>3, Zenon DEF Accounted
<1>7. next' \in next + 1 .. Len(MethodOrder) + 1
  BY <1>1, <1>2, <1>3
<1>. QED  BY <1>1, <1>3, <1>4, <1>5, <1>6, <1>7, PassMethods

(* The limit keeps the invariant: its diagnostic stands for the rest. *)
LEMMA StopAtLimitKeeps ==
  ASSUME O!AnalysisAssumption, AnalysisInv, O!StopAtLimit
  PROVE  AnalysisInv'
<1>1. O!LoopingMethods /\ O!Looping /\ next <= Len(MethodOrder)
  BY DEF O!StopAtLimit, O!LoopingMethods
<1>2. /\ next \in 1 .. Len(MethodOrder) + 1 /\ Len(MethodOrder) \in Nat
      /\ status = "running" /\ O!Item.path \in Nat
  BY <1>1, ItemFacts, MethodFacts
<1>3. /\ document' = document /\ operations' = operations /\ status' = status /\ baseUrl' = baseUrl
      /\ pending' = pending /\ next' = Len(MethodOrder) + 1
      /\ diagnostics' = Append(diagnostics, O!Diagnostic("operation_limit_exceeded", O!Item.path))
      /\ Len(operations) >= MaxOperations
  BY DEF O!StopAtLimit
<1>4. /\ diagnostics' \in Seq(Diagnostics)
      /\ O!ToSet(diagnostics) \subseteq O!ToSet(diagnostics')
      /\ O!Diagnostic("operation_limit_exceeded", O!Item.path) \in O!ToSet(diagnostics')
      /\ O!BaseUrlExplained'
  <2>1. "operation_limit_exceeded" \in LoopCodes /\ status' \in {"running", "done"}
    BY <1>2, <1>3 DEF LoopCodes
  <2>. QED  BY <1>2, <1>3, <2>1, DiagnosticAdded
<1>5. PICK here : here = O!Item
  OBVIOUS
<1>6. ASSUME NEW m \in next .. next' - 1
      PROVE  Accounted(here, m)'
  <2>1. O!Diagnostic("operation_limit_exceeded", here.path) \in O!ToSet(diagnostics)'
    BY <1>4, <1>5, Zenon DEF O!ToSet
  <2>2. O!Diagnostic("operation_limit_exceeded", here.path)' = O!Diagnostic("operation_limit_exceeded", here.path)
    BY Zenon DEF O!Diagnostic
  <2>3. O!Resolves(here) /\ here.root = "object" /\ Len(operations') >= MaxOperations
    BY <1>1, <1>3, <1>5 DEF O!LoopingMethods
  <2>4. O!Resolves(here)'
    BY <2>3, Zenon DEF O!Resolves
  <2>. QED  BY <2>1, <2>2, <2>3, <2>4, Zenon DEF Accounted
<1>7. next' \in next + 1 .. Len(MethodOrder) + 1
  BY <1>1, <1>2, <1>3
<1>. QED  BY <1>1, <1>3, <1>4, <1>5, <1>6, <1>7, PassMethods

(* The result of an operation: a tool unless its name is claimed, and else *)
(* a diagnostic.                                                           *)
LEMMA AnalyzedFacts ==
  ASSUME O!AnalysisAssumption, AnalysisInv, O!LoopingMethods
  PROVE  /\ O!Analyzed \in Results
         /\ O!Analyzed.path = O!Item.path /\ O!Analyzed.method = MethodOrder[next]
         /\ O!Analyzed.tool \/ O!Analyzed.codes # {}
         /\ O!Analyzed.tool => ~O!Claimed(O!Analyzed.name)
         /\ Converts(O!Item, next) /\ ~O!Analyzed.tool => O!Claimed(O!Analyzed.name)
<1>1. O!Looping /\ next \in DOMAIN MethodOrder
  BY ItemFacts, MethodFacts DEF O!LoopingMethods
<1>2. O!Item \in O!Items /\ O!Item.path \in Nat
  BY <1>1, ItemFacts
<1>3. MethodOrder[next] \in O!ToSet(MethodOrder)
  BY <1>1, MethodFacts
<1>4. O!Found.outcome \in ResultCodes /\ O!Found.name \in ResultNames
  BY <1>2, <1>3 DEF O!Found, O!Method, ResultCodes, ResultNames
<1>6. ASSUME NEW tool \in BOOLEAN, NEW c \in SUBSET ResultCodes
      PROVE  /\ O!Result(tool, c) \in Results
             /\ O!Result(tool, c).path = O!Item.path
             /\ O!Result(tool, c).method = MethodOrder[next]
             /\ O!Result(tool, c).tool = tool
             /\ O!Result(tool, c).codes = c
             /\ O!Result(tool, c).name = O!Found.name
  BY <1>2, <1>3, <1>4 DEF O!Result, O!Method, Results
<1>7. Converts(O!Item, next) <=> O!Found.shape = "object" /\ O!Found.outcome = "tool"
  BY Zenon DEF Converts, O!Found, O!Method
<1>8. \/ ~Converts(O!Item, next) /\ O!Analyzed = O!Result(FALSE, {"invalid_operation"})
      \/ ~Converts(O!Item, next) /\ O!Analyzed = O!Result(FALSE, {O!Found.outcome})
      \/ O!Claimed(O!Found.name) /\ O!Analyzed = O!Result(FALSE, {"tool_name_collision"})
      \/ /\ ~O!Claimed(O!Found.name)
         /\ O!Analyzed =
              O!Result(TRUE, {"description_generated", "operation_deprecated"} \cap O!Found.warnings)
  BY <1>7 DEF O!Analyzed
<1>9. /\ {"invalid_operation"} \in SUBSET ResultCodes /\ {O!Found.outcome} \in SUBSET ResultCodes
      /\ {"tool_name_collision"} \in SUBSET ResultCodes
      /\ {"description_generated", "operation_deprecated"} \cap O!Found.warnings \in SUBSET ResultCodes
  BY <1>4 DEF ResultCodes
<1>10. CASE ~Converts(O!Item, next) /\ O!Analyzed = O!Result(FALSE, {"invalid_operation"})
  BY <1>6, <1>9, <1>10
<1>11. CASE ~Converts(O!Item, next) /\ O!Analyzed = O!Result(FALSE, {O!Found.outcome})
  BY <1>6, <1>9, <1>11
<1>12. CASE O!Claimed(O!Found.name) /\ O!Analyzed = O!Result(FALSE, {"tool_name_collision"})
  <2>1. O!Analyzed.name = O!Found.name /\ O!Analyzed.tool = FALSE
    BY <1>6, <1>9, <1>12
  <2>2. O!Claimed(O!Analyzed.name)
    BY <1>12, <2>1
  <2>. QED  BY <1>6, <1>9, <1>12, <2>1, <2>2
<1>13. CASE /\ ~O!Claimed(O!Found.name)
            /\ O!Analyzed =
                 O!Result(TRUE, {"description_generated", "operation_deprecated"} \cap O!Found.warnings)
  <2>1. O!Analyzed.name = O!Found.name /\ O!Analyzed.tool = TRUE
    BY <1>6, <1>9, <1>13
  <2>2. ~O!Claimed(O!Analyzed.name)
    BY <1>13, <2>1
  <2>. QED  BY <1>6, <1>9, <1>13, <2>1, <2>2
<1>. QED  BY <1>8, <1>10, <1>11, <1>12, <1>13

(* An operation that is analysed keeps the invariant. *)
LEMMA AppendResultKeeps ==
  ASSUME O!AnalysisAssumption, AnalysisInv, O!LoopingMethods,
         document' = document, pending' = pending, diagnostics' = diagnostics, baseUrl' = baseUrl,
         status' = status, next' = next + 1, operations' = Append(operations, O!Analyzed)
  PROVE  AnalysisInv'
<1>1. /\ AnalysisTypes /\ PlaceHolds /\ status = "running" /\ pending # {} /\ O!Item.kind = "item"
      /\ O!Resolves(O!Item) /\ O!Item.root = "object"
      /\ O!Item \in O!Items /\ next \in 1 .. Len(MethodOrder) /\ Len(MethodOrder) \in Nat
  BY ItemFacts, MethodFacts DEF AnalysisInv, O!LoopingMethods, O!Looping
<1>2. O!Item' = O!Item /\ O!Items' = O!Items
  BY Zenon DEF O!Item, O!Items, O!ToSet
<1>3. Results' = Results
  BY <1>2, ResultsStay
<1>4. PICK r \in Results : r = O!Analyzed
  BY AnalyzedFacts
<1>5. /\ r.path = O!Item.path /\ r.method = MethodOrder[next]
      /\ r.tool \/ r.codes # {}
      /\ r.tool => ~O!Claimed(r.name)
      /\ Converts(O!Item, next) /\ ~r.tool => O!Claimed(r.name)
  BY <1>4, AnalyzedFacts
<1> DEFINE n == Len(operations)
<1>6. operations \in Seq(Results) /\ n \in Nat /\ DOMAIN operations = 1 .. n
  BY <1>1 DEF AnalysisTypes
<1>7. operations' \in Seq(Results)
  BY <1>4, <1>6
<1>8. DOMAIN operations' = 1 .. n + 1 /\ operations'[n + 1] = r
  BY <1>4, <1>6
<1>9. \A i \in 1 .. n : operations'[i] = operations[i]
  BY <1>4, <1>6
<1>10. O!ToSet(operations') = O!ToSet(operations) \cup {r}
  BY <1>4, <1>6, ToSetAppend
<1> HIDE DEF n
<1>11. AnalysisTypes'
  <2>1. next' \in 1 .. Len(MethodOrder) + 1
    BY <1>1
  <2>. QED  BY <1>1, <1>2, <1>3, <1>7, <2>1 DEF AnalysisTypes
<1>12. PlaceHolds'
  <2>1. O!Resolves(O!Item)'
    BY <1>2, Zenon DEF O!LoopingMethods, O!Resolves
  <2>. QED  BY <1>1, <1>2, <2>1 DEF PlaceHolds
<1>13. ASSUME NEW item \in O!Items, NEW m \in DOMAIN MethodOrder
       PROVE  /\ Passed(item, m) => Passed(item, m)'
              /\ Passed(item, m)' => Passed(item, m) \/ (item = O!Item /\ m = next)
  <2>1. m \in Nat \ {0}
    BY MethodFacts
  <2>. QED  BY <1>1, <1>2, <2>1 DEF Passed
<1>14. \A a : O!Claimed(a) <=> \E j \in 1 .. n : operations'[j].tool /\ operations'[j].name = a
  BY <1>6, <1>9, Zenon DEF O!Claimed
<1>15. ASSUME NEW i \in DOMAIN operations'
       PROVE  ResultHolds(i)'
  <2>1. CASE i \in 1 .. n
    <3>1. PICK item \in O!Items, m \in DOMAIN MethodOrder :
            /\ item.kind = "item" /\ O!Resolves(item) /\ Passed(item, m)
            /\ operations[i].path = item.path /\ operations[i].method = MethodOrder[m]
            /\ Converts(item, m) /\ ~operations[i].tool =>
                 \E j \in 1 .. i - 1 : operations[j].tool /\ operations[j].name = operations[i].name
      BY <1>6, <2>1 DEF AnalysisInv, ResultHolds
    <3>2. \A j \in 1 .. i - 1 : j \in 1 .. n
      BY <1>6, <2>1
    <3>3. Converts(item, m)' = Converts(item, m) /\ (O!Resolves(item)' <=> O!Resolves(item))
      BY Zenon DEF Converts, O!Resolves
    <3>4. /\ item.kind = "item" /\ O!Resolves(item)' /\ Passed(item, m)'
          /\ operations'[i].path = item.path /\ operations'[i].method = MethodOrder[m]
          /\ Converts(item, m)' /\ ~operations'[i].tool =>
               \E j \in 1 .. i - 1 : operations'[j].tool /\ operations'[j].name = operations'[i].name
      BY <1>9, <1>13, <2>1, <3>1, <3>2, <3>3
    <3>. QED  BY <1>2, <3>4, Zenon DEF ResultHolds
  <2>2. CASE i = n + 1
    <3>1. PICK item \in O!Items, m \in DOMAIN MethodOrder : item = O!Item /\ m = next
      BY <1>1, MethodFacts
    <3>2. Passed(item, m)'
      BY <1>1, <1>2, <3>1 DEF Passed
    <3>3. Converts(item, m)' = Converts(item, m) /\ (O!Resolves(item)' <=> O!Resolves(item))
      BY Zenon DEF Converts, O!Resolves
    <3>4. operations'[i] = r /\ i - 1 = n
      BY <1>6, <1>8, <2>2
    <3>5. Converts(item, m) /\ ~r.tool => \E j \in 1 .. n : operations'[j].tool /\ operations'[j].name = r.name
      BY <1>5, <1>14, <3>1
    <3>. QED  BY <1>1, <1>2, <1>5, <3>1, <3>2, <3>3, <3>4, <3>5, Zenon DEF ResultHolds
  <2>. QED  BY <1>6, <1>8, <2>1, <2>2
<1>16. OrderHolds'
  <2>1. ASSUME NEW i \in 1 .. n, NEW j \in 1 .. i - 1
        PROVE  /\ O!Before(operations'[j], operations'[i])
               /\ operations'[i].tool /\ operations'[j].tool => operations'[i].name # operations'[j].name
    <3>1. j \in 1 .. n /\ i \in DOMAIN operations
      BY <1>6
    <3>2. operations'[i] = operations[i] /\ operations'[j] = operations[j]
      BY <1>9, <3>1
    <3>. QED  BY <3>1, <3>2 DEF AnalysisInv, OrderHolds
  <2>2. ASSUME NEW j \in 1 .. n
        PROVE  /\ O!Before(operations'[j], r)
               /\ r.tool /\ operations'[j].tool => r.name # operations'[j].name
    <3>1. j \in DOMAIN operations /\ operations'[j] = operations[j]
      BY <1>6, <1>9
    <3>2. PICK item \in O!Items, m \in DOMAIN MethodOrder :
            /\ Passed(item, m)
            /\ operations[j].path = item.path /\ operations[j].method = MethodOrder[m]
      BY <3>1 DEF AnalysisInv, ResultHolds
    <3>3. O!Place(MethodOrder[m]) = m /\ O!Place(MethodOrder[next]) = next
      BY <1>1, PlaceOfMethod, MethodFacts
    <3>4. item.path < O!Item.path \/ (item = O!Item /\ m < next)
      <4>1. O!Item \in pending
        BY <1>1, ItemIsFirst
      <4>. QED  BY <1>1, <3>2, <4>1 DEF Passed, PlaceHolds
    <3>5. O!Before(operations[j], r)
      BY <1>5, <3>2, <3>3, <3>4, Zenon DEF O!Before
    <3>. QED  BY <1>5, <1>14, <3>1, <3>5
  <2>3. ASSUME NEW i \in DOMAIN operations', NEW j \in 1 .. i - 1
        PROVE  /\ O!Before(operations'[j], operations'[i])
               /\ operations'[i].tool /\ operations'[j].tool => operations'[i].name # operations'[j].name
    <3>1. i \in 1 .. n \/ (i = n + 1 /\ i - 1 = n)
      BY <1>6, <1>8
    <3>. QED  BY <1>8, <2>1, <2>2, <3>1
  <2>4. \A s, t : O!Before(s, t)' <=> O!Before(s, t)
    BY Zenon DEF O!Before, O!Place
  <2>. QED  BY <2>3, <2>4, Zenon DEF OrderHolds
<1>17. PassedAccounted'
  <2>1. /\ O!ToSet(operations) \subseteq O!ToSet(operations')
        /\ O!ToSet(diagnostics) \subseteq O!ToSet(diagnostics')
        /\ Len(operations) >= MaxOperations => Len(operations') >= MaxOperations
    <3>1. Len(operations') = Len(operations) + 1 /\ Len(operations) \in Nat
      BY <1>4, <1>6
    <3>. QED  BY <1>10, <3>1 DEF O!AnalysisAssumption
  <2>2. ASSUME NEW item \in O!Items, NEW m \in DOMAIN MethodOrder, item.kind = "item", Passed(item, m)'
        PROVE  Accounted(item, m)'
    <3>1. CASE Passed(item, m)
      <4>1. Accounted(item, m)
        BY <1>1, <2>2, <3>1 DEF AnalysisInv, PassedAccounted
      <4>. QED  BY <2>1, <4>1, AccountedStays
    <3>2. CASE item = O!Item /\ m = next
      <4>1. r \in O!ToSet(operations)'
        BY <1>10, Zenon DEF O!ToSet
      <4>2. r \in O!ResultOf(item, MethodOrder[m])'
        BY <1>5, <3>2, <4>1, Zenon DEF O!ResultOf
      <4>3. O!Resolves(item)' /\ item.root = "object"
        BY <1>1, <3>2, Zenon DEF O!Resolves
      <4>. QED  BY <1>5, <4>2, <4>3, Zenon DEF Accounted
    <3>. QED  BY <1>13, <2>2, <3>1, <3>2
  <2>. QED  BY <1>2, <2>2, Zenon DEF PassedAccounted
<1>18. O!BaseUrlExplained'
  BY DEF AnalysisInv, O!BaseUrlExplained, O!ToSet
<1>. QED  BY <1>11, <1>12, <1>15, <1>16, <1>17, <1>18, Zenon DEF AnalysisInv

(* What a change of the status leaves alone. *)
LEMMA StatusStep ==
  ASSUME O!AnalysisAssumption, AnalysisInv,
         document' = document, pending' = pending, next' = next, operations' = operations,
         diagnostics' \in Seq(Diagnostics),
         status' \in {status, "crashed"} \/ (status' = "done" /\ pending = {}),
         status' = "crashed" => O!Fatal',
         PassedAccounted', O!BaseUrlExplained'
  PROVE  AnalysisInv'
<1>1. O!Item' = O!Item /\ O!Items' = O!Items
  BY Zenon DEF O!Item, O!Items, O!ToSet
<1>2. Results' = Results
  BY <1>1, ResultsStay
<1>3. AnalysisTypes'
  BY <1>1, <1>2 DEF AnalysisInv, AnalysisTypes
<1>4. PlaceHolds'
  <2>1. O!Resolves(O!Item)' <=> O!Resolves(O!Item)
    BY <1>1, Zenon DEF O!Resolves
  <2>. QED  BY <1>1, <2>1 DEF AnalysisInv, PlaceHolds
<1>5. \A item, m : Passed(item, m)' <=> Passed(item, m)
  BY <1>1, Zenon DEF Passed
<1>6. ASSUME NEW i \in DOMAIN operations'
      PROVE  ResultHolds(i)'
  <2>1. ResultHolds(i)
    BY DEF AnalysisInv
  <2>. QED  BY <1>1, <1>5, <2>1, Zenon DEF ResultHolds, Converts, O!Resolves
<1>7. OrderHolds'
  BY Zenon DEF AnalysisInv, OrderHolds, O!Before, O!Place
<1>. QED  BY <1>3, <1>4, <1>6, <1>7, Zenon DEF AnalysisInv

(* The analysis of an operation keeps the invariant. *)
LEMMA AnalyzeOperationKeeps ==
  ASSUME O!AnalysisAssumption, AnalysisInv, O!AnalyzeOperation
  PROVE  AnalysisInv'
<1>1. /\ document' = document /\ pending' = pending /\ diagnostics' = diagnostics
      /\ baseUrl' = baseUrl /\ O!LoopingMethods
  BY DEF O!AnalyzeOperation
<1>2. CASE O!Found.shape = "object" /\ O!Found.outcome = "crash"
  <2>1. status' = "crashed" /\ operations' = operations /\ next' = next
    BY <1>2 DEF O!AnalyzeOperation
  <2>2. PassedAccounted' /\ O!BaseUrlExplained'
    BY <2>1 DEF PassedAccounted, O!BaseUrlExplained
  <2>3. diagnostics' \in Seq(Diagnostics)
    BY <1>1 DEF AnalysisInv, AnalysisTypes
  <2>4. O!Looping /\ O!Item.kind = "item" /\ O!Resolves(O!Item) /\ next <= Len(MethodOrder)
    BY <1>1 DEF O!LoopingMethods
  <2>5. O!Item \in O!Items /\ MethodOrder[next] \in O!ToSet(MethodOrder)
    BY <2>4, ItemFacts, MethodFacts
  <2>6. O!Fatal
    BY <1>2, <2>4, <2>5, Zenon DEF O!Fatal, O!Found, O!Method
  <2>. QED  BY <1>1, <2>1, <2>2, <2>3, <2>6, FatalStays, StatusStep
<1>3. CASE ~(O!Found.shape = "object" /\ O!Found.outcome = "crash")
  <2>1. operations' = Append(operations, O!Analyzed) /\ next' = next + 1 /\ status' = status
    BY <1>3 DEF O!AnalyzeOperation
  <2>. QED  BY <1>1, <2>1, AppendResultKeeps
<1>. QED  BY <1>2, <1>3

(* An item that leads to no object keeps the invariant. *)
LEMMA OddItemKeeps ==
  ASSUME O!AnalysisAssumption, AnalysisInv, O!OddItem
  PROVE  AnalysisInv'
<1>1. /\ document' = document /\ pending' = pending /\ next' = next /\ operations' = operations
      /\ diagnostics' = diagnostics /\ baseUrl' = baseUrl /\ status' = "crashed" /\ O!Looping
      /\ O!Item.kind = "item" /\ O!Resolves(O!Item) /\ O!Item.root # "object"
  BY DEF O!OddItem
<1>2. O!Item \in O!Items
  BY <1>1, ItemFacts
<1>3. O!Fatal
  BY <1>1, <1>2, Zenon DEF O!Fatal
<1>4. PassedAccounted' /\ O!BaseUrlExplained'
  BY <1>1 DEF PassedAccounted, O!BaseUrlExplained
<1>5. diagnostics' \in Seq(Diagnostics)
  BY <1>1 DEF AnalysisInv, AnalysisTypes
<1>. QED  BY <1>1, <1>3, <1>4, <1>5, FatalStays, StatusStep

(* The end of the analysis keeps the invariant. *)
LEMMA FinishKeeps ==
  ASSUME O!AnalysisAssumption, AnalysisInv, O!Finish
  PROVE  AnalysisInv'
<1>1. /\ document' = document /\ pending' = pending /\ next' = next /\ operations' = operations
      /\ baseUrl' = baseUrl /\ status = "running" /\ status' = "done" /\ pending = {}
  BY DEF O!Finish
<1>2. /\ diagnostics' \in Seq(Diagnostics)
      /\ O!ToSet(diagnostics) \subseteq O!ToSet(diagnostics')
      /\ O!BaseUrlExplained'
  <2>1. CASE diagnostics' = diagnostics
    BY <1>1, <2>1 DEF AnalysisInv, AnalysisTypes, O!BaseUrlExplained, O!ToSet
  <2>2. CASE diagnostics' = Append(diagnostics, O!Diagnostic("no_convertible_operations", 0))
    <3>1. "no_convertible_operations" \in LoopCodes /\ status' \in {"running", "done"} /\ 0 \in Nat
      BY <1>1 DEF LoopCodes
    <3>. QED  BY <1>1, <2>2, <3>1, DiagnosticAdded
  <2>. QED  BY <2>1, <2>2 DEF O!Finish
<1>3. PassedAccounted'
  <2>1. O!Items' = O!Items
    BY <1>1, Zenon DEF O!Items, O!ToSet
  <2>2. ASSUME NEW item \in O!Items, NEW m \in DOMAIN MethodOrder, item.kind = "item"
        PROVE  Accounted(item, m)'
    <3>1. Accounted(item, m)
      BY <1>1, <2>2 DEF AnalysisInv, PassedAccounted, Passed
    <3>. QED  BY <1>1, <1>2, <3>1, AccountedStays
  <2>. QED  BY <2>1, <2>2, Zenon DEF PassedAccounted
<1>. QED  BY <1>1, <1>2, <1>3, StatusStep

(* What the invariant says about names. *)
LEMMA NamesHold ==
  ASSUME O!AnalysisAssumption, AnalysisInv
  PROVE  O!NamesUnique /\ O!FirstClaims
<1> DEFINE n == Len(operations)
<1>1. n \in Nat /\ DOMAIN operations = 1 .. n
  BY DEF AnalysisInv, AnalysisTypes
<1>2. \A i \in DOMAIN operations : operations[i].path \in Nat /\ operations[i].tool \in BOOLEAN
  <2>1. \A i \in DOMAIN operations : operations[i] \in Results
    BY DEF AnalysisInv, AnalysisTypes
  <2>. QED  BY <2>1 DEF Results
<1> HIDE DEF n
<1>3. ASSUME NEW i \in DOMAIN operations, NEW j \in DOMAIN operations, j < i
      PROVE  /\ O!Before(operations[j], operations[i])
             /\ operations[i].tool /\ operations[j].tool => operations[i].name # operations[j].name
  <2>1. j \in 1 .. i - 1
    BY <1>1, <1>3
  <2>. QED  BY <2>1 DEF AnalysisInv, OrderHolds
<1>4. O!NamesUnique
  <2>1. \A i, j \in DOMAIN operations : i = j \/ i < j \/ j < i
    BY <1>1
  <2>. QED  BY <1>3, <2>1 DEF O!NamesUnique
<1>5. \A i \in DOMAIN operations : O!Place(operations[i].method) \in Nat
  <2> SUFFICES ASSUME NEW i \in DOMAIN operations
               PROVE  O!Place(operations[i].method) \in Nat
    OBVIOUS
  <2>1. PICK m \in DOMAIN MethodOrder : operations[i].method = MethodOrder[m]
    BY DEF AnalysisInv, ResultHolds
  <2>2. O!Place(operations[i].method) = m /\ m \in Nat
    BY <2>1, PlaceOfMethod, MethodFacts
  <2>. QED  BY <2>2
<1>6. ASSUME NEW i \in DOMAIN operations, NEW j \in DOMAIN operations,
             O!Before(operations[j], operations[i])
      PROVE  j < i
  <2>1. O!Place(operations[i].method) \in Nat /\ O!Place(operations[j].method) \in Nat
    BY <1>5
  <2>2. operations[i].path \in Nat /\ operations[j].path \in Nat
    BY <1>2
  <2>3. ~O!Before(operations[i], operations[j])
    BY <1>6, <2>1, <2>2 DEF O!Before
  <2>4. i # j
    BY <1>6, <2>3
  <2>5. ~(i < j)
    BY <1>3, <2>3
  <2>. QED  BY <1>1, <2>4, <2>5
<1>7. ASSUME NEW item \in O!Items, NEW m \in O!ToSet(MethodOrder), NEW r \in O!ResultOf(item, m),
             item.ops[m].shape = "object", item.ops[m].outcome = "tool"
      PROVE  ~r.tool <=> \E s \in O!ToSet(operations) : s.tool /\ s.name = r.name /\ O!Before(s, r)
  <2>1. PICK i \in DOMAIN operations : r = operations[i] /\ r.path = item.path /\ r.method = m
    BY Zenon DEF O!ResultOf, O!ToSet
  <2>2. ASSUME ~r.tool
        PROVE  \E s \in O!ToSet(operations) : s.tool /\ s.name = r.name /\ O!Before(s, r)
    <3>1. PICK other \in O!Items, k \in DOMAIN MethodOrder :
            /\ operations[i].path = other.path /\ operations[i].method = MethodOrder[k]
            /\ Converts(other, k) /\ ~operations[i].tool =>
                 \E j \in 1 .. i - 1 : operations[j].tool /\ operations[j].name = operations[i].name
      BY DEF AnalysisInv, ResultHolds
    <3>2. other = item
      BY <2>1, <3>1, ItemsOfDocument DEF AnalysisInv, AnalysisTypes
    <3>3. Converts(other, k)
      BY <1>7, <2>1, <3>1, <3>2 DEF Converts
    <3>4. PICK j \in 1 .. i - 1 : operations[j].tool /\ operations[j].name = operations[i].name
      BY <2>1, <2>2, <3>1, <3>3
    <3>5. j \in DOMAIN operations /\ j < i
      BY <1>1
    <3>6. operations[j] \in O!ToSet(operations) /\ O!Before(operations[j], operations[i])
      BY <1>3, <3>5, Zenon DEF O!ToSet
    <3>. QED  BY <2>1, <3>4, <3>6
  <2>3. ASSUME NEW s \in O!ToSet(operations), s.tool, s.name = r.name, O!Before(s, r)
        PROVE  ~r.tool
    <3>1. PICK j \in DOMAIN operations : s = operations[j]
      BY Zenon DEF O!ToSet
    <3>2. j < i
      BY <1>6, <2>1, <2>3, <3>1
    <3>. QED  BY <1>3, <2>1, <2>3, <3>1, <3>2
  <2>. QED  BY <2>2, <2>3
<1>8. O!FirstClaims
  BY <1>7, Zenon DEF O!FirstClaims
<1>. QED  BY <1>4, <1>8

(* When the analysis is done, every method has been passed, and results    *)
(* are only of items that resolve.                                         *)
LEMMA DoneAccounted ==
  ASSUME O!AnalysisAssumption, AnalysisInv
  PROVE  O!EveryOperationAccounted
<1>1. status = "crashed" => O!Fatal
  BY DEF AnalysisInv, PlaceHolds
<1>2. ASSUME status = "done", NEW item \in O!Items, item.kind = "item", NEW m \in O!ToSet(MethodOrder)
      PROVE  IF O!Resolves(item)
             THEN /\ item.root = "object"
                  /\ \/ item.ops[m].shape = "absent"
                     \/ \E r \in O!ResultOf(item, m) : r.tool \/ r.codes # {}
                     \/ /\ Len(operations) >= MaxOperations
                        /\ O!Diagnostic("operation_limit_exceeded", item.path) \in O!ToSet(diagnostics)
             ELSE /\ O!ResultOf(item, m) = {}
                  /\ \E d \in O!ToSet(diagnostics) : d.code = "unresolved" /\ d.path \in {0, item.path}
  <2>1. PICK k \in DOMAIN MethodOrder : m = MethodOrder[k]
    BY Zenon DEF O!ToSet
  <2>2. Passed(item, k)
    BY <1>2 DEF AnalysisInv, PlaceHolds, Passed
  <2>3. Accounted(item, k)
    BY <1>2, <2>2 DEF AnalysisInv, PassedAccounted
  <2>4. ASSUME NEW r \in O!ResultOf(item, m)
        PROVE  O!Resolves(item)
    <3>1. PICK i \in DOMAIN operations : r = operations[i] /\ r.path = item.path
      BY Zenon DEF O!ResultOf, O!ToSet
    <3>2. PICK other \in O!Items : O!Resolves(other) /\ operations[i].path = other.path
      BY DEF AnalysisInv, ResultHolds
    <3>3. other = item
      BY <3>1, <3>2, ItemsOfDocument DEF AnalysisInv, AnalysisTypes
    <3>. QED  BY <3>2, <3>3
  <2>. QED  BY <2>1, <2>3, <2>4, Zenon DEF Accounted
<1>. QED  BY <1>1, <1>2, Zenon DEF O!EveryOperationAccounted

(* The inductive step of the analysis. *)
LEMMA AnalysisStep ==
  ASSUME O!AnalysisAssumption, AnalysisInv, [O!Next]_(O!vars)
  PROVE  AnalysisInv'
<1>1. CASE UNCHANGED O!vars
  <2>1. /\ document' = document /\ pending' = pending /\ next' = next /\ operations' = operations
        /\ diagnostics' = diagnostics /\ baseUrl' = baseUrl /\ status' = status
    BY <1>1 DEF O!vars
  <2>2. O!Item' = O!Item /\ O!Items' = O!Items
    BY <2>1, Zenon DEF O!Item, O!Items, O!ToSet
  <2>3. PassedAccounted'
    <3>1. ASSUME NEW item, NEW m, Accounted(item, m)
          PROVE  Accounted(item, m)'
      BY <2>1, <3>1, AccountedStays
    <3>2. \A item, m : Passed(item, m)' <=> Passed(item, m)
      BY <2>1, <2>2, Zenon DEF Passed
    <3>. QED  BY <2>1, <2>2, <3>1, <3>2, Zenon DEF AnalysisInv, PassedAccounted
  <2>4. O!BaseUrlExplained' /\ diagnostics' \in Seq(Diagnostics)
    BY <2>1 DEF AnalysisInv, AnalysisTypes, O!BaseUrlExplained, O!ToSet
  <2>5. status' = "crashed" => O!Fatal'
    BY <2>1, FatalStays DEF AnalysisInv, PlaceHolds
  <2>. QED  BY <2>1, <2>3, <2>4, <2>5, StatusStep
<1>. QED  BY <1>1, BeginKeeps, SkipItemKeeps, UnresolvedItemKeeps, OddItemKeeps, EndItemKeeps,
             SkipMethodKeeps, StopAtLimitKeeps, AnalyzeOperationKeeps, FinishKeeps DEF O!Next

(* analyze_document accounts for every operation, and gives a name to the  *)
(* first operation that has it.                                            *)
LEMMA AnalysisKeeps ==
  ASSUME O!AnalysisAssumption
  PROVE  O!Spec => [](/\ O!NamesUnique
                      /\ O!FirstClaims
                      /\ O!EveryOperationAccounted
                      /\ O!BaseUrlExplained)
<1>1. O!Init => AnalysisInv
  <2> SUFFICES ASSUME O!Init PROVE AnalysisInv
    OBVIOUS
  <2>1. /\ document \in Documents /\ pending = {} /\ next = 1 /\ operations = <<>>
        /\ diagnostics = <<>> /\ status = "start"
    BY DEF O!Init
  <2>2. AnalysisTypes
    BY <2>1, MethodFacts DEF AnalysisTypes
  <2>3. PlaceHolds /\ OrderHolds /\ \A i \in DOMAIN operations : ResultHolds(i)
    BY <2>1 DEF PlaceHolds, OrderHolds
  <2>4. PassedAccounted /\ O!BaseUrlExplained
    BY <2>1 DEF PassedAccounted, O!BaseUrlExplained
  <2>. QED  BY <2>2, <2>3, <2>4 DEF AnalysisInv
<1>2. AnalysisInv /\ [O!Next]_(O!vars) => AnalysisInv'
  BY AnalysisStep
<1>3. AnalysisInv => /\ O!NamesUnique
                     /\ O!FirstClaims
                     /\ O!EveryOperationAccounted
                     /\ O!BaseUrlExplained
  BY NamesHold, DoneAccounted DEF AnalysisInv
<1>. QED  BY <1>1, <1>2, <1>3, PTL DEF O!Spec

-----------------------------------------------------------------------------
(* Naming.  Again a recursion over a text is an appeal to the least place  *)
(* at which a claim would fail.                                            *)

(* What a name is made of. *)
Plain(c) == N!IsLower(c) \/ c \in Digits \/ c = N!Underscore

(* No separator at the start, and no two in a row. *)
Tidy(s) ==
  /\ \A i \in 1 .. Len(s) : Plain(s[i])
  /\ Len(s) > 0 => s[1] # N!Underscore
  /\ \A i \in 1 .. Len(s) - 1 : ~(s[i] = N!Underscore /\ s[i + 1] = N!Underscore)

(* Nor one at the end. *)
Snake(s) == Tidy(s) /\ (Len(s) > 0 => s[Len(s)] # N!Underscore)

(* The classes of characters. *)
LEMMA CharacterFacts ==
  ASSUME N!NamingAssumption
  PROVE  /\ N!Underscore \in Separators /\ Plain(N!Underscore)
         /\ \A c : c \notin Separators => Plain(N!Lower(c)) /\ N!Lower(c) # N!Underscore
         /\ \A c : Plain(c) => N!Lower(c) = c /\ c \notin Upper /\ (c \in Separators <=> c = N!Underscore)
         /\ \A c : N!IsLower(c) => Plain(c) /\ c # N!Underscore /\ c \notin Digits
<1>1. /\ N!Underscore \in Separators /\ (Upper \cup Digits) \cap Separators = {} /\ Upper \cap Digits = {}
      /\ \A c \in {LowerOf[u] : u \in Upper} : N!IsLower(c)
  BY Zenon DEF N!NamingAssumption
<1>2. \A c : N!IsLower(c) <=> c \notin Upper /\ c \notin Digits /\ c \notin Separators
  BY DEF N!IsLower
<1>3. \A c : N!Lower(c) = IF c \in Upper THEN LowerOf[c] ELSE c
  BY DEF N!Lower
<1>4. \A u \in Upper : N!IsLower(LowerOf[u])
  BY <1>1
<1>. QED  BY <1>1, <1>2, <1>3, <1>4 DEF Plain

(* A character more. *)
LEMMA TidyAppend ==
  ASSUME NEW S, NEW s \in Seq(S), NEW c \in S, Tidy(s), Plain(c),
         c = N!Underscore => Len(s) > 0 /\ s[Len(s)] # N!Underscore
  PROVE  Append(s, c) \in Seq(S) /\ Tidy(Append(s, c))
<1> DEFINE t == Append(s, c)
           n == Len(s)
<1>1. n \in Nat /\ t \in Seq(S) /\ Len(t) = n + 1 /\ t[n + 1] = c
  OBVIOUS
<1>2. \A i \in 1 .. n : t[i] = s[i]
  OBVIOUS
<1>3. /\ \A i \in 1 .. n : Plain(s[i])
      /\ n > 0 => s[1] # N!Underscore
      /\ \A i \in 1 .. n - 1 : ~(s[i] = N!Underscore /\ s[i + 1] = N!Underscore)
      /\ c = N!Underscore => n > 0 /\ s[n] # N!Underscore
  BY DEF Tidy
<1> HIDE DEF t, n
<1>4. ASSUME NEW i \in 1 .. n + 1
      PROVE  Plain(t[i])
  <2>1. i \in 1 .. n \/ i = n + 1
    BY <1>1
  <2>. QED  BY <1>1, <1>2, <1>3, <2>1
<1>5. t[1] # N!Underscore
  <2>1. n = 0 \/ 1 \in 1 .. n
    BY <1>1
  <2>. QED  BY <1>1, <1>2, <1>3, <2>1
<1>6. ASSUME NEW i \in 1 .. n, t[i] = N!Underscore, t[i + 1] = N!Underscore
      PROVE  FALSE
  <2>1. (i \in 1 .. n - 1 /\ i + 1 \in 1 .. n) \/ i = n
    BY <1>1
  <2>. QED  BY <1>1, <1>2, <1>3, <1>6, <2>1
<1>7. Len(t) - 1 = n
  BY <1>1
<1>8. Tidy(t)
  BY <1>1, <1>4, <1>5, <1>6, <1>7 DEF Tidy
<1>. QED  BY <1>1, <1>8 DEF t

(* A separator more. *)
LEMMA TidySeparated ==
  ASSUME N!NamingAssumption, NEW S, N!Underscore \in S, NEW s \in Seq(S), Tidy(s)
  PROVE  N!Separated(s) \in Seq(S) /\ Tidy(N!Separated(s))
<1>1. CASE s = <<>> \/ s[Len(s)] = N!Underscore
  <2>1. N!Separated(s) = s
    BY <1>1 DEF N!Separated
  <2>. QED  BY <2>1
<1>2. CASE s # <<>> /\ s[Len(s)] # N!Underscore
  <2>1. N!Separated(s) = Append(s, N!Underscore)
    BY <1>2 DEF N!Separated
  <2>2. Len(s) > 0
    BY <1>2, EmptySeq
  <2>. QED  BY <1>2, <2>1, <2>2, TidyAppend, CharacterFacts
<1>. QED  BY <1>1, <1>2

(* What a character of the text adds. *)
LEMMA TidySpaced ==
  ASSUME N!NamingAssumption, NEW S, N!Underscore \in S, NEW s \in Seq(S), Tidy(s),
         NEW text, NEW i, N!Lower(text[i]) \in S
  PROVE  N!Spaced(s, text, i) \in Seq(S) /\ Tidy(N!Spaced(s, text, i))
<1>1. CASE text[i] \in Separators
  BY <1>1, TidySeparated DEF N!Spaced
<1>2. CASE text[i] \notin Separators
  <2>1. PICK t : t = IF N!Boundary(text, i) THEN N!Separated(s) ELSE s
    OBVIOUS
  <2>2. t \in Seq(S) /\ Tidy(t)
    BY <2>1, TidySeparated
  <2>3. N!Spaced(s, text, i) = Append(t, N!Lower(text[i]))
    BY <1>2, <2>1, Zenon DEF N!Spaced
  <2>4. Plain(N!Lower(text[i])) /\ N!Lower(text[i]) # N!Underscore
    BY <1>2, CharacterFacts
  <2>. QED  BY <2>2, <2>3, <2>4, TidyAppend
<1>. QED  BY <1>1, <1>2

(* A separator at the end is taken away. *)
LEMMA StripRightSnake ==
  ASSUME NEW S, NEW s \in Seq(S), Tidy(s)
  PROVE  /\ N!StripRight(s) \in Seq(S) /\ Snake(N!StripRight(s))
         /\ Len(N!StripRight(s)) <= Len(s)
         /\ Len(s) > 0 => Len(N!StripRight(s)) > 0 /\ N!StripRight(s)[1] = s[1]
<1> DEFINE n == Len(s)
<1>1. n \in Nat /\ (s # <<>> <=> n > 0)
  BY EmptySeq
<1>2. CASE ~(s # <<>> /\ s[n] = N!Underscore)
  <2>1. N!StripRight(s) = s
    BY <1>2 DEF N!StripRight
  <2>. QED  BY <1>1, <1>2, <2>1 DEF Snake
<1>3. CASE s # <<>> /\ s[n] = N!Underscore
  <2> DEFINE t == SubSeq(s, 1, n - 1)
  <2>1. N!StripRight(s) = t
    BY <1>3 DEF N!StripRight
  <2>2. n > 1
    BY <1>1, <1>3 DEF Tidy
  <2>3. \A i \in 1 .. n - 1 : s[i] \in S
    BY <1>1
  <2>4. t \in Seq(S) /\ Len(t) = n - 1 /\ \A i \in 1 .. n - 1 : t[i] = s[i]
    BY <1>1, <2>2, <2>3, SubSeqProperties
  <2>5. /\ \A i \in 1 .. n : Plain(s[i])
        /\ s[1] # N!Underscore
        /\ \A i \in 1 .. n - 1 : ~(s[i] = N!Underscore /\ s[i + 1] = N!Underscore)
    BY <1>1, <2>2 DEF Tidy
  <2>6. s[n] = N!Underscore /\ n \in Nat
    BY <1>1, <1>3
  <2> HIDE DEF t, n
  <2>7. t[1] = s[1] /\ t[n - 1] # N!Underscore
    <3>1. 1 \in 1 .. n - 1 /\ n - 1 \in 1 .. n - 1 /\ (n - 1) + 1 = n
      BY <2>2, <2>6
    <3>2. t[n - 1] = s[n - 1] /\ t[1] = s[1]
      BY <2>4, <3>1
    <3>3. ~(s[n - 1] = N!Underscore /\ s[(n - 1) + 1] = N!Underscore)
      BY <2>5, <3>1
    <3>. QED  BY <2>6, <3>1, <3>2, <3>3
  <2>8. Tidy(t)
    <3>1. \A i \in 1 .. n - 1 : Plain(t[i])
      BY <2>4, <2>5, <2>6
    <3>2. \A i \in 1 .. (n - 1) - 1 : ~(t[i] = N!Underscore /\ t[i + 1] = N!Underscore)
      BY <2>4, <2>5, <2>6
    <3>. QED  BY <2>4, <2>5, <2>7, <3>1, <3>2 DEF Tidy
  <2>. QED  BY <2>1, <2>2, <2>4, <2>6, <2>7, <2>8 DEF Snake, n
<1>. QED  BY <1>2, <1>3

-----------------------------------------------------------------------------
(* f is what comes of the first characters of a text. *)
SpacedRun(f, text, n) ==
  f = [i \in 0 .. n |-> IF i = 0 THEN <<>> ELSE N!Spaced(f[i - 1], text, i)]

(* The recursion of SnakeCase defines a function. *)
LEMMA SpacedRunExists ==
  ASSUME NEW text
  PROVE  \A n \in Nat : \E f : SpacedRun(f, text, n)
<1> DEFINE bad == {n \in Nat : ~ \E f : SpacedRun(f, text, n)}
<1> SUFFICES ASSUME bad # {} PROVE FALSE
  OBVIOUS
<1>1. PICK n \in bad : \A k \in bad : n <= k
  <2>1. bad \in SUBSET Nat
    OBVIOUS
  <2> HIDE DEF bad
  <2>. QED  BY <2>1, LeastNat
<1>2. n \in Nat /\ ~ \E f : SpacedRun(f, text, n)
  OBVIOUS
<1>3. n # 0
  <2>1. SpacedRun([i \in 0 .. 0 |-> <<>>], text, 0)
    BY DEF SpacedRun
  <2>. QED  BY <1>2, <2>1
<1>4. n - 1 \in Nat /\ n - 1 \notin bad
  BY <1>1, <1>2, <1>3
<1>5. PICK f : SpacedRun(f, text, n - 1)
  BY <1>4
<1> DEFINE g == [i \in 0 .. n |-> IF i = n THEN N!Spaced(f[n - 1], text, n) ELSE f[i]]
<1>6. SpacedRun(g, text, n)
  <2>1. ASSUME NEW i \in 0 .. n
        PROVE  g[i] = IF i = 0 THEN <<>> ELSE N!Spaced(g[i - 1], text, i)
    <3>1. i # 0 => i - 1 \in 0 .. n /\ g[i - 1] = f[i - 1]
      BY <1>2
    <3>2. CASE i = n
      BY <1>3, <3>1, <3>2
    <3>3. CASE i # n
      <4>1. i \in 0 .. (n - 1) /\ g[i] = f[i]
        BY <1>2, <3>3
      <4>2. f[i] = IF i = 0 THEN <<>> ELSE N!Spaced(f[i - 1], text, i)
        BY <1>5, <4>1 DEF SpacedRun
      <4>. QED  BY <3>1, <4>1, <4>2
    <3>. QED  BY <3>2, <3>3
  <2>2. g = [i \in 0 .. n |-> g[i]]
    OBVIOUS
  <2> HIDE DEF g
  <2>. QED  BY <2>1, <2>2 DEF SpacedRun
<1>. QED  BY <1>2, <1>6

(* So SnakeCase is what comes of the whole text. *)
LEMMA SnakeCaseIsRun ==
  ASSUME NEW text, Len(text) \in Nat
  PROVE  \E f : SpacedRun(f, text, Len(text)) /\ N!SnakeCase(text) = N!StripRight(f[Len(text)])
<1> DEFINE run == CHOOSE f : SpacedRun(f, text, Len(text))
<1>1. SpacedRun(run, text, Len(text))
  BY SpacedRunExists
<1>2. N!SnakeCase(text) = N!StripRight(run[Len(text)])
  BY DEF N!SnakeCase, SpacedRun
<1>. QED  BY <1>1, <1>2

(* What comes of a text is tidy at every place. *)
LEMMA SpacedRunTidy ==
  ASSUME N!NamingAssumption, NEW S, N!Underscore \in S, NEW text, Len(text) \in Nat,
         \A i \in 1 .. Len(text) : N!Lower(text[i]) \in S,
         NEW f, SpacedRun(f, text, Len(text))
  PROVE  \A i \in 0 .. Len(text) : f[i] \in Seq(S) /\ Tidy(f[i])
<1> DEFINE bad == {i \in 0 .. Len(text) : ~(f[i] \in Seq(S) /\ Tidy(f[i]))}
<1> SUFFICES ASSUME bad # {} PROVE FALSE
  OBVIOUS
<1>1. PICK i \in bad : \A k \in bad : i <= k
  <2>1. bad \in SUBSET Nat
    OBVIOUS
  <2> HIDE DEF bad
  <2>. QED  BY <2>1, LeastNat
<1>2. i \in 0 .. Len(text) /\ ~(f[i] \in Seq(S) /\ Tidy(f[i]))
  OBVIOUS
<1>3. f[i] = IF i = 0 THEN <<>> ELSE N!Spaced(f[i - 1], text, i)
  BY <1>2 DEF SpacedRun
<1>4. CASE i = 0
  <2>1. f[i] = <<>>
    BY <1>3, <1>4
  <2>. QED  BY <1>2, <2>1 DEF Tidy
<1>5. CASE i # 0
  <2>1. i - 1 \in 0 .. Len(text) /\ i - 1 \notin bad /\ i \in 1 .. Len(text)
    BY <1>1, <1>2, <1>5
  <2>2. f[i - 1] \in Seq(S) /\ Tidy(f[i - 1])
    BY <2>1
  <2>3. f[i] = N!Spaced(f[i - 1], text, i)
    BY <1>3, <1>5
  <2> HIDE DEF bad
  <2>. QED  BY <1>2, <2>1, <2>2, <2>3, TidySpaced
<1>. QED  BY <1>4, <1>5

(* _snake_case of an identifier or a segment. *)
LEMMA SnakeCaseSnake ==
  ASSUME N!NamingAssumption, NEW text \in Seq(Characters)
  PROVE  N!SnakeCase(text) \in Seq(N!Alphabet) /\ Snake(N!SnakeCase(text))
<1>1. Len(text) \in Nat /\ \A i \in 1 .. Len(text) : text[i] \in Characters
  OBVIOUS
<1>2. N!Underscore \in N!Alphabet /\ \A i \in 1 .. Len(text) : N!Lower(text[i]) \in N!Alphabet
  BY <1>1 DEF N!Alphabet
<1>3. PICK f : SpacedRun(f, text, Len(text)) /\ N!SnakeCase(text) = N!StripRight(f[Len(text)])
  BY <1>1, SnakeCaseIsRun
<1>4. f[Len(text)] \in Seq(N!Alphabet) /\ Tidy(f[Len(text)])
  <2>1. Len(text) \in 0 .. Len(text)
    BY <1>1
  <2>. QED  BY <1>1, <1>2, <1>3, <2>1, SpacedRunTidy
<1>. QED  BY <1>3, <1>4, StripRightSnake

-----------------------------------------------------------------------------
(* The first characters of a text, one more of them. *)
LEMMA SubSeqExtend ==
  ASSUME NEW S, NEW s \in Seq(S), NEW i \in 1 .. Len(s)
  PROVE  SubSeq(s, 1, i) = Append(SubSeq(s, 1, i - 1), s[i])
<1> DEFINE n == Len(s)
           p == SubSeq(s, 1, i - 1)
           q == SubSeq(s, 1, i)
<1>1. n \in Nat /\ i \in Nat /\ i >= 1 /\ i <= n /\ \A j \in 1 .. n : s[j] \in S
  OBVIOUS
<1>2. p \in Seq(S) /\ Len(p) = i - 1 /\ \A j \in 1 .. i - 1 : p[j] = s[j]
  BY <1>1, SubSeqProperties
<1>3. q \in Seq(S) /\ Len(q) = i /\ \A j \in 1 .. i : q[j] = s[j]
  BY <1>1, SubSeqProperties
<1> HIDE DEF p, q, n
<1>4. Append(p, s[i]) \in Seq(S) /\ Len(Append(p, s[i])) = i
  BY <1>1, <1>2
<1>5. \A j \in 1 .. i : Append(p, s[i])[j] = q[j]
  BY <1>1, <1>2, <1>3
<1>. QED  BY <1>3, <1>4, <1>5, SeqEqual DEF p, q

(* A separator is added where there is none yet. *)
LEMMA SpacedSnake ==
  ASSUME N!NamingAssumption, NEW S, NEW text \in Seq(S), Snake(text), NEW i \in 1 .. Len(text)
  PROVE  N!Spaced(SubSeq(text, 1, i - 1), text, i) = SubSeq(text, 1, i)
<1> DEFINE p == SubSeq(text, 1, i - 1)
<1>1. /\ Len(text) \in Nat /\ i \in Nat /\ i >= 1 /\ i <= Len(text)
      /\ \A j \in 1 .. Len(text) : text[j] \in S
  OBVIOUS
<1>2. p \in Seq(S) /\ Len(p) = i - 1 /\ \A j \in 1 .. i - 1 : p[j] = text[j]
  BY <1>1, SubSeqProperties
<1>3. SubSeq(text, 1, i) = Append(p, text[i])
  BY SubSeqExtend
<1> HIDE DEF p
<1>4. Plain(text[i]) /\ N!Lower(text[i]) = text[i] /\ text[i] \notin Upper
      /\ (text[i] \in Separators <=> text[i] = N!Underscore)
  BY CharacterFacts DEF Snake, Tidy
<1>5. ~ N!Boundary(text, i)
  BY <1>4 DEF N!Boundary
<1>6. CASE text[i] = N!Underscore
  <2>1. i > 1 /\ i - 1 \in 1 .. Len(text) - 1 /\ (i - 1) + 1 = i
    BY <1>1, <1>6 DEF Snake, Tidy
  <2>2. text[i - 1] # N!Underscore
    <3>1. ~(text[i - 1] = N!Underscore /\ text[(i - 1) + 1] = N!Underscore)
      BY <2>1 DEF Snake, Tidy
    <3>. QED  BY <1>6, <2>1, <3>1
  <2>3. p # <<>> /\ p[Len(p)] # N!Underscore
    BY <1>1, <1>2, <2>1, <2>2
  <2>4. N!Separated(p) = Append(p, N!Underscore)
    BY <2>3 DEF N!Separated
  <2>5. N!Spaced(p, text, i) = N!Separated(p)
    BY <1>4, <1>6 DEF N!Spaced
  <2>. QED  BY <1>3, <1>6, <2>4, <2>5 DEF p
<1>7. CASE text[i] # N!Underscore
  <2>1. N!Spaced(p, text, i) = Append(p, text[i])
    BY <1>4, <1>5, <1>7 DEF N!Spaced
  <2>. QED  BY <1>3, <2>1 DEF p
<1>. QED  BY <1>6, <1>7

(* _snake_case leaves alone what is in its form. *)
LEMMA SnakeFixed ==
  ASSUME N!NamingAssumption, NEW S, NEW text \in Seq(S), Snake(text)
  PROVE  N!SnakeCase(text) = text
<1> DEFINE n == Len(text)
<1>1. n \in Nat
  OBVIOUS
<1>2. PICK f : SpacedRun(f, text, n) /\ N!SnakeCase(text) = N!StripRight(f[n])
  BY <1>1, SnakeCaseIsRun
<1>3. \A i \in 0 .. n : f[i] = SubSeq(text, 1, i)
  <2> DEFINE bad == {i \in 0 .. n : f[i] # SubSeq(text, 1, i)}
  <2> SUFFICES ASSUME bad # {} PROVE FALSE
    OBVIOUS
  <2>1. PICK i \in bad : \A k \in bad : i <= k
    <3>1. bad \in SUBSET Nat
      BY <1>1
    <3> HIDE DEF bad
    <3>. QED  BY <3>1, LeastNat
  <2>2. i \in 0 .. n /\ f[i] # SubSeq(text, 1, i)
    OBVIOUS
  <2>3. f[i] = IF i = 0 THEN <<>> ELSE N!Spaced(f[i - 1], text, i)
    BY <2>2, <1>2 DEF SpacedRun
  <2>4. CASE i = 0
    <3>1. SubSeq(text, 1, 0) = <<>>
      <4>1. SubSeq(text, 1, 0) \in Seq(S) /\ Len(SubSeq(text, 1, 0)) = 0
        BY SubSeqProperties
      <4>. QED  BY <4>1, EmptySeq
    <3>. QED  BY <2>2, <2>3, <2>4, <3>1
  <2>5. CASE i # 0
    <3>1. i - 1 \in 0 .. n /\ i - 1 \notin bad /\ i \in 1 .. n
      BY <1>1, <2>1, <2>2, <2>5
    <3>2. f[i - 1] = SubSeq(text, 1, i - 1)
      BY <3>1
    <3>3. f[i] = N!Spaced(SubSeq(text, 1, i - 1), text, i)
      BY <2>3, <2>5, <3>2
    <3> HIDE DEF bad
    <3>. QED  BY <2>2, <3>1, <3>3, SpacedSnake
  <2>. QED  BY <2>4, <2>5
<1>4. f[n] = text
  <2>1. n \in 0 .. n
    BY <1>1
  <2>2. SubSeq(text, 1, n) = text
    <3>1. \A j \in 1 .. n : text[j] \in S
      OBVIOUS
    <3>2. /\ SubSeq(text, 1, n) \in Seq(S) /\ Len(SubSeq(text, 1, n)) = n
          /\ \A j \in 1 .. n : SubSeq(text, 1, n)[j] = text[j]
      BY <1>1, <3>1, SubSeqProperties
    <3>. QED  BY <3>2, SeqEqual
  <2>. QED  BY <1>3, <2>1, <2>2
<1>5. N!StripRight(text) = text
  <2>1. text # <<>> => n > 0
    BY <1>1, EmptySeq
  <2>. QED  BY <2>1 DEF N!StripRight, Snake
<1>. QED  BY <1>2, <1>4, <1>5

-----------------------------------------------------------------------------
(* What may follow a tidy text. *)
Apart(s) ==
  /\ \A i \in 1 .. Len(s) : Plain(s[i])
  /\ \A i \in 1 .. Len(s) - 1 : ~(s[i] = N!Underscore /\ s[i + 1] = N!Underscore)

(* A tidy text and what follows it. *)
LEMMA TidyConcat ==
  ASSUME NEW S, NEW a \in Seq(S), NEW b \in Seq(S), Tidy(a), Len(a) > 0, Apart(b), Len(b) > 0,
         ~(a[Len(a)] = N!Underscore /\ b[1] = N!Underscore)
  PROVE  /\ a \o b \in Seq(S) /\ Tidy(a \o b)
         /\ Len(a \o b) = Len(a) + Len(b)
         /\ (a \o b)[1] = a[1]
         /\ (a \o b)[Len(a) + Len(b)] = b[Len(b)]
<1> DEFINE m == Len(a)
           n == Len(b)
           t == a \o b
<1>1. m \in Nat /\ n \in Nat /\ m > 0 /\ n > 0
  OBVIOUS
<1>2. t \in Seq(S) /\ Len(t) = m + n
  BY ConcatProperties
<1>3. /\ \A i \in 1 .. m : t[i] = a[i]
      /\ \A i \in m + 1 .. m + n : t[i] = b[i - m]
  BY <1>1, ConcatProperties
<1>4. /\ \A i \in 1 .. m : Plain(a[i])
      /\ a[1] # N!Underscore
      /\ \A i \in 1 .. m - 1 : ~(a[i] = N!Underscore /\ a[i + 1] = N!Underscore)
  BY DEF Tidy
<1>5. /\ \A i \in 1 .. n : Plain(b[i])
      /\ \A i \in 1 .. n - 1 : ~(b[i] = N!Underscore /\ b[i + 1] = N!Underscore)
  BY DEF Apart
<1>6. ~(a[m] = N!Underscore /\ b[1] = N!Underscore)
  OBVIOUS
<1> HIDE DEF m, n, t
<1>7. t[1] = a[1] /\ t[m + n] = b[n]
  <2>1. 1 \in 1 .. m /\ m + n \in m + 1 .. m + n /\ (m + n) - m = n
    BY <1>1
  <2>. QED  BY <1>3, <2>1
<1>8. ASSUME NEW i \in 1 .. m + n
      PROVE  Plain(t[i])
  <2>1. CASE i <= m
    BY <1>1, <1>3, <1>4, <2>1
  <2>2. CASE i > m
    <3>1. i \in m + 1 .. m + n /\ i - m \in 1 .. n
      BY <1>1, <2>2
    <3>. QED  BY <1>3, <1>5, <3>1
  <2>. QED  BY <1>1, <2>1, <2>2
<1>9. ASSUME NEW i \in 1 .. (m + n) - 1, t[i] = N!Underscore, t[i + 1] = N!Underscore
      PROVE  FALSE
  <2>1. CASE i < m
    <3>1. i \in 1 .. m /\ i + 1 \in 1 .. m /\ i \in 1 .. m - 1
      BY <1>1, <2>1
    <3>. QED  BY <1>3, <1>4, <1>9, <3>1
  <2>2. CASE i = m
    <3>1. i \in 1 .. m /\ i + 1 \in m + 1 .. m + n /\ (i + 1) - m = 1
      BY <1>1, <2>2
    <3>2. t[i] = a[m] /\ t[i + 1] = b[1]
      BY <1>3, <2>2, <3>1
    <3>. QED  BY <1>6, <1>9, <3>2
  <2>3. CASE i > m
    <3>1. /\ i \in m + 1 .. m + n /\ i + 1 \in m + 1 .. m + n
          /\ (i + 1) - m = (i - m) + 1 /\ i - m \in 1 .. n - 1
      BY <1>1, <2>3
    <3>2. t[i] = b[i - m] /\ t[i + 1] = b[(i - m) + 1]
      BY <1>3, <3>1
    <3>. QED  BY <1>5, <1>9, <3>1, <3>2
  <2>. QED  BY <1>1, <2>1, <2>2, <2>3
<1>10. Tidy(t)
  BY <1>2, <1>4, <1>7, <1>8, <1>9 DEF Tidy
<1>. QED  BY <1>2, <1>7, <1>10 DEF m, n, t

(* What may be the name of a tool, but for its length. *)
Named(s) == Snake(s) /\ (Len(s) > 0 => N!IsLower(s[1]))

(* The name of an identifier. *)
LEMMA CandidateNamed ==
  ASSUME N!NamingAssumption, NEW text \in Seq(Characters)
  PROVE  N!Candidate(text) \in Seq(N!Alphabet) /\ Named(N!Candidate(text))
<1>1. PICK c : c = N!SnakeCase(text)
  OBVIOUS
<1>2. c \in Seq(N!Alphabet) /\ Snake(c)
  BY <1>1, SnakeCaseSnake
<1>3. N!Candidate(text) =
        IF c # <<>> /\ c[1] \in Digits THEN <<"o", "p", N!Underscore>> \o c ELSE c
  BY <1>1, Zenon DEF N!Candidate
<1>4. Len(c) \in Nat /\ (c # <<>> <=> Len(c) > 0)
  BY <1>2, EmptySeq
<1>5. CASE c # <<>> /\ c[1] \in Digits
  <2> DEFINE a == <<"o", "p", N!Underscore>>
  <2>1. N!IsLower("o") /\ N!IsLower("p")
    BY Zenon DEF N!NamingAssumption
  <2>2. /\ Plain("o") /\ Plain("p") /\ Plain(N!Underscore)
        /\ "o" # N!Underscore /\ "p" # N!Underscore
    BY <2>1, CharacterFacts
  <2>3. "o" \in N!Alphabet /\ "p" \in N!Alphabet /\ N!Underscore \in N!Alphabet
    BY Zenon DEF N!Alphabet
  <2>4. a \in Seq(N!Alphabet) /\ Len(a) = 3 /\ a[1] = "o" /\ a[2] = "p" /\ a[3] = N!Underscore
    BY <2>3
  <2> HIDE DEF a
  <2>5. Tidy(a)
    <3>1. \A i \in 1 .. Len(a) : i = 1 \/ i = 2 \/ i = 3
      BY <2>4
    <3>2. \A i \in 1 .. Len(a) - 1 : i = 1 \/ i = 2
      BY <2>4
    <3>. QED  BY <2>2, <2>4, <3>1, <3>2 DEF Tidy
  <2>6. Apart(c) /\ c[1] # N!Underscore /\ c[Len(c)] # N!Underscore /\ Len(c) > 0
    BY <1>2, <1>4, <1>5 DEF Apart, Snake, Tidy
  <2>7. /\ a \o c \in Seq(N!Alphabet) /\ Tidy(a \o c) /\ Len(a \o c) = Len(a) + Len(c)
        /\ (a \o c)[1] = a[1] /\ (a \o c)[Len(a) + Len(c)] = c[Len(c)]
    <3>1. a \in Seq(N!Alphabet) /\ Len(a) > 0
      BY <2>4
    <3>. QED  BY <1>2, <2>5, <2>6, <3>1, TidyConcat
  <2>8. N!Candidate(text) = a \o c
    BY <1>3, <1>5 DEF a
  <2>. QED  BY <2>1, <2>4, <2>6, <2>7, <2>8 DEF Named, Snake
<1>6. CASE ~(c # <<>> /\ c[1] \in Digits)
  <2>1. N!Candidate(text) = c
    BY <1>3, <1>6
  <2>2. ASSUME Len(c) > 0
        PROVE  N!IsLower(c[1])
    BY <1>2, <1>4, <1>6, <2>2 DEF Snake, Tidy, Plain
  <2>. QED  BY <1>2, <2>1, <2>2 DEF Named
<1>. QED  BY <1>5, <1>6

-----------------------------------------------------------------------------
(* f is what the first characters of a path are split into. *)
SegmentsRun(f, path, n) ==
  f = [i \in 0 .. n |-> IF i = 0 THEN <<<<>>>> ELSE N!AddToSegments(f[i - 1], path[i])]

(* The recursion of Segments defines a function. *)
LEMMA SegmentsRunExists ==
  ASSUME NEW path
  PROVE  \A n \in Nat : \E f : SegmentsRun(f, path, n)
<1> DEFINE bad == {n \in Nat : ~ \E f : SegmentsRun(f, path, n)}
<1> SUFFICES ASSUME bad # {} PROVE FALSE
  OBVIOUS
<1>1. PICK n \in bad : \A k \in bad : n <= k
  <2>1. bad \in SUBSET Nat
    OBVIOUS
  <2> HIDE DEF bad
  <2>. QED  BY <2>1, LeastNat
<1>2. n \in Nat /\ ~ \E f : SegmentsRun(f, path, n)
  OBVIOUS
<1>3. n # 0
  <2>1. SegmentsRun([i \in 0 .. 0 |-> <<<<>>>>], path, 0)
    BY DEF SegmentsRun
  <2>. QED  BY <1>2, <2>1
<1>4. n - 1 \in Nat /\ n - 1 \notin bad
  BY <1>1, <1>2, <1>3
<1>5. PICK f : SegmentsRun(f, path, n - 1)
  BY <1>4
<1> DEFINE g == [i \in 0 .. n |-> IF i = n THEN N!AddToSegments(f[n - 1], path[n]) ELSE f[i]]
<1>6. SegmentsRun(g, path, n)
  <2>1. ASSUME NEW i \in 0 .. n
        PROVE  g[i] = IF i = 0 THEN <<<<>>>> ELSE N!AddToSegments(g[i - 1], path[i])
    <3>1. i # 0 => i - 1 \in 0 .. n /\ g[i - 1] = f[i - 1]
      BY <1>2
    <3>2. CASE i = n
      BY <1>3, <3>1, <3>2
    <3>3. CASE i # n
      <4>1. i \in 0 .. (n - 1) /\ g[i] = f[i]
        BY <1>2, <3>3
      <4>2. f[i] = IF i = 0 THEN <<<<>>>> ELSE N!AddToSegments(f[i - 1], path[i])
        BY <1>5, <4>1 DEF SegmentsRun
      <4>. QED  BY <3>1, <4>1, <4>2
    <3>. QED  BY <3>2, <3>3
  <2>2. g = [i \in 0 .. n |-> g[i]]
    OBVIOUS
  <2> HIDE DEF g
  <2>. QED  BY <2>1, <2>2 DEF SegmentsRun
<1>. QED  BY <1>2, <1>6

(* A character more of the path. *)
LEMMA AddToSegmentsTypes ==
  ASSUME NEW segments \in Seq(Seq(Characters)), Len(segments) > 0, NEW c \in Characters
  PROVE  /\ N!AddToSegments(segments, c) \in Seq(Seq(Characters))
         /\ Len(N!AddToSegments(segments, c)) > 0
<1> DEFINE last == Append(segments[Len(segments)], c)
           T == Seq(Characters)
<1>1. /\ Len(segments) \in Nat /\ Len(segments) \in 1 .. Len(segments)
      /\ segments[Len(segments)] \in Seq(Characters)
  OBVIOUS
<1>2. last \in T /\ <<>> \in T
  BY <1>1
<1>3. \/ N!AddToSegments(segments, c) = [segments EXCEPT ![Len(segments)] = last]
      \/ N!AddToSegments(segments, c) = segments
      \/ N!AddToSegments(segments, c) = Append(segments, <<>>)
  BY Zenon DEF N!AddToSegments
<1>4. segments \in Seq(T)
  OBVIOUS
<1> HIDE DEF last, T
<1>5. CASE N!AddToSegments(segments, c) = [segments EXCEPT ![Len(segments)] = last]
  <2>1. [segments EXCEPT ![Len(segments)] = last] \in Seq(T)
    BY <1>1, <1>2, <1>4, ExceptSeq
  <2>2. Len([segments EXCEPT ![Len(segments)] = last]) = Len(segments)
    BY <1>1, <1>2, <1>4, ExceptSeq
  <2>. QED  BY <1>5, <2>1, <2>2 DEF T
<1>6. CASE N!AddToSegments(segments, c) = segments
  BY <1>4, <1>6 DEF T
<1>7. CASE N!AddToSegments(segments, c) = Append(segments, <<>>)
  <2>1. Append(segments, <<>>) \in Seq(T) /\ Len(Append(segments, <<>>)) = Len(segments) + 1
    BY <1>2, <1>4
  <2>. QED  BY <1>1, <1>7, <2>1 DEF T
<1>. QED  BY <1>3, <1>5, <1>6, <1>7

(* The segments of a path are texts. *)
LEMMA SegmentsTypes ==
  ASSUME NEW path \in Seq(Characters)
  PROVE  N!Segments(path) \in Seq(Seq(Characters))
<1> DEFINE n == Len(path)
           run == CHOOSE f : SegmentsRun(f, path, n)
           T == Seq(Seq(Characters))
<1>1. n \in Nat /\ \A i \in 1 .. n : path[i] \in Characters
  OBVIOUS
<1>2. SegmentsRun(run, path, n)
  BY <1>1, SegmentsRunExists
<1>3. N!Segments(path) = run[n]
  BY DEF N!Segments, SegmentsRun
<1>4. PICK f : f = run
  OBVIOUS
<1>5. SegmentsRun(f, path, n) /\ N!Segments(path) = f[n]
  BY <1>2, <1>3, <1>4
<1> HIDE DEF run, n
<1> DEFINE bad == {i \in 0 .. n : ~(f[i] \in T /\ Len(f[i]) > 0)}
<1>6. bad = {}
  <2> SUFFICES ASSUME bad # {} PROVE FALSE
    OBVIOUS
  <2>1. PICK i \in bad : \A k \in bad : i <= k
    <3>1. bad \in SUBSET Nat
      BY <1>1
    <3> HIDE DEF bad
    <3>. QED  BY <3>1, LeastNat
  <2>2. i \in 0 .. n /\ ~(f[i] \in T /\ Len(f[i]) > 0)
    OBVIOUS
  <2>3. f[i] = IF i = 0 THEN <<<<>>>> ELSE N!AddToSegments(f[i - 1], path[i])
    BY <1>5, <2>2 DEF SegmentsRun
  <2>4. CASE i = 0
    <3>1. f[i] = <<<<>>>>
      BY <2>3, <2>4
    <3>2. <<<<>>>> \in T /\ Len(<<<<>>>>) = 1
      OBVIOUS
    <3>. QED  BY <2>2, <3>1, <3>2
  <2>5. CASE i # 0
    <3>1. i - 1 \in 0 .. n /\ i - 1 \notin bad /\ i \in 1 .. n
      BY <1>1, <2>1, <2>2, <2>5
    <3>2. f[i - 1] \in T /\ Len(f[i - 1]) > 0 /\ path[i] \in Characters
      BY <1>1, <3>1
    <3>3. f[i] = N!AddToSegments(f[i - 1], path[i])
      BY <2>3, <2>5
    <3> HIDE DEF bad
    <3>. QED  BY <2>2, <3>2, <3>3, AddToSegmentsTypes
  <2>. QED  BY <2>4, <2>5
<1>7. n \in 0 .. n
  BY <1>1
<1>. QED  BY <1>5, <1>6, <1>7

-----------------------------------------------------------------------------
(* f is what the first segments of a path are joined to. *)
DerivedRun(f, verb, segments, n) ==
  f = [i \in 0 .. n |-> IF i = 0 THEN <<verb>> ELSE N!AddToName(f[i - 1], segments, i)]

(* The recursion of Derived defines a function. *)
LEMMA DerivedRunExists ==
  ASSUME NEW verb, NEW segments
  PROVE  \A n \in Nat : \E f : DerivedRun(f, verb, segments, n)
<1> DEFINE bad == {n \in Nat : ~ \E f : DerivedRun(f, verb, segments, n)}
<1> SUFFICES ASSUME bad # {} PROVE FALSE
  OBVIOUS
<1>1. PICK n \in bad : \A k \in bad : n <= k
  <2>1. bad \in SUBSET Nat
    OBVIOUS
  <2> HIDE DEF bad
  <2>. QED  BY <2>1, LeastNat
<1>2. n \in Nat /\ ~ \E f : DerivedRun(f, verb, segments, n)
  OBVIOUS
<1>3. n # 0
  <2>1. DerivedRun([i \in 0 .. 0 |-> <<verb>>], verb, segments, 0)
    BY DEF DerivedRun
  <2>. QED  BY <1>2, <2>1
<1>4. n - 1 \in Nat /\ n - 1 \notin bad
  BY <1>1, <1>2, <1>3
<1>5. PICK f : DerivedRun(f, verb, segments, n - 1)
  BY <1>4
<1> DEFINE g == [i \in 0 .. n |-> IF i = n THEN N!AddToName(f[n - 1], segments, n) ELSE f[i]]
<1>6. DerivedRun(g, verb, segments, n)
  <2>1. ASSUME NEW i \in 0 .. n
        PROVE  g[i] = IF i = 0 THEN <<verb>> ELSE N!AddToName(g[i - 1], segments, i)
    <3>1. i # 0 => i - 1 \in 0 .. n /\ g[i - 1] = f[i - 1]
      BY <1>2
    <3>2. CASE i = n
      BY <1>3, <3>1, <3>2
    <3>3. CASE i # n
      <4>1. i \in 0 .. (n - 1) /\ g[i] = f[i]
        BY <1>2, <3>3
      <4>2. f[i] = IF i = 0 THEN <<verb>> ELSE N!AddToName(f[i - 1], segments, i)
        BY <1>5, <4>1 DEF DerivedRun
      <4>. QED  BY <3>1, <4>1, <4>2
    <3>. QED  BY <3>2, <3>3
  <2>2. g = [i \in 0 .. n |-> g[i]]
    OBVIOUS
  <2> HIDE DEF g
  <2>. QED  BY <2>1, <2>2 DEF DerivedRun
<1>. QED  BY <1>2, <1>6

(* The letters of a derived name. *)
Letters(verb) == N!Alphabet \cup {verb, "by", "root", N!Underscore}

(* Join: a name, what separates, and a word. *)
LEMMA JoinNamed ==
  ASSUME N!NamingAssumption, NEW S, NEW a \in Seq(S), NEW m \in Seq(S), NEW b \in Seq(S),
         Named(a), Len(a) > 0, Snake(b), Len(b) > 0,
         Apart(m), Len(m) > 0, m[Len(m)] = N!Underscore
  PROVE  /\ (a \o m) \o b \in Seq(S) /\ Named((a \o m) \o b) /\ Len((a \o m) \o b) > 0
<1>1. Tidy(a) /\ a[Len(a)] # N!Underscore /\ N!IsLower(a[1])
  BY DEF Named, Snake
<1>2. PICK t : t = a \o m
  OBVIOUS
<1>3. /\ t \in Seq(S) /\ Tidy(t) /\ Len(t) = Len(a) + Len(m)
      /\ t[1] = a[1] /\ t[Len(a) + Len(m)] = m[Len(m)]
  BY <1>1, <1>2, TidyConcat
<1>4. Len(t) > 0
  BY <1>3
<1>5. Apart(b) /\ b[1] # N!Underscore /\ b[Len(b)] # N!Underscore
  BY DEF Apart, Snake, Tidy
<1>6. /\ t \o b \in Seq(S) /\ Tidy(t \o b) /\ Len(t \o b) = Len(t) + Len(b)
      /\ (t \o b)[1] = t[1] /\ (t \o b)[Len(t) + Len(b)] = b[Len(b)]
  <2>1. t \in Seq(S) /\ Tidy(t) /\ Apart(b)
    BY <1>3, <1>5
  <2>2. ~(t[Len(t)] = N!Underscore /\ b[1] = N!Underscore)
    BY <1>5
  <2>. QED  BY <1>4, <2>1, <2>2, TidyConcat
<1>7. Len(t \o b) > 0
  BY <1>4, <1>6
<1>. QED  BY <1>1, <1>2, <1>3, <1>5, <1>6, <1>7 DEF Named, Snake

(* A segment more of the path. *)
LEMMA AddToNameNamed ==
  ASSUME N!NamingAssumption, NEW verb, NEW segments \in Seq(Seq(Characters)),
         NEW i \in 1 .. Len(segments),
         NEW before \in Seq(Letters(verb)), Named(before), Len(before) > 0
  PROVE  /\ N!AddToName(before, segments, i) \in Seq(Letters(verb))
         /\ Named(N!AddToName(before, segments, i))
         /\ Len(N!AddToName(before, segments, i)) > 0
<1> DEFINE S == Letters(verb)
<1>1. PICK word : word = N!SnakeCase(segments[i])
  OBVIOUS
<1>2. PICK m : m = IF N!Placeholder(segments[i]) THEN <<N!Underscore, "by", N!Underscore>>
                   ELSE <<N!Underscore>>
  OBVIOUS
<1>3. \/ N!AddToName(before, segments, i) = before
      \/ word # <<>> /\ N!AddToName(before, segments, i) = (before \o m) \o word
  BY <1>1, <1>2, Zenon DEF N!AddToName
<1>4. CASE N!AddToName(before, segments, i) = before
  BY <1>4
<1>5. CASE word # <<>> /\ N!AddToName(before, segments, i) = (before \o m) \o word
  <2>1. segments[i] \in Seq(Characters)
    OBVIOUS
  <2>2. word \in Seq(N!Alphabet) /\ Snake(word)
    BY <1>1, <2>1, SnakeCaseSnake
  <2>3. word \in Seq(S) /\ Len(word) > 0
    <3>1. Len(word) \in Nat /\ Len(word) > 0 /\ \A j \in 1 .. Len(word) : word[j] \in N!Alphabet
      BY <1>5, <2>2, EmptySeq
    <3>2. N!Alphabet \subseteq S
      BY Zenon DEF Letters
    <3> HIDE DEF S
    <3>. QED  BY <2>2, <3>1, <3>2
  <2>4. N!Underscore \in S /\ "by" \in S
    BY Zenon DEF Letters
  <2>5. Plain(N!Underscore) /\ Plain("by") /\ "by" # N!Underscore
    <3>1. N!IsLower("by")
      BY Zenon DEF N!NamingAssumption
    <3>. QED  BY <3>1, CharacterFacts
  <2>6. m \in Seq(S) /\ Apart(m) /\ Len(m) > 0 /\ m[Len(m)] = N!Underscore
    <3> HIDE DEF S
    <3>1. CASE m = <<N!Underscore>>
      <4>1. m \in Seq(S) /\ Len(m) = 1 /\ m[1] = N!Underscore
        BY <2>4, <3>1
      <4>2. \A j \in 1 .. Len(m) : j = 1
        BY <4>1
      <4>3. \A j \in 1 .. Len(m) - 1 : FALSE
        BY <4>1
      <4>. QED  BY <2>5, <4>1, <4>2, <4>3 DEF Apart
    <3>2. CASE m = <<N!Underscore, "by", N!Underscore>>
      <4>1. /\ m \in Seq(S) /\ Len(m) = 3
            /\ m[1] = N!Underscore /\ m[2] = "by" /\ m[3] = N!Underscore
        BY <2>4, <3>2
      <4>2. \A j \in 1 .. Len(m) : j = 1 \/ j = 2 \/ j = 3
        BY <4>1
      <4>3. \A j \in 1 .. Len(m) - 1 : j = 1 \/ j = 2
        BY <4>1
      <4>. QED  BY <2>5, <4>1, <4>2, <4>3 DEF Apart
    <3>. QED  BY <1>2, <3>1, <3>2
  <2>7. before \in Seq(S)
    OBVIOUS
  <2> HIDE DEF S
  <2>8. (before \o m) \o word \in Seq(S) /\ Named((before \o m) \o word) /\ Len((before \o m) \o word) > 0
    BY <2>2, <2>3, <2>6, <2>7, JoinNamed
  <2>. QED  BY <1>5, <2>8 DEF S
<1>. QED  BY <1>3, <1>4, <1>5

(* A word of one letter. *)
LEMMA VerbNamed ==
  ASSUME N!NamingAssumption, NEW verb, N!IsLower(verb)
  PROVE  <<verb>> \in Seq(Letters(verb)) /\ Named(<<verb>>) /\ Len(<<verb>>) > 0
<1> DEFINE w == <<verb>>
<1>1. verb \in Letters(verb)
  BY Zenon DEF Letters
<1>2. w \in Seq(Letters(verb)) /\ Len(w) = 1 /\ w[1] = verb
  BY <1>1
<1> HIDE DEF w
<1>3. Plain(verb) /\ verb # N!Underscore
  BY CharacterFacts
<1>4. \A i \in 1 .. Len(w) : i = 1
  BY <1>2
<1>5. \A i \in 1 .. Len(w) - 1 : FALSE
  BY <1>2
<1>6. Named(w)
  BY <1>2, <1>3, <1>4, <1>5 DEF Named, Snake, Tidy
<1>. QED  BY <1>2, <1>6 DEF w

(* The name that is derived from a path. *)
LEMMA DerivedNamed ==
  ASSUME N!NamingAssumption, NEW verb, N!IsLower(verb), NEW segments \in Seq(Seq(Characters))
  PROVE  N!Derived(verb, segments) \in Seq(Letters(verb)) /\ Named(N!Derived(verb, segments))
<1> DEFINE n == Len(segments)
           run == CHOOSE f : DerivedRun(f, verb, segments, n)
           Good(s) == s \in Seq(Letters(verb)) /\ Named(s) /\ Len(s) > 0
<1>1. n \in Nat
  OBVIOUS
<1>2. DerivedRun(run, verb, segments, n)
  BY <1>1, DerivedRunExists
<1>3. N!Derived(verb, segments) = run[n]
  BY DEF N!Derived, DerivedRun
<1>4. PICK f : f = run
  OBVIOUS
<1>5. DerivedRun(f, verb, segments, n) /\ N!Derived(verb, segments) = f[n]
  BY <1>2, <1>3, <1>4
<1>6. Good(<<verb>>)
  BY VerbNamed
<1>7. \A i \in 1 .. n : \A s : Good(s) => Good(N!AddToName(s, segments, i))
  BY AddToNameNamed
<1> HIDE DEF run, n, Good
<1> DEFINE bad == {i \in 0 .. n : ~ Good(f[i])}
<1>8. bad = {}
  <2> SUFFICES ASSUME bad # {} PROVE FALSE
    OBVIOUS
  <2>1. PICK i \in bad : \A k \in bad : i <= k
    <3>1. bad \in SUBSET Nat
      BY <1>1
    <3> HIDE DEF bad
    <3>. QED  BY <3>1, LeastNat
  <2>2. i \in 0 .. n /\ ~ Good(f[i])
    OBVIOUS
  <2>3. f[i] = IF i = 0 THEN <<verb>> ELSE N!AddToName(f[i - 1], segments, i)
    BY <1>5, <2>2 DEF DerivedRun
  <2>4. CASE i = 0
    BY <1>6, <2>2, <2>3, <2>4
  <2>5. CASE i # 0
    <3>1. i - 1 \in 0 .. n /\ i - 1 \notin bad /\ i \in 1 .. n
      BY <1>1, <2>1, <2>2, <2>5
    <3>2. Good(f[i - 1])
      BY <3>1
    <3> HIDE DEF bad
    <3>. QED  BY <1>7, <2>2, <2>3, <2>5, <3>1, <3>2
  <2>. QED  BY <2>4, <2>5
<1>9. n \in 0 .. n
  BY <1>1
<1>10. Good(f[n])
  BY <1>8, <1>9
<1>. QED  BY <1>5, <1>10 DEF Good

(* derive_tool_name, before the limit. *)
LEMMA DeriveNameNamed ==
  ASSUME N!NamingAssumption, NEW verb, N!IsLower(verb), NEW path \in Seq(Characters)
  PROVE  N!DeriveName(verb, path) \in Seq(Letters(verb)) /\ Named(N!DeriveName(verb, path))
<1>1. PICK derived : derived = N!Derived(verb, N!Segments(path))
  OBVIOUS
<1>2. derived \in Seq(Letters(verb)) /\ Named(derived)
  BY <1>1, SegmentsTypes, DerivedNamed
<1>3. N!DeriveName(verb, path) = IF derived = <<verb>> THEN <<verb, N!Underscore, "root">> ELSE derived
  BY <1>1, Zenon DEF N!DeriveName
<1>4. <<verb, N!Underscore, "root">> \in Seq(Letters(verb)) /\ Named(<<verb, N!Underscore, "root">>)
  <2> DEFINE w == <<verb, N!Underscore, "root">>
  <2>1. verb \in Letters(verb) /\ N!Underscore \in Letters(verb) /\ "root" \in Letters(verb)
    BY Zenon DEF Letters
  <2>2. w \in Seq(Letters(verb)) /\ Len(w) = 3 /\ w[1] = verb /\ w[2] = N!Underscore /\ w[3] = "root"
    BY <2>1
  <2> HIDE DEF w
  <2>3. N!IsLower("root")
    BY Zenon DEF N!NamingAssumption
  <2>4. /\ Plain(verb) /\ verb # N!Underscore /\ Plain(N!Underscore)
        /\ Plain("root") /\ "root" # N!Underscore
    BY <2>3, CharacterFacts
  <2>5. \A i \in 1 .. Len(w) : i = 1 \/ i = 2 \/ i = 3
    BY <2>2
  <2>6. \A i \in 1 .. Len(w) - 1 : i = 1 \/ i = 2
    BY <2>2
  <2>7. Tidy(w)
    BY <2>2, <2>4, <2>5, <2>6 DEF Tidy
  <2>8. Named(w)
    BY <2>2, <2>4, <2>7 DEF Named, Snake
  <2>. QED  BY <2>2, <2>8 DEF w
<1>. QED  BY <1>2, <1>3, <1>4

-----------------------------------------------------------------------------
(* The first characters of a name. *)
LEMMA TidyPrefix ==
  ASSUME NEW S, NEW s \in Seq(S), Tidy(s), NEW n \in 1 .. Len(s)
  PROVE  /\ SubSeq(s, 1, n) \in Seq(S) /\ Tidy(SubSeq(s, 1, n))
         /\ Len(SubSeq(s, 1, n)) = n /\ SubSeq(s, 1, n)[1] = s[1]
<1> DEFINE t == SubSeq(s, 1, n)
<1>1. /\ Len(s) \in Nat /\ n \in Nat /\ n >= 1 /\ n <= Len(s)
      /\ \A i \in 1 .. Len(s) : s[i] \in S
  OBVIOUS
<1>2. t \in Seq(S) /\ Len(t) = n /\ \A i \in 1 .. n : t[i] = s[i]
  BY <1>1, SubSeqProperties
<1> HIDE DEF t
<1>3. /\ \A i \in 1 .. Len(s) : Plain(s[i])
      /\ s[1] # N!Underscore
      /\ \A i \in 1 .. Len(s) - 1 : ~(s[i] = N!Underscore /\ s[i + 1] = N!Underscore)
  BY <1>1 DEF Tidy
<1>4. t[1] = s[1]
  BY <1>1, <1>2
<1>5. \A i \in 1 .. n : Plain(t[i])
  BY <1>1, <1>2, <1>3
<1>6. \A i \in 1 .. n - 1 : ~(t[i] = N!Underscore /\ t[i + 1] = N!Underscore)
  BY <1>1, <1>2, <1>3
<1>7. Tidy(t)
  BY <1>2, <1>3, <1>4, <1>5, <1>6 DEF Tidy
<1>. QED  BY <1>2, <1>4, <1>7 DEF t

(* What _bounded makes of a name that is too long: as short as it must be, *)
(* and with the digest at its end.                                         *)
LEMMA ShortenedNamed ==
  ASSUME N!NamingAssumption, NEW S, N!Underscore \in S,
         NEW full \in Seq(S), Named(full), N!Digest(full) \in S,
         N!IsLower(N!Digest(full)), ~(Len(full) <= MaxToolNameLength)
  PROVE  /\ N!Bounded(full) \in Seq(S) /\ Named(N!Bounded(full))
         /\ Len(N!Bounded(full)) <= MaxToolNameLength
         /\ Len(N!Bounded(full)) > 0
         /\ N!Bounded(full)[Len(N!Bounded(full))] = N!Digest(full)
<1>1. MaxToolNameLength \in Nat /\ MaxToolNameLength > 2
  BY Zenon DEF N!NamingAssumption
<1>2. PICK d : d = N!Digest(full)
  OBVIOUS
<1> DEFINE n == MaxToolNameLength - 2
<1>3. n \in 1 .. Len(full) /\ n + 2 = MaxToolNameLength
  BY <1>1
<1>4. Tidy(full) /\ N!IsLower(full[1])
  BY <1>3 DEF Named, Snake
<1>5. PICK p : p = SubSeq(full, 1, n)
  OBVIOUS
<1>6. p \in Seq(S) /\ Tidy(p) /\ Len(p) = n /\ p[1] = full[1]
  <2> HIDE DEF n
  <2>. QED  BY <1>3, <1>4, <1>5, TidyPrefix
<1>7. PICK q : q = N!StripRight(p)
  OBVIOUS
<1>8. q \in Seq(S) /\ Snake(q) /\ Len(q) <= n /\ Len(q) > 0 /\ q[1] = full[1]
  <2>1. Len(p) > 0
    BY <1>3, <1>6
  <2> HIDE DEF n
  <2>. QED  BY <1>6, <1>7, <2>1, StripRightSnake
<1> DEFINE e == <<N!Underscore, d>>
<1>9. N!Bounded(full) = q \o e
  BY <1>2, <1>5, <1>7, Zenon DEF N!Bounded
<1>10. e \in Seq(S) /\ Len(e) = 2 /\ e[1] = N!Underscore /\ e[2] = d
  BY <1>2
<1>11. Plain(N!Underscore) /\ Plain(d) /\ d # N!Underscore
  BY <1>2, CharacterFacts
<1> HIDE DEF e, n
<1>12. Apart(e) /\ Len(e) > 0
  <2>1. \A i \in 1 .. Len(e) : i = 1 \/ i = 2
    BY <1>10
  <2>2. \A i \in 1 .. Len(e) - 1 : i = 1
    BY <1>10
  <2>. QED  BY <1>10, <1>11, <2>1, <2>2 DEF Apart
<1>13. Tidy(q) /\ q[Len(q)] # N!Underscore
  BY <1>8 DEF Snake
<1>14. /\ q \o e \in Seq(S) /\ Tidy(q \o e) /\ Len(q \o e) = Len(q) + Len(e)
       /\ (q \o e)[1] = q[1] /\ (q \o e)[Len(q) + Len(e)] = e[Len(e)]
  <2>1. ~(q[Len(q)] = N!Underscore /\ e[1] = N!Underscore)
    BY <1>13
  <2>2. q \in Seq(S) /\ e \in Seq(S) /\ Len(q) > 0
    BY <1>8, <1>10
  <2>. QED  BY <1>12, <1>13, <2>1, <2>2, TidyConcat
<1>15. Len(q \o e) > 0 /\ Len(q \o e) <= MaxToolNameLength
  <2>1. Len(q) \in Nat
    BY <1>8
  <2>. QED  BY <1>3, <1>8, <1>10, <1>14, <2>1
<1>16. (q \o e)[Len(q \o e)] = d
  BY <1>10, <1>14
<1>17. Named(q \o e)
  BY <1>4, <1>8, <1>11, <1>14, <1>16 DEF Named, Snake
<1>. QED  BY <1>2, <1>9, <1>14, <1>15, <1>16, <1>17

(* The letters of the name of an operation. *)
NameLetters(s) == Letters(s.verb) \cup {N!Digest(N!FullName(s))}

(* The name of an operation, before the limit. *)
LEMMA FullNameNamed ==
  ASSUME N!NamingAssumption, NEW s \in Sources
  PROVE  N!FullName(s) \in Seq(NameLetters(s)) /\ Named(N!FullName(s))
<1>1. s.id \in Seq(Characters) /\ s.path \in Seq(Characters) /\ N!IsLower(s.verb)
  BY Zenon DEF N!NamingAssumption
<1>2. PICK full : full = N!FullName(s)
  OBVIOUS
<1>3. full = IF s.id # <<>> THEN N!Candidate(s.id) ELSE N!DeriveName(s.verb, s.path)
  BY <1>2, Zenon DEF N!FullName
<1>4. Named(full) /\ (full \in Seq(N!Alphabet) \/ full \in Seq(Letters(s.verb)))
  BY <1>1, <1>3, CandidateNamed, DeriveNameNamed
<1>5. N!Alphabet \subseteq NameLetters(s) /\ Letters(s.verb) \subseteq NameLetters(s)
  BY Zenon DEF NameLetters, Letters
<1>6. \A A, B : A \subseteq B /\ full \in Seq(A) => full \in Seq(B)
  <2> SUFFICES ASSUME NEW A, NEW B, A \subseteq B, full \in Seq(A) PROVE full \in Seq(B)
    OBVIOUS
  <2>1. Len(full) \in Nat /\ full = [i \in 1 .. Len(full) |-> full[i]] /\ \A i \in 1 .. Len(full) : full[i] \in B
    OBVIOUS
  <2>. QED  BY <2>1, SeqDef
<1>. QED  BY <1>2, <1>4, <1>5, <1>6

(* The name of an operation is one that the contract admits. *)
LEMMA NameOfNamed ==
  ASSUME N!NamingAssumption, NEW s \in Sources
  PROVE  /\ N!NameOf(s) \in Seq(NameLetters(s)) /\ Named(N!NameOf(s))
         /\ Len(N!NameOf(s)) <= MaxToolNameLength
<1>1. PICK full : full = N!FullName(s)
  OBVIOUS
<1>2. full \in Seq(NameLetters(s)) /\ Named(full)
  BY <1>1, FullNameNamed
<1>3. N!NameOf(s) = N!Bounded(full)
  BY <1>1, Zenon DEF N!NameOf
<1>4. CASE Len(full) <= MaxToolNameLength
  <2>1. N!Bounded(full) = full
    BY <1>4, Zenon DEF N!Bounded
  <2>. QED  BY <1>2, <1>3, <1>4, <2>1
<1>5. CASE ~(Len(full) <= MaxToolNameLength)
  <2>1. full \in N!FullNames
    BY <1>1, Zenon DEF N!FullNames
  <2>2. N!IsLower(N!Digest(full))
    BY <2>1, Zenon DEF N!NamingAssumption
  <2>3. N!Digest(full) \in NameLetters(s) /\ N!Underscore \in NameLetters(s)
    BY <1>1, Zenon DEF NameLetters, Letters
  <2>. QED  BY <1>2, <1>3, <1>5, <2>2, <2>3, ShortenedNamed
<1>. QED  BY <1>4, <1>5

(* Naming a name that is admitted changes nothing. *)
LEMMA NamedStable ==
  ASSUME N!NamingAssumption, NEW S, NEW t \in Seq(S), Named(t), Len(t) > 0,
         Len(t) <= MaxToolNameLength
  PROVE  N!NormalizeToolName(t) = t
<1>1. N!SnakeCase(t) = t
  BY SnakeFixed DEF Named
<1>2. t[1] \notin Digits
  <2>1. N!IsLower(t[1])
    BY DEF Named
  <2>. QED  BY <2>1, CharacterFacts
<1>3. N!Candidate(t) = t
  BY <1>1, <1>2, Zenon DEF N!Candidate
<1>4. N!Bounded(t) = t
  BY Zenon DEF N!Bounded
<1>. QED  BY <1>3, <1>4, Zenon DEF N!NormalizeToolName

(* Two identifiers with one name read the same before it was shortened:    *)
(* two short ones are their own names, two long ones end in their digests, *)
(* and a short one spells no digest.                                       *)
LEMMA ShorteningInjective ==
  ASSUME N!NamingAssumption, NEW a \in N!FullNames, NEW b \in N!FullNames,
         a \in Seq(N!Alphabet), b \in Seq(N!Alphabet), Named(a), Named(b),
         N!Bounded(a) = N!Bounded(b)
  PROVE  a = b
<1>1. ASSUME NEW f \in N!FullNames, f \in Seq(N!Alphabet), Named(f)
      PROVE  /\ Len(f) <= MaxToolNameLength => N!Bounded(f) = f
             /\ ~(Len(f) <= MaxToolNameLength) =>
                  /\ Len(N!Bounded(f)) \in Nat /\ Len(N!Bounded(f)) > 0
                  /\ N!Bounded(f)[Len(N!Bounded(f))] = N!Digest(f)
  <2>1. Len(f) <= MaxToolNameLength => N!Bounded(f) = f
    BY Zenon DEF N!Bounded
  <2>2. ASSUME ~(Len(f) <= MaxToolNameLength)
        PROVE  /\ Len(N!Bounded(f)) \in Nat /\ Len(N!Bounded(f)) > 0
               /\ N!Bounded(f)[Len(N!Bounded(f))] = N!Digest(f)
    <3> DEFINE S == N!Alphabet \cup {N!Digest(f)}
    <3>1. N!Underscore \in S /\ N!Digest(f) \in S /\ N!Alphabet \subseteq S
      BY Zenon DEF N!Alphabet
    <3>2. N!IsLower(N!Digest(f))
      BY <1>1, Zenon DEF N!NamingAssumption
    <3> HIDE DEF S
    <3>3. f \in Seq(S)
      <4>1. /\ Len(f) \in Nat /\ f = [i \in 1 .. Len(f) |-> f[i]]
            /\ \A i \in 1 .. Len(f) : f[i] \in S
        BY <1>1, <3>1
      <4>. QED  BY <4>1, SeqDef
    <3>4. /\ N!Bounded(f) \in Seq(S) /\ Len(N!Bounded(f)) > 0
          /\ N!Bounded(f)[Len(N!Bounded(f))] = N!Digest(f)
      BY <1>1, <2>2, <3>1, <3>2, <3>3, ShortenedNamed
    <3>. QED  BY <3>4
  <2>. QED  BY <2>1, <2>2
<1>2. \A f \in N!FullNames : N!Digest(f) \notin N!Alphabet
  BY Zenon DEF N!NamingAssumption
<1>3. \A f, g \in N!FullNames : N!Digest(f) = N!Digest(g) => f = g
  BY Zenon DEF N!NamingAssumption
<1>4. ASSUME NEW f \in Seq(N!Alphabet), NEW g \in N!FullNames,
             Len(f) > 0, f[Len(f)] = N!Digest(g)
      PROVE  FALSE
  <2>1. f[Len(f)] \in N!Alphabet
    <3>1. Len(f) \in 1 .. Len(f)
      BY <1>4
    <3>. QED  BY <1>4, <3>1
  <2>. QED  BY <1>2, <1>4, <2>1
<1>5. CASE Len(a) <= MaxToolNameLength /\ Len(b) <= MaxToolNameLength
  BY <1>1, <1>5
<1>6. CASE ~(Len(a) <= MaxToolNameLength) /\ ~(Len(b) <= MaxToolNameLength)
  BY <1>1, <1>3, <1>6
<1>7. CASE Len(a) <= MaxToolNameLength /\ ~(Len(b) <= MaxToolNameLength)
  BY <1>1, <1>4, <1>7
<1>8. CASE ~(Len(a) <= MaxToolNameLength) /\ Len(b) <= MaxToolNameLength
  BY <1>1, <1>4, <1>8
<1>. QED  BY <1>5, <1>6, <1>7, <1>8

-----------------------------------------------------------------------------
(* The inductive invariant: a name that is there is the one derived. *)
NamingInv ==
  /\ source \in Sources
  /\ name = <<>> \/ name = N!NameOf(source)

(* What the invariant says of the names. *)
LEMMA NamingInvKeeps ==
  ASSUME N!NamingAssumption, NamingInv
  PROVE  N!NamesAdmitted /\ N!NamingStable /\ N!ShorteningKeepsDistinct
<1>1. PICK s : s = source
  OBVIOUS
<1>2. PICK t : t = name
  OBVIOUS
<1>3. s \in Sources /\ (t # <<>> => t = N!NameOf(s))
  BY <1>1, <1>2 DEF NamingInv
<1>4. ASSUME t # <<>>
      PROVE  /\ t \in Seq(NameLetters(s)) /\ Len(t) \in Nat /\ Len(t) > 0
             /\ Named(t) /\ Len(t) <= MaxToolNameLength
  <2>1. t \in Seq(NameLetters(s)) /\ Named(t) /\ Len(t) <= MaxToolNameLength
    BY <1>3, <1>4, NameOfNamed
  <2>. QED  BY <1>4, <2>1, EmptySeq
<1>5. N!NamesAdmitted
  <2>1. ASSUME t # <<>>
        PROVE  /\ N!IsLower(t[1])
               /\ \A i \in DOMAIN t : N!IsLower(t[i]) \/ t[i] \in Digits \cup {N!Underscore}
               /\ Len(t) <= MaxToolNameLength
    <3>1. DOMAIN t = 1 .. Len(t)
      BY <1>4, <2>1
    <3>2. N!IsLower(t[1]) /\ \A i \in 1 .. Len(t) : Plain(t[i])
      BY <1>4, <2>1 DEF Named, Snake, Tidy
    <3>. QED  BY <1>4, <2>1, <3>1, <3>2 DEF Plain
  <2>. QED  BY <1>2, <2>1, Zenon DEF N!NamesAdmitted
<1>6. N!NamingStable
  <2>1. t # <<>> => N!NormalizeToolName(t) = t
    BY <1>4, NamedStable
  <2>. QED  BY <1>2, <2>1, Zenon DEF N!NamingStable
<1>7. N!ShorteningKeepsDistinct
  <2>1. ASSUME s.id # <<>>, t # <<>>, NEW o \in Sources, o.id # <<>>,
               N!NormalizeToolName(o.id) = t
        PROVE  N!Candidate(o.id) = N!Candidate(s.id)
    <3>1. s.id \in Seq(Characters) /\ o.id \in Seq(Characters)
      BY <1>3, <2>1, Zenon DEF N!NamingAssumption
    <3>2. N!FullName(s) = N!Candidate(s.id) /\ N!FullName(o) = N!Candidate(o.id)
      BY <2>1, Zenon DEF N!FullName
    <3>3. N!Candidate(s.id) \in N!FullNames /\ N!Candidate(o.id) \in N!FullNames
      BY <1>3, <2>1, <3>2, Zenon DEF N!FullNames
    <3>4. t = N!Bounded(N!Candidate(s.id)) /\ t = N!Bounded(N!Candidate(o.id))
      BY <1>3, <2>1, <3>2, Zenon DEF N!NameOf, N!NormalizeToolName
    <3>5. /\ N!Candidate(s.id) \in Seq(N!Alphabet) /\ Named(N!Candidate(s.id))
          /\ N!Candidate(o.id) \in Seq(N!Alphabet) /\ Named(N!Candidate(o.id))
      BY <3>1, CandidateNamed
    <3>. QED  BY <3>3, <3>4, <3>5, ShorteningInjective
  <2>. QED  BY <1>1, <1>2, <2>1, Zenon DEF N!ShorteningKeepsDistinct
<1>. QED  BY <1>5, <1>6, <1>7

(* Naming keeps its promises. *)
LEMMA NamingKeeps ==
  ASSUME N!NamingAssumption
  PROVE  N!Spec => [](N!NamesAdmitted /\ N!NamingStable /\ N!ShorteningKeepsDistinct)
<1>1. N!Init => NamingInv
  BY Zenon DEF N!Init, NamingInv
<1>2. NamingInv /\ [N!Next]_(N!vars) => NamingInv'
  <2> SUFFICES ASSUME NamingInv, [N!Next]_(N!vars) PROVE NamingInv'
    OBVIOUS
  <2>1. CASE N!Derive
    BY <2>1, Zenon DEF N!Derive, NamingInv, N!NameOf, N!FullName
  <2>2. CASE UNCHANGED N!vars
    BY <2>2, Zenon DEF N!vars, NamingInv, N!NameOf, N!FullName
  <2>. QED  BY <2>1, <2>2 DEF N!Next
<1>3. NamingInv => N!NamesAdmitted /\ N!NamingStable /\ N!ShorteningKeepsDistinct
  BY NamingInvKeeps
<1>. QED  BY <1>1, <1>2, <1>3, PTL DEF N!Spec

-----------------------------------------------------------------------------
(* Conversion of schemas. *)

(* A path is its front and its last step. *)
LEMMA PathAndStep ==
  ASSUME NEW T, NEW q \in Seq(T), q # <<>>
  PROVE  /\ SC!Front(q) \in Seq(T)
         /\ Len(SC!Front(q)) = Len(q) - 1
         /\ \A i \in 1 .. Len(q) - 1 : SC!Front(q)[i] = q[i]
         /\ SC!Last(q) = q[Len(q)]
         /\ q = Append(SC!Front(q), SC!Last(q))
<1>1. Len(q) \in Nat /\ Len(q) # 0
  OBVIOUS
<1>2. SC!Front(q) = [i \in 1 .. Len(q) - 1 |-> q[i]]
  BY <1>1 DEF SC!Front
<1>3. /\ SC!Front(q) \in Seq(T)
      /\ Len(SC!Front(q)) = Len(q) - 1
      /\ \A i \in 1 .. Len(q) - 1 : SC!Front(q)[i] = q[i]
  BY <1>1, <1>2
<1>4. SC!Last(q) = q[Len(q)]
  BY DEF SC!Last
<1>5. q = Append(SC!Front(q), SC!Last(q))
  BY <1>1, <1>3, <1>4
<1>. QED  BY <1>3, <1>4, <1>5

(* The path of a schema follows that of the value. *)
LEMMA SchemaPathFollows ==
  ASSUME SC!SchemaAssumption, NEW v \in Values, NEW q \in DOMAIN v, q # <<>>
  PROVE  /\ SC!Front(q) \in DOMAIN v
         /\ Len(SC!Front(q)) \in Nat /\ Len(q) \in Nat
         /\ Len(SC!Front(q)) = Len(q) - 1
         /\ v[SC!Front(q)].t = IF SC!Last(q).name = ItemStep THEN "array" ELSE "object"
         /\ SC!SchemaPath(q) = Append(SC!SchemaPath(SC!Front(q)), SC!Last(q).name)
<1> DEFINE T == [name : STRING, index : Nat]
           f == SC!Front(q)
<1>1. /\ q \in Seq(T) /\ f \in DOMAIN v
      /\ v[f].t = IF SC!Last(q).name = ItemStep THEN "array" ELSE "object"
  BY Zenon DEF SC!SchemaAssumption, SC!ValueTree
<1> HIDE DEF T, f
<1>2. /\ f \in Seq(T) /\ Len(f) = Len(q) - 1 /\ Len(q) \in Nat /\ Len(q) # 0
      /\ \A i \in 1 .. Len(q) - 1 : f[i] = q[i]
      /\ SC!Last(q) = q[Len(q)]
  BY <1>1, PathAndStep DEF f
<1> DEFINE names == [i \in 1 .. Len(q) - 1 |-> q[i].name]
<1>3. SC!SchemaPath(f) = names
  BY <1>2 DEF SC!SchemaPath
<1>4. SC!SchemaPath(q) = [i \in 1 .. Len(q) |-> q[i].name]
  BY <1>1 DEF SC!SchemaPath
<1>5. Append(names, q[Len(q)].name) = [i \in 1 .. Len(q) |-> q[i].name]
  <2> DEFINE all == [i \in 1 .. Len(q) |-> q[i].name]
             U == {q[i].name : i \in 1 .. Len(q)}
  <2>1. names \in Seq(U) /\ Len(names) = Len(q) - 1 /\ q[Len(q)].name \in U
    BY <1>2
  <2>2. all \in Seq(U) /\ Len(all) = Len(q)
    BY <1>2
  <2>3. \A i \in 1 .. Len(q) : Append(names, q[Len(q)].name)[i] = all[i]
    BY <1>2, <2>1
  <2>4. Append(names, q[Len(q)].name) \in Seq(U) /\ Len(Append(names, q[Len(q)].name)) = Len(q)
    BY <1>2, <2>1
  <2> HIDE DEF all, names, U
  <2>. QED  BY <2>2, <2>3, <2>4 DEF all
<1>. QED  BY <1>1, <1>2, <1>3, <1>4, <1>5 DEF f

(* Where the next step is below a path, it leads on in the tree. *)
LEMMA BelowLeads ==
  ASSUME NEW s, DOMAIN s \subseteq Seq(STRING), NEW p, NEW step \in SC!Below(s, p)
  PROVE  Append(p, step) \in DOMAIN s
<1>1. PICK x \in DOMAIN s : x # <<>> /\ SC!Front(x) = p /\ SC!Last(x) = step
  BY DEF SC!Below
<1>2. x = Append(p, step)
  BY <1>1, PathAndStep
<1>. QED  BY <1>1, <1>2

(* Of a schema without a fault, the conversion says what the source says.  *)
LEMMA OneSchemaFaithful ==
  ASSUME NEW s, NEW depth, ~SC!SchemaFault(s, depth),
         \A b \in {s.low, s.high, s.xlow, s.xhigh} : b.at \in Int,
         NEW v, NEW q, v[q].n \in Int
  PROVE  SC!Admits(SC!Converted(s), v, q) <=> SC!Says(s, v, q)
<1> DEFINE c == SC!Converted(s)
           t == v[q].t
           n == v[q].n
<1>1. /\ c.types = SC!Types(s) /\ c.enum = s.enum /\ c.required = s.required
      /\ c.low = SC!Inclusive(s.low, SC!LowX(s)) /\ c.high = SC!Inclusive(s.high, SC!HighX(s))
      /\ c.xlow = SC!Exclusive(s.low, SC!LowX(s)) /\ c.xhigh = SC!Exclusive(s.high, SC!HighX(s))
  BY DEF SC!Converted
<1>2. (t \in c.types \/ (t = "integer" /\ "number" \in c.types))
        <=> IF t = "null" THEN s.type = "null" \/ s.nullable = "yes" ELSE SC!MatchesType(t, s.type)
  BY <1>1 DEF SC!Types, SC!MatchesType
<1>3. ~SC!BoundFault(s.low, SC!LowX(s)) /\ ~SC!BoundFault(s.high, SC!HighX(s))
  BY DEF SC!SchemaFault
<1>4. SC!LowX(s).at \in Int /\ SC!HighX(s).at \in Int /\ s.low.at \in Int /\ s.high.at \in Int
  BY DEF SC!LowX, SC!HighX, SC!NoBound
<1>5. ASSUME NEW inclusive, NEW exclusive, ~SC!BoundFault(inclusive, exclusive),
             inclusive.at \in Int, exclusive.at \in Int
      PROVE  /\ SC!Above(n, inclusive, exclusive) <=>
                  /\ \A b \in SC!ToSet(SC!Inclusive(inclusive, exclusive)) : n >= b
                  /\ \A b \in SC!ToSet(SC!Exclusive(inclusive, exclusive)) : n > b
             /\ SC!Above(-n, SC!Negated(inclusive), SC!Negated(exclusive)) <=>
                  /\ \A b \in SC!ToSet(SC!Inclusive(inclusive, exclusive)) : n <= b
                  /\ \A b \in SC!ToSet(SC!Exclusive(inclusive, exclusive)) : n < b
  <2> DEFINE inc == SC!Inclusive(inclusive, exclusive)
             exc == SC!Exclusive(inclusive, exclusive)
  <2>1. SC!ToSet(inc) = IF inclusive.form = "number" /\ exclusive.form # "true" THEN {inclusive.at} ELSE {}
    BY DEF SC!ToSet, SC!Inclusive
  <2>2. SC!ToSet(exc) = IF exclusive.form = "true" THEN {inclusive.at}
                        ELSE IF exclusive.form = "number" THEN {exclusive.at} ELSE {}
    BY DEF SC!ToSet, SC!Exclusive
  <2>3. exclusive.form = "true" => inclusive.form = "number"
    BY <1>5 DEF SC!BoundFault
  <2> HIDE DEF inc, exc
  <2>4. SC!Above(n, inclusive, exclusive) <=>
          (\A b \in SC!ToSet(inc) : n >= b) /\ (\A b \in SC!ToSet(exc) : n > b)
    BY <1>5, <2>1, <2>2, <2>3 DEF SC!Above
  <2>5. SC!Above(-n, SC!Negated(inclusive), SC!Negated(exclusive)) <=>
          (\A b \in SC!ToSet(inc) : n <= b) /\ (\A b \in SC!ToSet(exc) : n < b)
    BY <1>5, <2>1, <2>2, <2>3 DEF SC!Above, SC!Negated
  <2>. QED  BY <2>4, <2>5 DEF inc, exc
<1>6. /\ SC!Above(n, s.low, SC!LowX(s)) <=>
           (\A b \in SC!ToSet(c.low) : n >= b) /\ (\A b \in SC!ToSet(c.xlow) : n > b)
      /\ SC!Above(-n, SC!Negated(s.high), SC!Negated(SC!HighX(s))) <=>
           (\A b \in SC!ToSet(c.high) : n <= b) /\ (\A b \in SC!ToSet(c.xhigh) : n < b)
  BY <1>1, <1>3, <1>4, <1>5
<1> HIDE DEF c
<1>. QED  BY <1>1, <1>2, <1>6, Zenon DEF SC!Admits, SC!Says, c

(* What convert_schema makes of a schema that it does not refuse. *)
Kept(s) == [p \in DOMAIN s |-> SC!Converted(s[p])]

(* So it says of every value what the source says. *)
LEMMA TreeFaithful ==
  ASSUME SC!SchemaAssumption, NEW s \in Schemas, \A p \in DOMAIN s : ~SC!Fault(s, p),
         NEW v \in Values
  PROVE  SC!Valid(Kept(s), v) <=> SC!Meant(s, v) /\ SC!Declared(s, v)
<1>1. /\ <<>> \in DOMAIN s /\ DOMAIN s \subseteq Seq(STRING)
      /\ \A p \in DOMAIN s : \A b \in {s[p].low, s[p].high, s[p].xlow, s[p].xhigh} : b.at \in Int
      /\ \A q \in DOMAIN v : v[q].n \in Int
  BY Zenon DEF SC!SchemaAssumption, SC!SchemaTree
<1>2. DOMAIN Kept(s) = DOMAIN s /\ \A p \in DOMAIN s : Kept(s)[p] = SC!Converted(s[p])
  BY DEF Kept
<1>3. ASSUME NEW q \in DOMAIN v, SC!SchemaPath(q) \in DOMAIN s
      PROVE  SC!Admits(Kept(s)[SC!SchemaPath(q)], v, q) <=> SC!Says(s[SC!SchemaPath(q)], v, q)
  <2> DEFINE p == SC!SchemaPath(q)
  <2>1. ~SC!SchemaFault(s[p], Len(p))
    BY <1>3 DEF SC!Fault
  <2>2. \A b \in {s[p].low, s[p].high, s[p].xlow, s[p].xhigh} : b.at \in Int
    BY <1>1, <1>3
  <2>3. v[q].n \in Int
    BY <1>1
  <2>4. Kept(s)[p] = SC!Converted(s[p])
    BY <1>2, <1>3
  <2> HIDE DEF p
  <2>5. SC!Admits(SC!Converted(s[p]), v, q) <=> SC!Says(s[p], v, q)
    BY <2>1, <2>2, <2>3, OneSchemaFaithful
  <2>. QED  BY <2>4, <2>5 DEF p
<1>4. ASSUME SC!Valid(Kept(s), v) PROVE SC!Declared(s, v)
  <2> DEFINE bad == {k \in Nat : \E q \in DOMAIN v : Len(q) = k /\ SC!SchemaPath(q) \notin DOMAIN s}
  <2>1. SUFFICES ASSUME NEW x \in DOMAIN v, SC!SchemaPath(x) \notin DOMAIN s PROVE FALSE
    BY DEF SC!Declared
  <2>2. bad # {} /\ bad \in SUBSET Nat
    <3>1. Len(x) \in Nat
      BY DEF SC!SchemaAssumption, SC!ValueTree
    <3>. QED  BY <2>1, <3>1
  <2>3. PICK k \in bad : \A j \in bad : k <= j
    <3> HIDE DEF bad
    <3>. QED  BY <2>2, LeastNat
  <2>4. PICK q \in DOMAIN v : Len(q) = k /\ SC!SchemaPath(q) \notin DOMAIN s
    BY <2>3
  <2>5. q # <<>>
    <3>1. SC!SchemaPath(<<>>) = <<>>
      BY DEF SC!SchemaPath
    <3>. QED  BY <1>1, <2>4, <3>1
  <2> DEFINE f == SC!Front(q)
             step == SC!Last(q).name
             p == SC!SchemaPath(f)
  <2>6. /\ f \in DOMAIN v /\ Len(f) \in Nat /\ Len(q) \in Nat /\ Len(f) = Len(q) - 1
        /\ v[f].t = IF step = ItemStep THEN "array" ELSE "object"
        /\ SC!SchemaPath(q) = Append(p, step)
    BY <2>5, SchemaPathFollows
  <2>7. p \in DOMAIN s
    <3>1. Len(f) \notin bad
      BY <2>3, <2>4, <2>6
    <3>. QED  BY <2>6, <3>1
  <2> HIDE DEF bad, f, step
  <2>8. SC!Admits(Kept(s)[p], v, f)
    BY <1>2, <1>4, <2>6, <2>7 DEF SC!Valid
  <2>9. SC!Says(s[p], v, f)
    BY <1>3, <2>6, <2>7, <2>8
  <2>10. v[f].t # "null" => v[f].t = s[p].type \/ (s[p].type = "number" /\ v[f].t = "integer")
    BY <2>9 DEF SC!Says, SC!MatchesType
  <2>11. CASE step = ItemStep
    <3>1. s[p].type = "array"
      BY <2>6, <2>10, <2>11
    <3>2. ItemStep \in SC!Below(s, p)
      BY <2>7, <3>1 DEF SC!Fault
    <3>. QED  BY <1>1, <2>4, <2>6, <2>11, <3>2, BelowLeads
  <2>12. CASE step # ItemStep
    <3>1. s[p].type = "object"
      BY <2>6, <2>10, <2>12
    <3>2. Kept(s)[p].closed
      <4>1. Kept(s)[p] = SC!Converted(s[p])
        BY <1>2, <2>7
      <4>2. SC!Converted(s[p]).closed = (s[p].type = "object")
        BY DEF SC!Converted
      <4>. QED  BY <3>1, <4>1, <4>2, Zenon
    <3>3. SC!SchemaPath(q) \notin DOMAIN Kept(s) /\ SC!SchemaPath(SC!Front(q)) \in DOMAIN Kept(s)
      BY <1>2, <2>4, <2>7 DEF f
    <3>4. ~Kept(s)[SC!SchemaPath(SC!Front(q))].closed
      BY <1>4, <2>4, <3>3, Zenon DEF SC!Valid
    <3>. QED  BY <3>2, <3>4 DEF f
  <2>. QED  BY <2>11, <2>12
<1>5. ASSUME SC!Valid(Kept(s), v) PROVE SC!Meant(s, v)
  BY <1>2, <1>3, <1>5 DEF SC!Valid, SC!Meant
<1>6. ASSUME SC!Meant(s, v), SC!Declared(s, v) PROVE SC!Valid(Kept(s), v)
  BY <1>2, <1>3, <1>6 DEF SC!Valid, SC!Meant, SC!Declared
<1>. QED  BY <1>4, <1>5, <1>6

(* The inductive invariant of a conversion. *)
SchemaInv ==
  /\ schema \in Schemas
  /\ converted \in {SC!Pending, SC!ConvertSchema(schema)}

(* It holds at first, and every step keeps it. *)
LEMMA SchemaInvHolds == SC!Spec => []SchemaInv
<1>1. SC!Init => SchemaInv
  BY DEF SC!Init, SchemaInv
<1>2. SchemaInv /\ [SC!Next]_(SC!vars) => SchemaInv'
  BY DEF SchemaInv, SC!Next, SC!Convert, SC!vars
<1>. QED  BY <1>1, <1>2, PTL DEF SC!Spec

(* A schema that was converted had no fault. *)
LEMMA ConvertedWithoutFault ==
  ASSUME SchemaInv, converted.kind = "converted"
  PROVE  (\A p \in DOMAIN schema : ~SC!Fault(schema, p)) /\ converted.tree = Kept(schema)
<1>1. converted # SC!Pending /\ converted # SC!Refused
  BY DEF SC!Pending, SC!Refused
<1>2. converted = IF \E p \in DOMAIN schema : SC!Fault(schema, p) THEN SC!Refused
                  ELSE [kind |-> "converted", tree |-> Kept(schema)]
  BY <1>1, Zenon DEF SchemaInv, SC!ConvertSchema, Kept
<1>3. \A p \in DOMAIN schema : ~SC!Fault(schema, p)
  BY <1>1, <1>2, Zenon
<1>4. converted = [kind |-> "converted", tree |-> Kept(schema)]
  BY <1>2, <1>3, Zenon
<1>. QED  BY <1>3, <1>4

(* A conversion keeps its two promises. *)
LEMMA SchemasAlwaysKept ==
  ASSUME SC!SchemaAssumption
  PROVE  SC!Spec => [](SC!ConversionFaithful /\ SC!NothingSilentlyDropped)
<1>1. SchemaInv => SC!ConversionFaithful
  <2> SUFFICES ASSUME SchemaInv, converted.kind = "converted", NEW v \in Values
               PROVE  SC!Valid(converted.tree, v) <=> SC!Meant(schema, v) /\ SC!Declared(schema, v)
    BY Zenon DEF SC!ConversionFaithful
  <2>1. schema \in Schemas
    BY DEF SchemaInv
  <2>2. (\A p \in DOMAIN schema : ~SC!Fault(schema, p)) /\ converted.tree = Kept(schema)
    BY ConvertedWithoutFault
  <2>3. SC!Valid(Kept(schema), v) <=> SC!Meant(schema, v) /\ SC!Declared(schema, v)
    BY <2>1, <2>2, TreeFaithful
  <2>. QED  BY <2>2, <2>3
<1>2. SchemaInv => SC!NothingSilentlyDropped
  <2> SUFFICES ASSUME SchemaInv, converted.kind = "converted", NEW p \in DOMAIN schema
               PROVE  ~schema[p].stray /\ ~schema[p].composition /\ schema[p].additional # "open"
    BY DEF SC!NothingSilentlyDropped
  <2>1. ~SC!Fault(schema, p)
    BY ConvertedWithoutFault
  <2>. QED
    BY <2>1 DEF SC!Fault, SC!SchemaFault, SC!ObjectFault, SC!UnknownKeyword
<1>. QED  BY <1>1, <1>2, SchemaInvHolds, PTL

-----------------------------------------------------------------------------
(* The stages side by side: a behaviour stays at its stage. *)

(* No step leaves the stage that a behaviour follows. *)
LEMMA StageStays == [RegistrationNext]_registrationVars => stage' = stage
  BY DEF RegistrationNext, registrationVars

(* Of every upload, whatever its text, size and sharing: it is loaded if   *)
(* and only if the parser takes it and nothing is wrong with it outside of *)
(* YAML's sets and pairs, and the walk over it visits at most one node     *)
(* more than MaxNodes (load_document, _enforce_shape).                     *)
THEOREM SoundDocumentsLoad == RegistrationSpec => []DocumentsLoaded
<1>1. RegistrationInit /\ stage = "load" => L!Init
  BY DEF RegistrationInit
<1>2. [RegistrationNext]_registrationVars /\ stage = "load" => [L!Next]_(L!vars)
  BY Zenon DEF RegistrationNext, registrationVars, loadingVars, L!vars
<1>3. stage = "load" /\ stage' = stage => (stage = "load")'
  OBVIOUS
<1>4. ~(stage = "load") /\ stage' = stage => (~(stage = "load"))'
  OBVIOUS
<1>5. /\ L!LoadedIffSound /\ L!WalkBounded => DocumentsLoaded
      /\ ~(stage = "load") => DocumentsLoaded
  BY DEF DocumentsLoaded
<1>6. L!Spec => [](L!LoadedIffSound /\ L!WalkBounded)
  BY RegistrationAssumption, LoadingKeeps
<1>. QED
  BY <1>1, <1>2, <1>3, <1>4, <1>5, <1>6, StageStays, PTL DEF RegistrationSpec, L!Spec

(* Of every document and every limit on the depth: where ReferenceResolver *)
(* does not refuse a node, no reference is left in what it returns, and it *)
(* refuses exactly the nodes that are made of a broken reference or have   *)
(* no end within the limit, so every cycle and nothing that is merely used *)
(* twice (_resolve, _resolve_reference, _dereference).                     *)
THEOREM ReferencesAreResolved == RegistrationSpec => []ReferencesResolved
<1>1. RegistrationInit /\ stage = "resolve" => R!Init
  BY DEF RegistrationInit
<1>2. [RegistrationNext]_registrationVars /\ stage = "resolve" => [R!Next]_(R!vars)
  BY Zenon DEF RegistrationNext, registrationVars, referenceVars, R!vars
<1>3. stage = "resolve" /\ stage' = stage => (stage = "resolve")'
  OBVIOUS
<1>4. ~(stage = "resolve") /\ stage' = stage => (~(stage = "resolve"))'
  OBVIOUS
<1>5. /\ R!NoReferenceLeft /\ R!UnresolvedForCause => ReferencesResolved
      /\ ~(stage = "resolve") => ReferencesResolved
  BY DEF ReferencesResolved
<1>6. R!Spec => [](R!NoReferenceLeft /\ R!UnresolvedForCause)
  BY RegistrationAssumption, ReferencesKeep
<1>. QED
  BY <1>1, <1>2, <1>3, <1>4, <1>5, <1>6, StageStays, PTL DEF RegistrationSpec, R!Spec

(* Of every document, in whatever order its paths stand and wherever the   *)
(* limit on operations falls: tool names are unique and claimed by the     *)
(* first operation that has one, every operation of a path that resolves   *)
(* has a result or is beyond the limit that is reported, the others none   *)
(* and the broken reference is reported, an exception has one of the       *)
(* causes that Fatal lists, and a missing base URL is explained            *)
(* (analyze_document).                                                     *)
THEOREM EveryOperationIsAccounted == RegistrationSpec => []OperationsAccounted
<1>1. RegistrationInit /\ stage = "analyse" => O!Init
  BY DEF RegistrationInit
<1>2. [RegistrationNext]_registrationVars /\ stage = "analyse" => [O!Next]_(O!vars)
  BY Zenon DEF RegistrationNext, registrationVars, analysisVars, O!vars
<1>3. stage = "analyse" /\ stage' = stage => (stage = "analyse")'
  OBVIOUS
<1>4. ~(stage = "analyse") /\ stage' = stage => (~(stage = "analyse"))'
  OBVIOUS
<1>5. /\ O!NamesUnique /\ O!FirstClaims /\ O!EveryOperationAccounted /\ O!BaseUrlExplained
           => OperationsAccounted
      /\ ~(stage = "analyse") => OperationsAccounted
  BY DEF OperationsAccounted
<1>6. O!Spec => [](/\ O!NamesUnique
                   /\ O!FirstClaims
                   /\ O!EveryOperationAccounted
                   /\ O!BaseUrlExplained)
  BY RegistrationAssumption, AnalysisKeeps
<1>. QED
  BY <1>1, <1>2, <1>3, <1>4, <1>5, <1>6, StageStays, PTL DEF RegistrationSpec, O!Spec

(* Of every identifier and path, and every limit on the length of a name   *)
(* that leaves room for a digest: the tool name is admitted by the         *)
(* contract, is its own name, and two identifiers share one only if they   *)
(* shared it before it was shortened (normalize_tool_name,                 *)
(* derive_tool_name, _bounded).                                            *)
THEOREM ToolNamesAreKept == RegistrationSpec => []NamesKept
<1>1. RegistrationInit /\ stage = "name" => N!Init
  BY DEF RegistrationInit
<1>2. [RegistrationNext]_registrationVars /\ stage = "name" => [N!Next]_(N!vars)
  BY Zenon DEF RegistrationNext, registrationVars, namingVars, N!vars
<1>3. stage = "name" /\ stage' = stage => (stage = "name")'
  OBVIOUS
<1>4. ~(stage = "name") /\ stage' = stage => (~(stage = "name"))'
  OBVIOUS
<1>5. /\ N!NamesAdmitted /\ N!NamingStable /\ N!ShorteningKeepsDistinct => NamesKept
      /\ ~(stage = "name") => NamesKept
  BY DEF NamesKept
<1>6. N!Spec => [](N!NamesAdmitted /\ N!NamingStable /\ N!ShorteningKeepsDistinct)
  BY RegistrationAssumption, NamingKeeps
<1>. QED
  BY <1>1, <1>2, <1>3, <1>4, <1>5, <1>6, StageStays, PTL DEF RegistrationSpec, N!Spec

(* For every schema, every value and every limit: where convert_schema     *)
(* does not refuse, the converted schema admits exactly the values that    *)
(* the source meant, less the properties that it does not name, at every   *)
(* level, and no keyword that constrains a value was dropped.              *)
THEOREM SchemasAreKept == RegistrationSpec => []SchemasKept
<1>1. RegistrationInit /\ stage = "convert" => SC!Init
  BY DEF RegistrationInit
<1>2. [RegistrationNext]_registrationVars /\ stage = "convert" => [SC!Next]_(SC!vars)
  BY Zenon DEF RegistrationNext, registrationVars, schemaVars, SC!vars
<1>3. stage = "convert" /\ stage' = stage => (stage = "convert")'
  OBVIOUS
<1>4. ~(stage = "convert") /\ stage' = stage => (~(stage = "convert"))'
  OBVIOUS
<1>5. /\ SC!ConversionFaithful /\ SC!NothingSilentlyDropped => SchemasKept
      /\ ~(stage = "convert") => SchemasKept
  BY DEF SchemasKept
<1>6. SC!Spec => [](SC!ConversionFaithful /\ SC!NothingSilentlyDropped)
  BY RegistrationAssumption, SchemasAlwaysKept
<1>. QED
  BY <1>1, <1>2, <1>3, <1>4, <1>5, <1>6, StageStays, PTL DEF RegistrationSpec, SC!Spec

(* For every history of registrations and publications, and whatever order *)
(* the database returns rows in: published versions ascend, and an open    *)
(* draft proposes one that can be published (_reject_version_regression,   *)
(* _next_version).                                                         *)
THEOREM VersionLinesAscend == RegistrationSpec => []VersionsAscend
<1>1. RegistrationInit /\ stage = "version" => V!Init
  BY DEF RegistrationInit
<1>2. [RegistrationNext]_registrationVars /\ stage = "version" => [V!Next]_(V!vars)
  BY Zenon DEF RegistrationNext, registrationVars, versionVars, V!vars
<1>3. stage = "version" /\ stage' = stage => (stage = "version")'
  OBVIOUS
<1>4. ~(stage = "version") /\ stage' = stage => (~(stage = "version"))'
  OBVIOUS
<1>5. (V!VersionsAscend => VersionsAscend) /\ (~(stage = "version") => VersionsAscend)
  BY DEF VersionsAscend
<1>6. V!Spec => []V!VersionsAscend
  BY RegistrationAssumption, VersionLineAscends
<1>. QED
  BY <1>1, <1>2, <1>3, <1>4, <1>5, <1>6, StageStays, PTL DEF RegistrationSpec, V!Spec
=============================================================================
