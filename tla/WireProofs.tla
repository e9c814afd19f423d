----------------------------- MODULE WireProofs -----------------------------
(***************************************************************************)
(* Proofs about what goes over the wire.  First the transport, for every   *)
(* response limit and every chunk size (Transport).  Then the request that *)
(* it carries: that RequestsFaithful holds of every behaviour of           *)
(* Perimeter, whatever the operations and the arguments.                   *)
(*                                                                         *)
(* The second is in four parts: texts, and what str.replace and the scan   *)
(* of a template do to them one character at a time; pointers, which are   *)
(* read as they are written whatever a name holds; conversion, which ends  *)
(* in a tool only if every check passes; and the loop of prepare_request,  *)
(* whose invariant (Holds) says what is in place after so many bindings.   *)
(***************************************************************************)
EXTENDS Perimeter, Transport, FiniteSetTheorems, NaturalsInduction, WellFoundedInduction,
        SequenceTheorems, TLAPS

(* Before the call nothing has arrived. *)
LEMMA InitIInv == Init => IInv
<1>1. -1 \in -1..MaxDeclared
  BY LimitsAssumption
<1>5. Init => ended \in BOOLEAN
  BY Zenon DEF Init
<1>6. Init => status \in Statuses \cup {"none"} /\ verdict \in Verdicts
  BY DEF Init, Statuses, Verdicts
<1>2. Init => TypeOK
  BY <1>1, <1>5, <1>6 DEF Init, TypeOK
<1>3. Init => IntakeBounded
  BY LimitsAssumption DEF Init, IntakeBounded, Ceiling
<1>4. Init => ResultsComplete /\ RefusedForCause /\ Progress
  BY DEF Init, ResultsComplete, RefusedForCause, Progress
<1>. QED  BY <1>2, <1>3, <1>4 DEF IInv

(* Opening the call. *)
LEMMA SendStep == IInv /\ Send => IInv'
BY LimitsAssumption
   DEF Send, IInv, TypeOK, IntakeBounded, ResultsComplete, RefusedForCause, Progress, Ceiling,
       Statuses, Verdicts

(* The declared length can end the call before any byte of the body. *)
LEMMA RespondStep ==
  ASSUME IInv, NEW code \in Statuses, NEW length \in -1..MaxDeclared, Respond(code, length)
  PROVE  IInv'
BY LimitsAssumption
   DEF Respond, DeclaredLengthExceeds, IInv, TypeOK, IntakeBounded, ResultsComplete,
       RefusedForCause, Progress, Ceiling, Statuses, Verdicts

(* A piece that does not reach the ceiling is collected whole; one that    *)
(* does brings in at most a chunk more than the limit.                     *)
LEMMA ReadStep ==
  ASSUME IInv, NEW n \in 1..ChunkBytes, Read(n)
  PROVE  IInv'
<1>1. /\ pc = "reading" /\ arrived = collected /\ collected <= MaxResponseBytes
      /\ collected \in Nat /\ arrived' = arrived + n /\ n \in Nat /\ n <= ChunkBytes
      /\ verdict = "none" /\ calls = 1 /\ ~ended
  BY LimitsAssumption DEF Read, IInv, TypeOK, Progress
<1>2. UNCHANGED <<status, declared, verdict, ended, calls>>
  BY DEF Read
<1>3. CASE collected + n >= Ceiling
  <2>1. pc' = "returned" /\ collected' = Ceiling /\ body' = Ceiling
    BY <1>3 DEF Read
  <2>2. arrived' \in Nat /\ arrived' > MaxResponseBytes /\ arrived' <= MaxResponseBytes + ChunkBytes
    BY <1>1, <1>3, LimitsAssumption DEF Ceiling
  <2>. QED
    BY <1>1, <1>2, <2>1, <2>2, LimitsAssumption
    DEF IInv, TypeOK, IntakeBounded, ResultsComplete, RefusedForCause, Progress, Ceiling
<1>4. CASE ~(collected + n >= Ceiling)
  <2>1. pc' = pc /\ collected' = collected + n /\ body' = body
    BY <1>4 DEF Read
  <2>2. collected' \in Nat /\ collected' <= MaxResponseBytes /\ arrived' = collected'
    BY <1>1, <1>4, <2>1, LimitsAssumption DEF Ceiling
  <2>. QED
    BY <1>1, <1>2, <2>1, <2>2, LimitsAssumption
    DEF IInv, TypeOK, IntakeBounded, ResultsComplete, RefusedForCause, Progress, Ceiling
<1>. QED  BY <1>3, <1>4

(* At the end of the body all that arrived was collected. *)
LEMMA EndStep == IInv /\ EndOfBody => IInv'
BY LimitsAssumption
   DEF EndOfBody, IInv, TypeOK, IntakeBounded, ResultsComplete, RefusedForCause, Progress,
       Ceiling, Statuses, Verdicts

(* Whatever httpx raises ends the call without a result. *)
LEMMA BreakStep ==
  ASSUME IInv, NEW kind \in {"upstream_timeout", "upstream_unavailable"}, Break(kind)
  PROVE  IInv'
BY LimitsAssumption
   DEF Break, IInv, TypeOK, IntakeBounded, ResultsComplete, RefusedForCause, Progress, Ceiling,
       Statuses, Verdicts

(* A body that was cut off is one byte too long, so it is not judged a     *)
(* result.                                                                 *)
LEMMA JudgeStep == IInv /\ Judge => IInv'
BY LimitsAssumption
   DEF Judge, Judgement, IInv, TypeOK, IntakeBounded, ResultsComplete, RefusedForCause, Progress,
       Ceiling, Statuses, Verdicts

(* Every step keeps the invariant. *)
LEMMA NextIInv == IInv /\ [Next]_vars => IInv'
<1> SUFFICES ASSUME IInv, [Next]_vars PROVE IInv'
  OBVIOUS
<1>1. ASSUME UNCHANGED vars PROVE IInv'
  BY <1>1
  DEF vars, IInv, TypeOK, IntakeBounded, ResultsComplete, RefusedForCause, Progress
<1>. QED
  BY <1>1, SendStep, RespondStep, ReadStep, EndStep, BreakStep, JudgeStep DEF Next

(* The inductive invariant holds whatever the upstream does. *)
THEOREM Invariance == Spec => []IInv
BY InitIInv, NextIInv, PTL DEF Spec

(* The intake of a call is bounded by the limit plus one chunk. *)
THEOREM MemoryBounded == Spec => []IntakeBounded
<1>1. IInv => IntakeBounded
  BY DEF IInv
<1>. QED  BY <1>1, Invariance, PTL

(* A truncated body is never passed on as a result. *)
THEOREM NeverTruncated == Spec => []ResultsComplete
<1>1. IInv => ResultsComplete
  BY DEF IInv
<1>. QED  BY <1>1, Invariance, PTL

(* A body within the limit is never refused for its size. *)
THEOREM NeverOverzealous == Spec => []RefusedForCause
<1>1. IInv => RefusedForCause
  BY DEF IInv
<1>. QED  BY <1>1, Invariance, PTL

(* A call leaves the process at most once. *)
THEOREM NoRetry == Spec => []SentOnce
<1>1. IInv => SentOnce
  BY DEF IInv, Progress, TypeOK, SentOnce
<1>. QED  BY <1>1, Invariance, PTL

-----------------------------------------------------------------------------
(* Every set of numbers that is not empty has a least one. *)
LEMMA LeastExists ==
  ASSUME NEW S \in SUBSET Nat, S # {}
  PROVE  \E m \in S : \A k \in S : m <= k
<1> DEFINE Less == {ss \in Nat \X Nat : ss[1] < ss[2]}
<1>1. Less = OpToRel(<, Nat)
  BY Zenon DEF OpToRel
<1>2. IsWellFoundedOn(Less, Nat)
  BY <1>1, NatLessThanWellFounded, Zenon
<1> HIDE DEF Less
<1>3. \E m \in S : \A k \in S : <<k, m>> \notin Less
  BY <1>2, WFMin
<1>4. \A k, m \in Nat : k < m => <<k, m>> \in Less
  BY DEF Less
<1>5. \A k, m \in Nat : ~(k < m) => m <= k
  OBVIOUS
<1>. QED  BY <1>3, <1>4, <1>5

(* Counting reaches every number. *)
LEMMA CountUp ==
  ASSUME NEW S, 0 \in S, \A i \in Nat : i \in S => i + 1 \in S
  PROVE  Nat \subseteq S
<1> SUFFICES ASSUME Nat \ S # {} PROVE FALSE
  OBVIOUS
<1>1. PICK n \in Nat \ S : \A k \in Nat \ S : n <= k
  <2>1. Nat \ S \in SUBSET Nat
    OBVIOUS
  <2>. QED  BY <2>1, LeastExists
<1>2. n # 0 /\ n - 1 \in Nat /\ (n - 1) + 1 = n /\ ~ n <= n - 1
  BY <1>1
<1>. QED  BY <1>1, <1>2

(* So does making a sequence longer. *)
LEMMA Growing ==
  ASSUME NEW Es, NEW S, <<>> \in S, \A s \in Seq(Es), c \in Es : s \in S => Append(s, c) \in S
  PROVE  Seq(Es) \subseteq S
<1> DEFINE N == {n \in Nat : \A s \in Seq(Es) : Len(s) = n => s \in S}
<1>1. 0 \in N
  BY EmptySeq, LenProperties
<1>2. ASSUME NEW n \in Nat, n \in N PROVE n + 1 \in N
  <2> SUFFICES ASSUME NEW s \in Seq(Es), Len(s) = n + 1 PROVE s \in S
    OBVIOUS
  <2>1. s # <<>>
    BY EmptySeq
  <2>2. PICK r \in Seq(Es), c \in Es : s = Append(r, c)
    BY <2>1, SequenceEmptyOrAppend
  <2>3. Len(r) \in Nat /\ Len(s) = Len(r) + 1
    BY <2>2, AppendProperties, LenProperties
  <2>4. Len(r) = n
    BY <2>3
  <2>. QED  BY <1>2, <2>2, <2>4
<1> HIDE DEF N
<1>3. Nat \subseteq N
  BY <1>1, <1>2, CountUp
<1>4. ASSUME NEW s \in Seq(Es) PROVE s \in S
  <2>1. Len(s) \in N
    BY <1>3, LenProperties
  <2>. QED  BY <2>1 DEF N
<1>. QED  BY <1>4

(* f is what str.replace has done after each of n characters. *)
ReplacedRun(f, text, old, new, n) ==
  f = [i \in 0 .. n |->
         IF i = 0 THEN [out |-> <<>>, held |-> 0, met |-> FALSE]
         ELSE Q!ReplaceStep(f[i - 1], text[i], old, new)]

(* The recursion of Replaced defines a function. *)
LEMMA ReplacedRunExists ==
  ASSUME NEW text, NEW old, NEW new
  PROVE  \A n \in Nat : \E f : ReplacedRun(f, text, old, new, n)
<1> DEFINE bad == {n \in Nat : ~ \E f : ReplacedRun(f, text, old, new, n)}
           on(i, prev) ==
             IF i = 0 THEN [out |-> <<>>, held |-> 0, met |-> FALSE]
             ELSE Q!ReplaceStep(prev, text[i], old, new)
<1> SUFFICES ASSUME bad # {} PROVE FALSE
  OBVIOUS
<1>1. PICK n \in bad : \A k \in bad : n <= k
  <2>1. bad \in SUBSET Nat
    OBVIOUS
  <2> HIDE DEF bad
  <2>. QED  BY <2>1, LeastExists
<1>2. n \in Nat /\ ~ \E f : ReplacedRun(f, text, old, new, n)
  OBVIOUS
<1> HIDE DEF on
<1>3. n # 0
  <2>1. ReplacedRun([i \in 0 .. 0 |-> on(0, 0)], text, old, new, 0)
    BY DEF ReplacedRun, on
  <2>. QED  BY <1>2, <2>1
<1>4. n - 1 \in Nat /\ n - 1 \notin bad
  BY <1>1, <1>2, <1>3
<1>5. PICK f : ReplacedRun(f, text, old, new, n - 1)
  BY <1>4
<1>6. f = [i \in 0 .. n - 1 |-> on(i, f[i - 1])]
  BY <1>5 DEF ReplacedRun, on
<1> DEFINE g == [i \in 0 .. n |-> IF i = n THEN on(n, f[n - 1]) ELSE f[i]]
<1>7. g = [i \in 0 .. n |-> on(i, g[i - 1])]
  <2>1. ASSUME NEW i \in 0 .. n PROVE g[i] = on(i, g[i - 1])
    <3>1. i # 0 => i - 1 \in 0 .. n /\ g[i - 1] = f[i - 1]
      BY <1>2
    <3>2. on(0, g[0 - 1]) = on(0, f[0 - 1])
      BY DEF on
    <3>3. CASE i = n
      BY <1>3, <3>1, <3>3
    <3>4. CASE i # n
      <4>1. i \in 0 .. (n - 1) /\ g[i] = f[i]
        BY <1>2, <3>4
      <4>2. f[i] = on(i, f[i - 1])
        BY <1>6, <4>1
      <4>. QED  BY <3>1, <3>2, <4>1, <4>2
    <3>. QED  BY <3>3, <3>4
  <2>2. g = [i \in 0 .. n |-> g[i]]
    OBVIOUS
  <2> HIDE DEF g
  <2>. QED  BY <2>1, <2>2
<1> HIDE DEF g
<1>8. ReplacedRun(g, text, old, new, n)
  BY <1>7 DEF ReplacedRun, on
<1>. QED  BY <1>2, <1>8

(* f is what Replaced goes through. *)
ReplacedOf(f, text, old, new) ==
  /\ Q!Replaced(text, old, new) = f[Len(text)]
  /\ f[0] = [out |-> <<>>, held |-> 0, met |-> FALSE]
  /\ \A i \in 1 .. Len(text) :
       f[i] = Q!ReplaceStep(f[i - 1], text[i], old, new)

(* So Replaced takes one character after the other. *)
LEMMA ReplacedIs ==
  ASSUME NEW text, NEW old, NEW new, Len(text) \in Nat
  PROVE  \E f : ReplacedOf(f, text, old, new)
<1> DEFINE run == CHOOSE f : ReplacedRun(f, text, old, new, Len(text))
           on(i, prev) ==
             IF i = 0 THEN [out |-> <<>>, held |-> 0, met |-> FALSE]
             ELSE Q!ReplaceStep(prev, text[i], old, new)
<1>1. ReplacedRun(run, text, old, new, Len(text))
  BY ReplacedRunExists
<1>2. Q!Replaced(text, old, new) = run[Len(text)]
  BY DEF ReplacedRun, Q!Replaced
<1> HIDE DEF run, on
<1>3. run = [i \in 0 .. Len(text) |-> on(i, run[i - 1])]
  BY <1>1 DEF ReplacedRun, on
<1>4. /\ run[0] = on(0, run[0 - 1])
      /\ \A i \in 1 .. Len(text) : run[i] = on(i, run[i - 1])
  BY <1>3
<1>5. run[0] = [out |-> <<>>, held |-> 0, met |-> FALSE]
  BY <1>4 DEF on
<1>6. \A i \in 1 .. Len(text) :
        run[i] = Q!ReplaceStep(run[i - 1], text[i], old, new)
  <2>1. ASSUME NEW i \in 1 .. Len(text)
        PROVE  on(i, run[i - 1]) = Q!ReplaceStep(run[i - 1], text[i], old, new)
    <3>1. i # 0
      OBVIOUS
    <3>. QED  BY <3>1, Zenon DEF on
  <2>. QED  BY <1>4, <2>1
<1>. QED  BY <1>2, <1>5, <1>6, Zenon DEF ReplacedOf

(* Replaced of nothing. *)
LEMMA ReplacedEmpty ==
  ASSUME NEW old, NEW new
  PROVE  Q!Replaced(<<>>, old, new) = [out |-> <<>>, held |-> 0, met |-> FALSE]
<1>1. Len(<<>>) = 0
  OBVIOUS
<1>2. Len(<<>>) \in Nat
  BY <1>1
<1>3. PICK f : ReplacedOf(f, <<>>, old, new)
  BY <1>2, ReplacedIs, Zenon
<1>. QED  BY <1>1, <1>3, Zenon DEF ReplacedOf

(* One more is a step more. *)
LEMMA ReplacedAppend ==
  ASSUME NEW Es, NEW s \in Seq(Es), NEW c \in Es, NEW old, NEW new
  PROVE  Q!Replaced(Append(s, c), old, new)
           = Q!ReplaceStep(Q!Replaced(s, old, new), c, old, new)
<1> DEFINE t == Append(s, c)
<1>1. /\ Len(s) \in Nat /\ Len(t) = Len(s) + 1
      /\ \A i \in 1 .. Len(s) : t[i] = s[i]
      /\ t[Len(s) + 1] = c
  BY AppendProperties, LenProperties
<1> HIDE DEF t
<1>2. PICK f : ReplacedOf(f, s, old, new)
  BY <1>1, ReplacedIs, Zenon
<1>3. Len(t) \in Nat
  BY <1>1
<1>4. PICK g : ReplacedOf(g, t, old, new)
  BY <1>3, ReplacedIs, Zenon
<1> DEFINE same == {i \in Nat : i <= Len(s) => f[i] = g[i]}
<1>5. 0 \in same
  BY <1>2, <1>4 DEF ReplacedOf
<1>6. ASSUME NEW i \in Nat, i \in same PROVE i + 1 \in same
  <2> SUFFICES ASSUME i + 1 <= Len(s) PROVE f[i + 1] = g[i + 1]
    OBVIOUS
  <2>1. /\ i + 1 \in 1 .. Len(s) /\ i + 1 \in 1 .. Len(t) /\ i <= Len(s)
        /\ (i + 1) - 1 = i
    BY <1>1
  <2>2. f[i + 1] = Q!ReplaceStep(f[i], s[i + 1], old, new)
    BY <1>2, <2>1 DEF ReplacedOf
  <2>3. g[i + 1] = Q!ReplaceStep(g[i], t[i + 1], old, new)
    BY <1>4, <2>1 DEF ReplacedOf
  <2>4. f[i] = g[i] /\ s[i + 1] = t[i + 1]
    BY <1>1, <1>6, <2>1
  <2>. QED  BY <2>2, <2>3, <2>4, Zenon
<1> HIDE DEF same
<1>7. Len(s) \in same
  BY <1>1, <1>5, <1>6, CountUp
<1>8. f[Len(s)] = g[Len(s)]
  BY <1>1, <1>7 DEF same
<1>9. Len(s) + 1 \in 1 .. Len(t) /\ (Len(s) + 1) - 1 = Len(s)
  BY <1>1
<1>10. g[Len(t)] = Q!ReplaceStep(g[Len(s)], c, old, new)
  BY <1>1, <1>4, <1>9 DEF ReplacedOf
<1>. QED  BY <1>2, <1>4, <1>8, <1>10, Zenon DEF t, ReplacedOf

(* f is what the first n characters of a text are split into. *)
SplitRun(f, text, sep, n) ==
  f = [i \in 0 .. n |->
         IF i = 0 THEN <<<<>>>>
         ELSE Q!SplitStep(f[i - 1], text[i], sep)]

(* The recursion of Split defines a function. *)
LEMMA SplitRunExists ==
  ASSUME NEW text, NEW sep
  PROVE  \A n \in Nat : \E f : SplitRun(f, text, sep, n)
<1> DEFINE bad == {n \in Nat : ~ \E f : SplitRun(f, text, sep, n)}
           on(i, prev) ==
             IF i = 0 THEN <<<<>>>>
             ELSE Q!SplitStep(prev, text[i], sep)
<1> SUFFICES ASSUME bad # {} PROVE FALSE
  OBVIOUS
<1>1. PICK n \in bad : \A k \in bad : n <= k
  <2>1. bad \in SUBSET Nat
    OBVIOUS
  <2> HIDE DEF bad
  <2>. QED  BY <2>1, LeastExists
<1>2. n \in Nat /\ ~ \E f : SplitRun(f, text, sep, n)
  OBVIOUS
<1> HIDE DEF on
<1>3. n # 0
  <2>1. SplitRun([i \in 0 .. 0 |-> on(0, 0)], text, sep, 0)
    BY DEF SplitRun, on
  <2>. QED  BY <1>2, <2>1
<1>4. n - 1 \in Nat /\ n - 1 \notin bad
  BY <1>1, <1>2, <1>3
<1>5. PICK f : SplitRun(f, text, sep, n - 1)
  BY <1>4
<1>6. f = [i \in 0 .. n - 1 |-> on(i, f[i - 1])]
  BY <1>5 DEF SplitRun, on
<1> DEFINE g == [i \in 0 .. n |-> IF i = n THEN on(n, f[n - 1]) ELSE f[i]]
<1>7. g = [i \in 0 .. n |-> on(i, g[i - 1])]
  <2>1. ASSUME NEW i \in 0 .. n PROVE g[i] = on(i, g[i - 1])
    <3>1. i # 0 => i - 1 \in 0 .. n /\ g[i - 1] = f[i - 1]
      BY <1>2
    <3>2. on(0, g[0 - 1]) = on(0, f[0 - 1])
      BY DEF on
    <3>3. CASE i = n
      BY <1>3, <3>1, <3>3
    <3>4. CASE i # n
      <4>1. i \in 0 .. (n - 1) /\ g[i] = f[i]
        BY <1>2, <3>4
      <4>2. f[i] = on(i, f[i - 1])
        BY <1>6, <4>1
      <4>. QED  BY <3>1, <3>2, <4>1, <4>2
    <3>. QED  BY <3>3, <3>4
  <2>2. g = [i \in 0 .. n |-> g[i]]
    OBVIOUS
  <2> HIDE DEF g
  <2>. QED  BY <2>1, <2>2
<1> HIDE DEF g
<1>8. SplitRun(g, text, sep, n)
  BY <1>7 DEF SplitRun, on
<1>. QED  BY <1>2, <1>8

(* f is what Split goes through. *)
SplitOf(f, text, sep) ==
  /\ Q!Split(text, sep) = f[Len(text)]
  /\ f[0] = <<<<>>>>
  /\ \A i \in 1 .. Len(text) :
       f[i] = Q!SplitStep(f[i - 1], text[i], sep)

(* So Split takes one character after the other. *)
LEMMA SplitIs ==
  ASSUME NEW text, NEW sep, Len(text) \in Nat
  PROVE  \E f : SplitOf(f, text, sep)
<1> DEFINE run == CHOOSE f : SplitRun(f, text, sep, Len(text))
           on(i, prev) ==
             IF i = 0 THEN <<<<>>>>
             ELSE Q!SplitStep(prev, text[i], sep)
<1>1. SplitRun(run, text, sep, Len(text))
  BY SplitRunExists
<1>2. Q!Split(text, sep) = run[Len(text)]
  BY DEF SplitRun, Q!Split
<1> HIDE DEF run, on
<1>3. run = [i \in 0 .. Len(text) |-> on(i, run[i - 1])]
  BY <1>1 DEF SplitRun, on
<1>4. /\ run[0] = on(0, run[0 - 1])
      /\ \A i \in 1 .. Len(text) : run[i] = on(i, run[i - 1])
  BY <1>3
<1>5. run[0] = <<<<>>>>
  BY <1>4 DEF on
<1>6. \A i \in 1 .. Len(text) :
        run[i] = Q!SplitStep(run[i - 1], text[i], sep)
  <2>1. ASSUME NEW i \in 1 .. Len(text)
        PROVE  on(i, run[i - 1]) = Q!SplitStep(run[i - 1], text[i], sep)
    <3>1. i # 0
      OBVIOUS
    <3>. QED  BY <3>1, Zenon DEF on
  <2>. QED  BY <1>4, <2>1
<1>. QED  BY <1>2, <1>5, <1>6, Zenon DEF SplitOf

(* Split of nothing. *)
LEMMA SplitEmpty ==
  ASSUME NEW sep
  PROVE  Q!Split(<<>>, sep) = <<<<>>>>
<1>1. Len(<<>>) = 0
  OBVIOUS
<1>2. Len(<<>>) \in Nat
  BY <1>1
<1>3. PICK f : SplitOf(f, <<>>, sep)
  BY <1>2, SplitIs, Zenon
<1>. QED  BY <1>1, <1>3, Zenon DEF SplitOf

(* One more is a step more. *)
LEMMA SplitAppend ==
  ASSUME NEW Es, NEW s \in Seq(Es), NEW c \in Es, NEW sep
  PROVE  Q!Split(Append(s, c), sep)
           = Q!SplitStep(Q!Split(s, sep), c, sep)
<1> DEFINE t == Append(s, c)
<1>1. /\ Len(s) \in Nat /\ Len(t) = Len(s) + 1
      /\ \A i \in 1 .. Len(s) : t[i] = s[i]
      /\ t[Len(s) + 1] = c
  BY AppendProperties, LenProperties
<1> HIDE DEF t
<1>2. PICK f : SplitOf(f, s, sep)
  BY <1>1, SplitIs, Zenon
<1>3. Len(t) \in Nat
  BY <1>1
<1>4. PICK g : SplitOf(g, t, sep)
  BY <1>3, SplitIs, Zenon
<1> DEFINE same == {i \in Nat : i <= Len(s) => f[i] = g[i]}
<1>5. 0 \in same
  BY <1>2, <1>4 DEF SplitOf
<1>6. ASSUME NEW i \in Nat, i \in same PROVE i + 1 \in same
  <2> SUFFICES ASSUME i + 1 <= Len(s) PROVE f[i + 1] = g[i + 1]
    OBVIOUS
  <2>1. /\ i + 1 \in 1 .. Len(s) /\ i + 1 \in 1 .. Len(t) /\ i <= Len(s)
        /\ (i + 1) - 1 = i
    BY <1>1
  <2>2. f[i + 1] = Q!SplitStep(f[i], s[i + 1], sep)
    BY <1>2, <2>1 DEF SplitOf
  <2>3. g[i + 1] = Q!SplitStep(g[i], t[i + 1], sep)
    BY <1>4, <2>1 DEF SplitOf
  <2>4. f[i] = g[i] /\ s[i + 1] = t[i + 1]
    BY <1>1, <1>6, <2>1
  <2>. QED  BY <2>2, <2>3, <2>4, Zenon
<1> HIDE DEF same
<1>7. Len(s) \in same
  BY <1>1, <1>5, <1>6, CountUp
<1>8. f[Len(s)] = g[Len(s)]
  BY <1>1, <1>7 DEF same
<1>9. Len(s) + 1 \in 1 .. Len(t) /\ (Len(s) + 1) - 1 = Len(s)
  BY <1>1
<1>10. g[Len(t)] = Q!SplitStep(g[Len(s)], c, sep)
  BY <1>1, <1>4, <1>9 DEF SplitOf
<1>. QED  BY <1>2, <1>4, <1>8, <1>10, Zenon DEF t, SplitOf

(* f is what is read with the first n tokens. *)
ReadTokensRun(f, d, tokens, n) ==
  f = [i \in 0 .. n |->
         IF i = 0 THEN d
         ELSE IF f[i - 1].t = "object" /\ tokens[i] \in DOMAIN f[i - 1].e
              THEN f[i - 1].e[tokens[i]] ELSE Q!Absent]

(* The recursion of ReadTokens defines a function. *)
LEMMA ReadTokensRunExists ==
  ASSUME NEW d, NEW tokens
  PROVE  \A n \in Nat : \E f : ReadTokensRun(f, d, tokens, n)
<1> DEFINE bad == {n \in Nat : ~ \E f : ReadTokensRun(f, d, tokens, n)}
           on(i, prev) ==
             IF i = 0 THEN d
             ELSE IF prev.t = "object" /\ tokens[i] \in DOMAIN prev.e
                  THEN prev.e[tokens[i]] ELSE Q!Absent
<1> SUFFICES ASSUME bad # {} PROVE FALSE
  OBVIOUS
<1>1. PICK n \in bad : \A k \in bad : n <= k
  <2>1. bad \in SUBSET Nat
    OBVIOUS
  <2> HIDE DEF bad
  <2>. QED  BY <2>1, LeastExists
<1>2. n \in Nat /\ ~ \E f : ReadTokensRun(f, d, tokens, n)
  OBVIOUS
<1> HIDE DEF on
<1>3. n # 0
  <2>1. ReadTokensRun([i \in 0 .. 0 |-> on(0, 0)], d, tokens, 0)
    BY DEF ReadTokensRun, on
  <2>. QED  BY <1>2, <2>1
<1>4. n - 1 \in Nat /\ n - 1 \notin bad
  BY <1>1, <1>2, <1>3
<1>5. PICK f : ReadTokensRun(f, d, tokens, n - 1)
  BY <1>4
<1>6. f = [i \in 0 .. n - 1 |-> on(i, f[i - 1])]
  BY <1>5 DEF ReadTokensRun, on
<1> DEFINE g == [i \in 0 .. n |-> IF i = n THEN on(n, f[n - 1]) ELSE f[i]]
<1>7. g = [i \in 0 .. n |-> on(i, g[i - 1])]
  <2>1. ASSUME NEW i \in 0 .. n PROVE g[i] = on(i, g[i - 1])
    <3>1. i # 0 => i - 1 \in 0 .. n /\ g[i - 1] = f[i - 1]
      BY <1>2
    <3>2. on(0, g[0 - 1]) = on(0, f[0 - 1])
      BY DEF on
    <3>3. CASE i = n
      BY <1>3, <3>1, <3>3
    <3>4. CASE i # n
      <4>1. i \in 0 .. (n - 1) /\ g[i] = f[i]
        BY <1>2, <3>4
      <4>2. f[i] = on(i, f[i - 1])
        BY <1>6, <4>1
      <4>. QED  BY <3>1, <3>2, <4>1, <4>2
    <3>. QED  BY <3>3, <3>4
  <2>2. g = [i \in 0 .. n |-> g[i]]
    OBVIOUS
  <2> HIDE DEF g
  <2>. QED  BY <2>1, <2>2
<1> HIDE DEF g
<1>8. ReadTokensRun(g, d, tokens, n)
  BY <1>7 DEF ReadTokensRun, on
<1>. QED  BY <1>2, <1>8

(* f is what ReadTokens goes through. *)
ReadTokensOf(f, d, tokens) ==
  /\ Q!ReadTokens(d, tokens) = f[Len(tokens)]
  /\ f[0] = d
  /\ \A i \in 1 .. Len(tokens) :
       f[i] = IF f[i - 1].t = "object" /\ tokens[i] \in DOMAIN f[i - 1].e
              THEN f[i - 1].e[tokens[i]] ELSE Q!Absent

(* So ReadTokens takes one token after the other. *)
LEMMA ReadTokensIs ==
  ASSUME NEW d, NEW tokens, Len(tokens) \in Nat
  PROVE  \E f : ReadTokensOf(f, d, tokens)
<1> DEFINE run == CHOOSE f : ReadTokensRun(f, d, tokens, Len(tokens))
           on(i, prev) ==
             IF i = 0 THEN d
             ELSE IF prev.t = "object" /\ tokens[i] \in DOMAIN prev.e
                  THEN prev.e[tokens[i]] ELSE Q!Absent
<1>1. ReadTokensRun(run, d, tokens, Len(tokens))
  BY ReadTokensRunExists
<1>2. Q!ReadTokens(d, tokens) = run[Len(tokens)]
  BY DEF ReadTokensRun, Q!ReadTokens
<1> HIDE DEF run, on
<1>3. run = [i \in 0 .. Len(tokens) |-> on(i, run[i - 1])]
  BY <1>1 DEF ReadTokensRun, on
<1>4. /\ run[0] = on(0, run[0 - 1])
      /\ \A i \in 1 .. Len(tokens) : run[i] = on(i, run[i - 1])
  BY <1>3
<1>5. run[0] = d
  BY <1>4 DEF on
<1>6. \A i \in 1 .. Len(tokens) :
        run[i] = IF run[i - 1].t = "object" /\ tokens[i] \in DOMAIN run[i - 1].e
                 THEN run[i - 1].e[tokens[i]] ELSE Q!Absent
  <2>1. ASSUME NEW i \in 1 .. Len(tokens)
        PROVE  on(i, run[i - 1]) = IF run[i - 1].t = "object" /\ tokens[i] \in DOMAIN run[i - 1].e
                                   THEN run[i - 1].e[tokens[i]] ELSE Q!Absent
    <3>1. i # 0
      OBVIOUS
    <3>. QED  BY <3>1, Zenon DEF on
  <2>. QED  BY <1>4, <2>1
<1>. QED  BY <1>2, <1>5, <1>6, Zenon DEF ReadTokensOf

(* f is what is written with the last n tokens. *)
WriteTokensRun(f, d, tokens, value, n) ==
  f = [i \in 0 .. n |->
         IF i = 0 THEN value
         ELSE Q!SetKey(Q!Holder(d, tokens, Len(tokens) + 1 - i),
                       tokens[Len(tokens) + 1 - i], f[i - 1])]

(* The recursion of WriteTokens defines a function. *)
LEMMA WriteTokensRunExists ==
  ASSUME NEW d, NEW tokens, NEW value
  PROVE  \A n \in Nat : \E f : WriteTokensRun(f, d, tokens, value, n)
<1> DEFINE bad == {n \in Nat : ~ \E f : WriteTokensRun(f, d, tokens, value, n)}
           on(i, prev) ==
             IF i = 0 THEN value
             ELSE Q!SetKey(Q!Holder(d, tokens, Len(tokens) + 1 - i),
                           tokens[Len(tokens) + 1 - i], prev)
<1> SUFFICES ASSUME bad # {} PROVE FALSE
  OBVIOUS
<1>1. PICK n \in bad : \A k \in bad : n <= k
  <2>1. bad \in SUBSET Nat
    OBVIOUS
  <2> HIDE DEF bad
  <2>. QED  BY <2>1, LeastExists
<1>2. n \in Nat /\ ~ \E f : WriteTokensRun(f, d, tokens, value, n)
  OBVIOUS
<1> HIDE DEF on
<1>3. n # 0
  <2>1. WriteTokensRun([i \in 0 .. 0 |-> on(0, 0)], d, tokens, value, 0)
    BY DEF WriteTokensRun, on
  <2>. QED  BY <1>2, <2>1
<1>4. n - 1 \in Nat /\ n - 1 \notin bad
  BY <1>1, <1>2, <1>3
<1>5. PICK f : WriteTokensRun(f, d, tokens, value, n - 1)
  BY <1>4
<1>6. f = [i \in 0 .. n - 1 |-> on(i, f[i - 1])]
  BY <1>5 DEF WriteTokensRun, on
<1> DEFINE g == [i \in 0 .. n |-> IF i = n THEN on(n, f[n - 1]) ELSE f[i]]
<1>7. g = [i \in 0 .. n |-> on(i, g[i - 1])]
  <2>1. ASSUME NEW i \in 0 .. n PROVE g[i] = on(i, g[i - 1])
    <3>1. i # 0 => i - 1 \in 0 .. n /\ g[i - 1] = f[i - 1]
      BY <1>2
    <3>2. on(0, g[0 - 1]) = on(0, f[0 - 1])
      BY DEF on
    <3>3. CASE i = n
      BY <1>3, <3>1, <3>3
    <3>4. CASE i # n
      <4>1. i \in 0 .. (n - 1) /\ g[i] = f[i]
        BY <1>2, <3>4
      <4>2. f[i] = on(i, f[i - 1])
        BY <1>6, <4>1
      <4>. QED  BY <3>1, <3>2, <4>1, <4>2
    <3>. QED  BY <3>3, <3>4
  <2>2. g = [i \in 0 .. n |-> g[i]]
    OBVIOUS
  <2> HIDE DEF g
  <2>. QED  BY <2>1, <2>2
<1> HIDE DEF g
<1>8. WriteTokensRun(g, d, tokens, value, n)
  BY <1>7 DEF WriteTokensRun, on
<1>. QED  BY <1>2, <1>8

(* f is what WriteTokens goes through. *)
WriteTokensOf(f, d, tokens, value) ==
  /\ Q!WriteTokens(d, tokens, value) = f[Len(tokens)]
  /\ f[0] = value
  /\ \A i \in 1 .. Len(tokens) :
       f[i] = Q!SetKey(Q!Holder(d, tokens, Len(tokens) + 1 - i),
                       tokens[Len(tokens) + 1 - i], f[i - 1])

(* So WriteTokens takes one token after the other, from the last. *)
LEMMA WriteTokensIs ==
  ASSUME NEW d, NEW tokens, NEW value, Len(tokens) \in Nat
  PROVE  \E f : WriteTokensOf(f, d, tokens, value)
<1> DEFINE run == CHOOSE f : WriteTokensRun(f, d, tokens, value, Len(tokens))
           on(i, prev) ==
             IF i = 0 THEN value
             ELSE Q!SetKey(Q!Holder(d, tokens, Len(tokens) + 1 - i),
                           tokens[Len(tokens) + 1 - i], prev)
<1>1. WriteTokensRun(run, d, tokens, value, Len(tokens))
  BY WriteTokensRunExists
<1>2. Q!WriteTokens(d, tokens, value) = run[Len(tokens)]
  BY DEF WriteTokensRun, Q!WriteTokens
<1> HIDE DEF run, on
<1>3. run = [i \in 0 .. Len(tokens) |-> on(i, run[i - 1])]
  BY <1>1 DEF WriteTokensRun, on
<1>4. /\ run[0] = on(0, run[0 - 1])
      /\ \A i \in 1 .. Len(tokens) : run[i] = on(i, run[i - 1])
  BY <1>3
<1>5. run[0] = value
  BY <1>4 DEF on
<1>6. \A i \in 1 .. Len(tokens) :
        run[i] = Q!SetKey(Q!Holder(d, tokens, Len(tokens) + 1 - i),
                          tokens[Len(tokens) + 1 - i], run[i - 1])
  <2>1. ASSUME NEW i \in 1 .. Len(tokens)
        PROVE  on(i, run[i - 1]) = Q!SetKey(Q!Holder(d, tokens, Len(tokens) + 1 - i),
                                            tokens[Len(tokens) + 1 - i], run[i - 1])
    <3>1. i # 0
      OBVIOUS
    <3>. QED  BY <3>1, Zenon DEF on
  <2>. QED  BY <1>4, <2>1
<1>. QED  BY <1>2, <1>5, <1>6, Zenon DEF WriteTokensOf

(* f is what is collected of the first n declarations. *)
MergedRun(f, entries, n) ==
  f = [i \in 0 .. n |->
         IF i = 0 THEN <<>>
         ELSE Q!AddParameter(f[i - 1], entries[i])]

(* The recursion of Merged defines a function. *)
LEMMA MergedRunExists ==
  ASSUME NEW entries
  PROVE  \A n \in Nat : \E f : MergedRun(f, entries, n)
<1> DEFINE bad == {n \in Nat : ~ \E f : MergedRun(f, entries, n)}
           on(i, prev) ==
             IF i = 0 THEN <<>>
             ELSE Q!AddParameter(prev, entries[i])
<1> SUFFICES ASSUME bad # {} PROVE FALSE
  OBVIOUS
<1>1. PICK n \in bad : \A k \in bad : n <= k
  <2>1. bad \in SUBSET Nat
    OBVIOUS
  <2> HIDE DEF bad
  <2>. QED  BY <2>1, LeastExists
<1>2. n \in Nat /\ ~ \E f : MergedRun(f, entries, n)
  OBVIOUS
<1> HIDE DEF on
<1>3. n # 0
  <2>1. MergedRun([i \in 0 .. 0 |-> on(0, 0)], entries, 0)
    BY DEF MergedRun, on
  <2>. QED  BY <1>2, <2>1
<1>4. n - 1 \in Nat /\ n - 1 \notin bad
  BY <1>1, <1>2, <1>3
<1>5. PICK f : MergedRun(f, entries, n - 1)
  BY <1>4
<1>6. f = [i \in 0 .. n - 1 |-> on(i, f[i - 1])]
  BY <1>5 DEF MergedRun, on
<1> DEFINE g == [i \in 0 .. n |-> IF i = n THEN on(n, f[n - 1]) ELSE f[i]]
<1>7. g = [i \in 0 .. n |-> on(i, g[i - 1])]
  <2>1. ASSUME NEW i \in 0 .. n PROVE g[i] = on(i, g[i - 1])
    <3>1. i # 0 => i - 1 \in 0 .. n /\ g[i - 1] = f[i - 1]
      BY <1>2
    <3>2. on(0, g[0 - 1]) = on(0, f[0 - 1])
      BY DEF on
    <3>3. CASE i = n
      BY <1>3, <3>1, <3>3
    <3>4. CASE i # n
      <4>1. i \in 0 .. (n - 1) /\ g[i] = f[i]
        BY <1>2, <3>4
      <4>2. f[i] = on(i, f[i - 1])
        BY <1>6, <4>1
      <4>. QED  BY <3>1, <3>2, <4>1, <4>2
    <3>. QED  BY <3>3, <3>4
  <2>2. g = [i \in 0 .. n |-> g[i]]
    OBVIOUS
  <2> HIDE DEF g
  <2>. QED  BY <2>1, <2>2
<1> HIDE DEF g
<1>8. MergedRun(g, entries, n)
  BY <1>7 DEF MergedRun, on
<1>. QED  BY <1>2, <1>8

(* f is what Merged goes through. *)
MergedOf(f, entries) ==
  /\ Q!Merged(entries) = f[Len(entries)]
  /\ f[0] = <<>>
  /\ \A i \in 1 .. Len(entries) :
       f[i] = Q!AddParameter(f[i - 1], entries[i])

(* So Merged takes one declaration after the other. *)
LEMMA MergedIs ==
  ASSUME NEW entries, Len(entries) \in Nat
  PROVE  \E f : MergedOf(f, entries)
<1> DEFINE run == CHOOSE f : MergedRun(f, entries, Len(entries))
           on(i, prev) ==
             IF i = 0 THEN <<>>
             ELSE Q!AddParameter(prev, entries[i])
<1>1. MergedRun(run, entries, Len(entries))
  BY MergedRunExists
<1>2. Q!Merged(entries) = run[Len(entries)]
  BY DEF MergedRun, Q!Merged
<1> HIDE DEF run, on
<1>3. run = [i \in 0 .. Len(entries) |-> on(i, run[i - 1])]
  BY <1>1 DEF MergedRun, on
<1>4. /\ run[0] = on(0, run[0 - 1])
      /\ \A i \in 1 .. Len(entries) : run[i] = on(i, run[i - 1])
  BY <1>3
<1>5. run[0] = <<>>
  BY <1>4 DEF on
<1>6. \A i \in 1 .. Len(entries) :
        run[i] = Q!AddParameter(run[i - 1], entries[i])
  <2>1. ASSUME NEW i \in 1 .. Len(entries)
        PROVE  on(i, run[i - 1]) = Q!AddParameter(run[i - 1], entries[i])
    <3>1. i # 0
      OBVIOUS
    <3>. QED  BY <3>1, Zenon DEF on
  <2>. QED  BY <1>4, <2>1
<1>. QED  BY <1>2, <1>5, <1>6, Zenon DEF MergedOf

(* Merged of nothing. *)
LEMMA MergedEmpty ==
  Q!Merged(<<>>) = <<>>
<1>1. Len(<<>>) = 0
  OBVIOUS
<1>2. Len(<<>>) \in Nat
  BY <1>1
<1>3. PICK f : MergedOf(f, <<>>)
  BY <1>2, MergedIs, Zenon
<1>. QED  BY <1>1, <1>3, Zenon DEF MergedOf

(* One more is a step more. *)
LEMMA MergedAppend ==
  ASSUME NEW Es, NEW s \in Seq(Es), NEW c \in Es
  PROVE  Q!Merged(Append(s, c))
           = Q!AddParameter(Q!Merged(s), c)
<1> DEFINE t == Append(s, c)
<1>1. /\ Len(s) \in Nat /\ Len(t) = Len(s) + 1
      /\ \A i \in 1 .. Len(s) : t[i] = s[i]
      /\ t[Len(s) + 1] = c
  BY AppendProperties, LenProperties
<1> HIDE DEF t
<1>2. PICK f : MergedOf(f, s)
  BY <1>1, MergedIs, Zenon
<1>3. Len(t) \in Nat
  BY <1>1
<1>4. PICK g : MergedOf(g, t)
  BY <1>3, MergedIs, Zenon
<1> DEFINE same == {i \in Nat : i <= Len(s) => f[i] = g[i]}
<1>5. 0 \in same
  BY <1>2, <1>4 DEF MergedOf
<1>6. ASSUME NEW i \in Nat, i \in same PROVE i + 1 \in same
  <2> SUFFICES ASSUME i + 1 <= Len(s) PROVE f[i + 1] = g[i + 1]
    OBVIOUS
  <2>1. /\ i + 1 \in 1 .. Len(s) /\ i + 1 \in 1 .. Len(t) /\ i <= Len(s)
        /\ (i + 1) - 1 = i
    BY <1>1
  <2>2. f[i + 1] = Q!AddParameter(f[i], s[i + 1])
    BY <1>2, <2>1 DEF MergedOf
  <2>3. g[i + 1] = Q!AddParameter(g[i], t[i + 1])
    BY <1>4, <2>1 DEF MergedOf
  <2>4. f[i] = g[i] /\ s[i + 1] = t[i + 1]
    BY <1>1, <1>6, <2>1
  <2>. QED  BY <2>2, <2>3, <2>4, Zenon
<1> HIDE DEF same
<1>7. Len(s) \in same
  BY <1>1, <1>5, <1>6, CountUp
<1>8. f[Len(s)] = g[Len(s)]
  BY <1>1, <1>7 DEF same
<1>9. Len(s) + 1 \in 1 .. Len(t) /\ (Len(s) + 1) - 1 = Len(s)
  BY <1>1
<1>10. g[Len(t)] = Q!AddParameter(g[Len(s)], c)
  BY <1>1, <1>4, <1>9 DEF MergedOf
<1>. QED  BY <1>2, <1>4, <1>8, <1>10, Zenon DEF t, MergedOf

(* f is what is found in the first n characters of a path. *)
ScanPathRun(f, path, n) ==
  f = [i \in 0 .. n |->
         IF i = 0 THEN [fault |-> FALSE, depth |-> 0, current |-> <<>>, found |-> <<>>]
         ELSE Q!ScanStep(f[i - 1], path[i])]

(* The recursion of ScanPath defines a function. *)
LEMMA ScanPathRunExists ==
  ASSUME NEW path
  PROVE  \A n \in Nat : \E f : ScanPathRun(f, path, n)
<1> DEFINE bad == {n \in Nat : ~ \E f : ScanPathRun(f, path, n)}
           on(i, prev) ==
             IF i = 0 THEN [fault |-> FALSE, depth |-> 0, current |-> <<>>, found |-> <<>>]
             ELSE Q!ScanStep(prev, path[i])
<1> SUFFICES ASSUME bad # {} PROVE FALSE
  OBVIOUS
<1>1. PICK n \in bad : \A k \in bad : n <= k
  <2>1. bad \in SUBSET Nat
    OBVIOUS
  <2> HIDE DEF bad
  <2>. QED  BY <2>1, LeastExists
<1>2. n \in Nat /\ ~ \E f : ScanPathRun(f, path, n)
  OBVIOUS
<1> HIDE DEF on
<1>3. n # 0
  <2>1. ScanPathRun([i \in 0 .. 0 |-> on(0, 0)], path, 0)
    BY DEF ScanPathRun, on
  <2>. QED  BY <1>2, <2>1
<1>4. n - 1 \in Nat /\ n - 1 \notin bad
  BY <1>1, <1>2, <1>3
<1>5. PICK f : ScanPathRun(f, path, n - 1)
  BY <1>4
<1>6. f = [i \in 0 .. n - 1 |-> on(i, f[i - 1])]
  BY <1>5 DEF ScanPathRun, on
<1> DEFINE g == [i \in 0 .. n |-> IF i = n THEN on(n, f[n - 1]) ELSE f[i]]
<1>7. g = [i \in 0 .. n |-> on(i, g[i - 1])]
  <2>1. ASSUME NEW i \in 0 .. n PROVE g[i] = on(i, g[i - 1])
    <3>1. i # 0 => i - 1 \in 0 .. n /\ g[i - 1] = f[i - 1]
      BY <1>2
    <3>2. on(0, g[0 - 1]) = on(0, f[0 - 1])
      BY DEF on
    <3>3. CASE i = n
      BY <1>3, <3>1, <3>3
    <3>4. CASE i # n
      <4>1. i \in 0 .. (n - 1) /\ g[i] = f[i]
        BY <1>2, <3>4
      <4>2. f[i] = on(i, f[i - 1])
        BY <1>6, <4>1
      <4>. QED  BY <3>1, <3>2, <4>1, <4>2
    <3>. QED  BY <3>3, <3>4
  <2>2. g = [i \in 0 .. n |-> g[i]]
    OBVIOUS
  <2> HIDE DEF g
  <2>. QED  BY <2>1, <2>2
<1> HIDE DEF g
<1>8. ScanPathRun(g, path, n)
  BY <1>7 DEF ScanPathRun, on
<1>. QED  BY <1>2, <1>8

(* f is what ScanPath goes through. *)
ScanPathOf(f, path) ==
  /\ Q!ScanPath(path) = f[Len(path)]
  /\ f[0] = [fault |-> FALSE, depth |-> 0, current |-> <<>>, found |-> <<>>]
  /\ \A i \in 1 .. Len(path) :
       f[i] = Q!ScanStep(f[i - 1], path[i])

(* So ScanPath takes one character after the other. *)
LEMMA ScanPathIs ==
  ASSUME NEW path, Len(path) \in Nat
  PROVE  \E f : ScanPathOf(f, path)
<1> DEFINE run == CHOOSE f : ScanPathRun(f, path, Len(path))
           on(i, prev) ==
             IF i = 0 THEN [fault |-> FALSE, depth |-> 0, current |-> <<>>, found |-> <<>>]
             ELSE Q!ScanStep(prev, path[i])
<1>1. ScanPathRun(run, path, Len(path))
  BY ScanPathRunExists
<1>2. Q!ScanPath(path) = run[Len(path)]
  BY DEF ScanPathRun, Q!ScanPath
<1> HIDE DEF run, on
<1>3. run = [i \in 0 .. Len(path) |-> on(i, run[i - 1])]
  BY <1>1 DEF ScanPathRun, on
<1>4. /\ run[0] = on(0, run[0 - 1])
      /\ \A i \in 1 .. Len(path) : run[i] = on(i, run[i - 1])
  BY <1>3
<1>5. run[0] = [fault |-> FALSE, depth |-> 0, current |-> <<>>, found |-> <<>>]
  BY <1>4 DEF on
<1>6. \A i \in 1 .. Len(path) :
        run[i] = Q!ScanStep(run[i - 1], path[i])
  <2>1. ASSUME NEW i \in 1 .. Len(path)
        PROVE  on(i, run[i - 1]) = Q!ScanStep(run[i - 1], path[i])
    <3>1. i # 0
      OBVIOUS
    <3>. QED  BY <3>1, Zenon DEF on
  <2>. QED  BY <1>4, <2>1
<1>. QED  BY <1>2, <1>5, <1>6, Zenon DEF ScanPathOf

(* ScanPath of nothing. *)
LEMMA ScanPathEmpty ==
  Q!ScanPath(<<>>) = [fault |-> FALSE, depth |-> 0, current |-> <<>>, found |-> <<>>]
<1>1. Len(<<>>) = 0
  OBVIOUS
<1>2. Len(<<>>) \in Nat
  BY <1>1
<1>3. PICK f : ScanPathOf(f, <<>>)
  BY <1>2, ScanPathIs, Zenon
<1>. QED  BY <1>1, <1>3, Zenon DEF ScanPathOf

(* One more is a step more. *)
LEMMA ScanPathAppend ==
  ASSUME NEW Es, NEW s \in Seq(Es), NEW c \in Es
  PROVE  Q!ScanPath(Append(s, c))
           = Q!ScanStep(Q!ScanPath(s), c)
<1> DEFINE t == Append(s, c)
<1>1. /\ Len(s) \in Nat /\ Len(t) = Len(s) + 1
      /\ \A i \in 1 .. Len(s) : t[i] = s[i]
      /\ t[Len(s) + 1] = c
  BY AppendProperties, LenProperties
<1> HIDE DEF t
<1>2. PICK f : ScanPathOf(f, s)
  BY <1>1, ScanPathIs, Zenon
<1>3. Len(t) \in Nat
  BY <1>1
<1>4. PICK g : ScanPathOf(g, t)
  BY <1>3, ScanPathIs, Zenon
<1> DEFINE same == {i \in Nat : i <= Len(s) => f[i] = g[i]}
<1>5. 0 \in same
  BY <1>2, <1>4 DEF ScanPathOf
<1>6. ASSUME NEW i \in Nat, i \in same PROVE i + 1 \in same
  <2> SUFFICES ASSUME i + 1 <= Len(s) PROVE f[i + 1] = g[i + 1]
    OBVIOUS
  <2>1. /\ i + 1 \in 1 .. Len(s) /\ i + 1 \in 1 .. Len(t) /\ i <= Len(s)
        /\ (i + 1) - 1 = i
    BY <1>1
  <2>2. f[i + 1] = Q!ScanStep(f[i], s[i + 1])
    BY <1>2, <2>1 DEF ScanPathOf
  <2>3. g[i + 1] = Q!ScanStep(g[i], t[i + 1])
    BY <1>4, <2>1 DEF ScanPathOf
  <2>4. f[i] = g[i] /\ s[i + 1] = t[i + 1]
    BY <1>1, <1>6, <2>1
  <2>. QED  BY <2>2, <2>3, <2>4, Zenon
<1> HIDE DEF same
<1>7. Len(s) \in same
  BY <1>1, <1>5, <1>6, CountUp
<1>8. f[Len(s)] = g[Len(s)]
  BY <1>1, <1>7 DEF same
<1>9. Len(s) + 1 \in 1 .. Len(t) /\ (Len(s) + 1) - 1 = Len(s)
  BY <1>1
<1>10. g[Len(t)] = Q!ScanStep(g[Len(s)], c)
  BY <1>1, <1>4, <1>9 DEF ScanPathOf
<1>. QED  BY <1>2, <1>4, <1>8, <1>10, Zenon DEF t, ScanPathOf

(* f is what the first n characters of a path are filled in to. *)
FillRun(f, path, names, n) ==
  f = [i \in 0 .. n |->
         IF i = 0 THEN [depth |-> 0, current |-> <<>>, out |-> <<>>]
         ELSE Q!FillStep(f[i - 1], path[i], names)]

(* The recursion of Fill defines a function. *)
LEMMA FillRunExists ==
  ASSUME NEW path, NEW names
  PROVE  \A n \in Nat : \E f : FillRun(f, path, names, n)
<1> DEFINE bad == {n \in Nat : ~ \E f : FillRun(f, path, names, n)}
           on(i, prev) ==
             IF i = 0 THEN [depth |-> 0, current |-> <<>>, out |-> <<>>]
             ELSE Q!FillStep(prev, path[i], names)
<1> SUFFICES ASSUME bad # {} PROVE FALSE
  OBVIOUS
<1>1. PICK n \in bad : \A k \in bad : n <= k
  <2>1. bad \in SUBSET Nat
    OBVIOUS
  <2> HIDE DEF bad
  <2>. QED  BY <2>1, LeastExists
<1>2. n \in Nat /\ ~ \E f : FillRun(f, path, names, n)
  OBVIOUS
<1> HIDE DEF on
<1>3. n # 0
  <2>1. FillRun([i \in 0 .. 0 |-> on(0, 0)], path, names, 0)
    BY DEF FillRun, on
  <2>. QED  BY <1>2, <2>1
<1>4. n - 1 \in Nat /\ n - 1 \notin bad
  BY <1>1, <1>2, <1>3
<1>5. PICK f : FillRun(f, path, names, n - 1)
  BY <1>4
<1>6. f = [i \in 0 .. n - 1 |-> on(i, f[i - 1])]
  BY <1>5 DEF FillRun, on
<1> DEFINE g == [i \in 0 .. n |-> IF i = n THEN on(n, f[n - 1]) ELSE f[i]]
<1>7. g = [i \in 0 .. n |-> on(i, g[i - 1])]
  <2>1. ASSUME NEW i \in 0 .. n PROVE g[i] = on(i, g[i - 1])
    <3>1. i # 0 => i - 1 \in 0 .. n /\ g[i - 1] = f[i - 1]
      BY <1>2
    <3>2. on(0, g[0 - 1]) = on(0, f[0 - 1])
      BY DEF on
    <3>3. CASE i = n
      BY <1>3, <3>1, <3>3
    <3>4. CASE i # n
      <4>1. i \in 0 .. (n - 1) /\ g[i] = f[i]
        BY <1>2, <3>4
      <4>2. f[i] = on(i, f[i - 1])
        BY <1>6, <4>1
      <4>. QED  BY <3>1, <3>2, <4>1, <4>2
    <3>. QED  BY <3>3, <3>4
  <2>2. g = [i \in 0 .. n |-> g[i]]
    OBVIOUS
  <2> HIDE DEF g
  <2>. QED  BY <2>1, <2>2
<1> HIDE DEF g
<1>8. FillRun(g, path, names, n)
  BY <1>7 DEF FillRun, on
<1>. QED  BY <1>2, <1>8

(* f is what Fill goes through. *)
FillOf(f, path, names) ==
  /\ Q!Fill(path, names) = f[Len(path)]
  /\ f[0] = [depth |-> 0, current |-> <<>>, out |-> <<>>]
  /\ \A i \in 1 .. Len(path) :
       f[i] = Q!FillStep(f[i - 1], path[i], names)

(* So Fill takes one character after the other. *)
LEMMA FillIs ==
  ASSUME NEW path, NEW names, Len(path) \in Nat
  PROVE  \E f : FillOf(f, path, names)
<1> DEFINE run == CHOOSE f : FillRun(f, path, names, Len(path))
           on(i, prev) ==
             IF i = 0 THEN [depth |-> 0, current |-> <<>>, out |-> <<>>]
             ELSE Q!FillStep(prev, path[i], names)
<1>1. FillRun(run, path, names, Len(path))
  BY FillRunExists
<1>2. Q!Fill(path, names) = run[Len(path)]
  BY DEF FillRun, Q!Fill
<1> HIDE DEF run, on
<1>3. run = [i \in 0 .. Len(path) |-> on(i, run[i - 1])]
  BY <1>1 DEF FillRun, on
<1>4. /\ run[0] = on(0, run[0 - 1])
      /\ \A i \in 1 .. Len(path) : run[i] = on(i, run[i - 1])
  BY <1>3
<1>5. run[0] = [depth |-> 0, current |-> <<>>, out |-> <<>>]
  BY <1>4 DEF on
<1>6. \A i \in 1 .. Len(path) :
        run[i] = Q!FillStep(run[i - 1], path[i], names)
  <2>1. ASSUME NEW i \in 1 .. Len(path)
        PROVE  on(i, run[i - 1]) = Q!FillStep(run[i - 1], path[i], names)
    <3>1. i # 0
      OBVIOUS
    <3>. QED  BY <3>1, Zenon DEF on
  <2>. QED  BY <1>4, <2>1
<1>. QED  BY <1>2, <1>5, <1>6, Zenon DEF FillOf

(* Fill of nothing. *)
LEMMA FillEmpty ==
  ASSUME NEW names
  PROVE  Q!Fill(<<>>, names) = [depth |-> 0, current |-> <<>>, out |-> <<>>]
<1>1. Len(<<>>) = 0
  OBVIOUS
<1>2. Len(<<>>) \in Nat
  BY <1>1
<1>3. PICK f : FillOf(f, <<>>, names)
  BY <1>2, FillIs, Zenon
<1>. QED  BY <1>1, <1>3, Zenon DEF FillOf

(* One more is a step more. *)
LEMMA FillAppend ==
  ASSUME NEW Es, NEW s \in Seq(Es), NEW c \in Es, NEW names
  PROVE  Q!Fill(Append(s, c), names)
           = Q!FillStep(Q!Fill(s, names), c, names)
<1> DEFINE t == Append(s, c)
<1>1. /\ Len(s) \in Nat /\ Len(t) = Len(s) + 1
      /\ \A i \in 1 .. Len(s) : t[i] = s[i]
      /\ t[Len(s) + 1] = c
  BY AppendProperties, LenProperties
<1> HIDE DEF t
<1>2. PICK f : FillOf(f, s, names)
  BY <1>1, FillIs, Zenon
<1>3. Len(t) \in Nat
  BY <1>1
<1>4. PICK g : FillOf(g, t, names)
  BY <1>3, FillIs, Zenon
<1> DEFINE same == {i \in Nat : i <= Len(s) => f[i] = g[i]}
<1>5. 0 \in same
  BY <1>2, <1>4 DEF FillOf
<1>6. ASSUME NEW i \in Nat, i \in same PROVE i + 1 \in same
  <2> SUFFICES ASSUME i + 1 <= Len(s) PROVE f[i + 1] = g[i + 1]
    OBVIOUS
  <2>1. /\ i + 1 \in 1 .. Len(s) /\ i + 1 \in 1 .. Len(t) /\ i <= Len(s)
        /\ (i + 1) - 1 = i
    BY <1>1
  <2>2. f[i + 1] = Q!FillStep(f[i], s[i + 1], names)
    BY <1>2, <2>1 DEF FillOf
  <2>3. g[i + 1] = Q!FillStep(g[i], t[i + 1], names)
    BY <1>4, <2>1 DEF FillOf
  <2>4. f[i] = g[i] /\ s[i + 1] = t[i + 1]
    BY <1>1, <1>6, <2>1
  <2>. QED  BY <2>2, <2>3, <2>4, Zenon
<1> HIDE DEF same
<1>7. Len(s) \in same
  BY <1>1, <1>5, <1>6, CountUp
<1>8. f[Len(s)] = g[Len(s)]
  BY <1>1, <1>7 DEF same
<1>9. Len(s) + 1 \in 1 .. Len(t) /\ (Len(s) + 1) - 1 = Len(s)
  BY <1>1
<1>10. g[Len(t)] = Q!FillStep(g[Len(s)], c, names)
  BY <1>1, <1>4, <1>9 DEF FillOf
<1>. QED  BY <1>2, <1>4, <1>8, <1>10, Zenon DEF t, FillOf

(* What prepare_request starts with. *)
Empty ==
  [kind |-> "request", path |-> definition.path, query |-> <<>>, headers |-> <<>>,
   body |-> Q!Obj(<<>>), hasBody |-> FALSE]

(* f is what is built of the first n bindings. *)
BuiltRun(f, n) ==
  f = [i \in 0 .. n |->
         IF i = 0 THEN Empty
         ELSE Q!Bind(f[i - 1], definition.bindings[i], supplied)]

(* The recursion of Built defines a function. *)
LEMMA BuiltRunExists ==
  \A n \in Nat : \E f : BuiltRun(f, n)
<1> DEFINE bad == {n \in Nat : ~ \E f : BuiltRun(f, n)}
           on(i, prev) ==
             IF i = 0 THEN Empty
             ELSE Q!Bind(prev, definition.bindings[i], supplied)
<1> SUFFICES ASSUME bad # {} PROVE FALSE
  OBVIOUS
<1>1. PICK n \in bad : \A k \in bad : n <= k
  <2>1. bad \in SUBSET Nat
    OBVIOUS
  <2> HIDE DEF bad
  <2>. QED  BY <2>1, LeastExists
<1>2. n \in Nat /\ ~ \E f : BuiltRun(f, n)
  OBVIOUS
<1> HIDE DEF on
<1>3. n # 0
  <2>1. BuiltRun([i \in 0 .. 0 |-> on(0, 0)], 0)
    BY DEF BuiltRun, on
  <2>. QED  BY <1>2, <2>1
<1>4. n - 1 \in Nat /\ n - 1 \notin bad
  BY <1>1, <1>2, <1>3
<1>5. PICK f : BuiltRun(f, n - 1)
  BY <1>4
<1>6. f = [i \in 0 .. n - 1 |-> on(i, f[i - 1])]
  BY <1>5 DEF BuiltRun, on
<1> DEFINE g == [i \in 0 .. n |-> IF i = n THEN on(n, f[n - 1]) ELSE f[i]]
<1>7. g = [i \in 0 .. n |-> on(i, g[i - 1])]
  <2>1. ASSUME NEW i \in 0 .. n PROVE g[i] = on(i, g[i - 1])
    <3>1. i # 0 => i - 1 \in 0 .. n /\ g[i - 1] = f[i - 1]
      BY <1>2
    <3>2. on(0, g[0 - 1]) = on(0, f[0 - 1])
      BY DEF on
    <3>3. CASE i = n
      BY <1>3, <3>1, <3>3
    <3>4. CASE i # n
      <4>1. i \in 0 .. (n - 1) /\ g[i] = f[i]
        BY <1>2, <3>4
      <4>2. f[i] = on(i, f[i - 1])
        BY <1>6, <4>1
      <4>. QED  BY <3>1, <3>2, <4>1, <4>2
    <3>. QED  BY <3>3, <3>4
  <2>2. g = [i \in 0 .. n |-> g[i]]
    OBVIOUS
  <2> HIDE DEF g
  <2>. QED  BY <2>1, <2>2
<1> HIDE DEF g
<1>8. BuiltRun(g, n)
  BY <1>7 DEF BuiltRun, on
<1>. QED  BY <1>2, <1>8

(* f is what Built goes through. *)
BuiltOf(f) ==
  /\ Q!Built(definition, supplied) = f
  /\ f[0] = Empty
  /\ \A i \in 1 .. Len(definition.bindings) :
       f[i] = Q!Bind(f[i - 1], definition.bindings[i], supplied)

(* So prepare_request takes one binding after the other. *)
LEMMA BuiltIs ==
  ASSUME Len(definition.bindings) \in Nat
  PROVE  \E f : BuiltOf(f)
<1> DEFINE run == CHOOSE f : BuiltRun(f, Len(definition.bindings))
           on(i, prev) ==
             IF i = 0 THEN Empty
             ELSE Q!Bind(prev, definition.bindings[i], supplied)
<1>1. BuiltRun(run, Len(definition.bindings))
  BY BuiltRunExists
<1>2. Q!Built(definition, supplied) = run
  BY DEF BuiltRun, Q!Built, Empty
<1> HIDE DEF run, on
<1>3. run = [i \in 0 .. Len(definition.bindings) |-> on(i, run[i - 1])]
  BY <1>1 DEF BuiltRun, on
<1>4. /\ run[0] = on(0, run[0 - 1])
      /\ \A i \in 1 .. Len(definition.bindings) : run[i] = on(i, run[i - 1])
  BY <1>3
<1>5. run[0] = Empty
  BY <1>4 DEF on
<1>6. \A i \in 1 .. Len(definition.bindings) :
        run[i] = Q!Bind(run[i - 1], definition.bindings[i], supplied)
  <2>1. ASSUME NEW i \in 1 .. Len(definition.bindings)
        PROVE  on(i, run[i - 1]) = Q!Bind(run[i - 1], definition.bindings[i], supplied)
    <3>1. i # 0
      OBVIOUS
    <3>. QED  BY <3>1, Zenon DEF on
  <2>. QED  BY <1>4, <2>1
<1>. QED  BY <1>2, <1>5, <1>6, Zenon DEF BuiltOf

Open == "{"
Close == "}"
Escapes == {"%2F", "%7B", "%7D"}
Tilde == "~"
Slash == "/"
Zero == "0"
One == "1"
Characters == STRING \cup {Open, Close, Tilde, Slash, Zero, One} \cup Escapes
Texts == Seq(Characters)

(* A text without a brace. *)
Plain(text) == \A k \in DOMAIN text : text[k] # Open /\ text[k] # Close

(* Longer at its end, a part is at the end of the whole. *)
LEMMA JoinAppend ==
  ASSUME NEW Es, NEW s \in Seq(Es), NEW w \in Seq(Es), NEW c \in Es
  PROVE  s \o Append(w, c) = Append(s \o w, c) /\ s \o w \in Seq(Es) /\ Append(w, c) \in Seq(Es)
<1>1. <<c>> \in Seq(Es) /\ s \o w \in Seq(Es)
  BY ConcatProperties
<1>2. Append(w, c) = w \o <<c>> /\ Append(s \o w, c) = (s \o w) \o <<c>>
  BY <1>1, AppendIsConcat
<1>3. (s \o w) \o <<c>> = s \o (w \o <<c>>)
  BY <1>1, ConcatAssociative
<1>4. Append(w, c) \in Seq(Es)
  BY AppendProperties
<1>. QED  BY <1>1, <1>2, <1>3, <1>4

(* What has no brace has none before its end either. *)
LEMMA PlainAppend ==
  ASSUME NEW w \in Texts, NEW c \in Characters, Plain(Append(w, c))
  PROVE  Plain(w) /\ c # Open /\ c # Close
<1> DEFINE t == Append(w, c)
<1>1. /\ DOMAIN w = 1 .. Len(w) /\ DOMAIN t = 1 .. Len(w) + 1 /\ Len(w) \in Nat
      /\ \A i \in 1 .. Len(w) : t[i] = w[i]
      /\ t[Len(w) + 1] = c
  BY AppendProperties, LenProperties DEF Texts
<1>2. Plain(t)
  OBVIOUS
<1> HIDE DEF t
<1>3. 1 .. Len(w) \subseteq 1 .. Len(w) + 1 /\ Len(w) + 1 \in 1 .. Len(w) + 1
  BY <1>1
<1>. QED  BY <1>1, <1>2, <1>3, Zenon DEF Plain

(* A pattern that begins with a brace and has more; what str.replace has    *)
(* done when it holds nothing of the pattern.                              *)
Braced(old) == Len(old) # 1 /\ old[1] = Open
Outside(out, met) == [out |-> out, held |-> 0, met |-> met]

(* Outside of a placeholder, nothing but a brace begins one. *)
LEMMA PlainStep ==
  ASSUME NEW out, NEW met, NEW c, c # Open, NEW old, Braced(old), NEW new
  PROVE  Q!ReplaceStep(Outside(out, met), c, old, new) = Outside(Append(out, c), met)
<1> DEFINE before == Outside(out, met)
<1>1. /\ before.held = 0 /\ before.held + 1 = 1 /\ before.out = out /\ before.met = met
      /\ c # old[1] /\ Len(old) # 1
  BY DEF Outside, Braced
<1> HIDE DEF before
<1>2. Q!ReplaceStep(before, c, old, new) = [out |-> Append(out, c), held |-> 0, met |-> met]
  BY <1>1, Zenon DEF Q!ReplaceStep
<1>. QED  BY <1>2, Zenon DEF before, Outside

(* So one more character without a brace goes through. *)
LEMMA PlainFurther ==
  ASSUME NEW s \in Texts, NEW v \in Texts, NEW c \in Characters, c # Open,
         NEW old, Braced(old), NEW new, NEW out \in Texts, NEW met,
         Q!Replaced(s \o v, old, new) = Outside(out \o v, met)
  PROVE  Q!Replaced(s \o Append(v, c), old, new) = Outside(out \o Append(v, c), met)
<1>1. s \o Append(v, c) = Append(s \o v, c) /\ s \o v \in Seq(Characters)
  BY JoinAppend DEF Texts
<1>2. out \o Append(v, c) = Append(out \o v, c)
  BY JoinAppend DEF Texts
<1> DEFINE sv == s \o v
           ov == out \o v
<1>0. sv \in Seq(Characters)
  BY <1>1
<1> HIDE DEF sv, ov
<1>3. Q!Replaced(Append(sv, c), old, new)
        = Q!ReplaceStep(Q!Replaced(sv, old, new), c, old, new)
  BY <1>0, ReplacedAppend
<1>4. Q!ReplaceStep(Outside(ov, met), c, old, new) = Outside(Append(ov, c), met)
  BY PlainStep
<1>. QED  BY <1>1, <1>2, <1>3, <1>4, Zenon DEF sv, ov

(* What has no brace neither is nor begins a placeholder. *)
LEMMA ReplacedPlain ==
  ASSUME NEW s \in Texts, NEW old, Braced(old), NEW new, NEW out \in Texts, NEW met,
         Q!Replaced(s, old, new) = Outside(out, met)
  PROVE  \A w \in Texts :
           Plain(w) => Q!Replaced(s \o w, old, new) = Outside(out \o w, met)
<1> DEFINE Goes(v) == Plain(v) => Q!Replaced(s \o v, old, new) = Outside(out \o v, met)
           S == {v \in Texts : Goes(v)}
<1>1. <<>> \in S
  <2>1. <<>> \in Texts /\ s \o <<>> = s /\ out \o <<>> = out
    BY EmptySeq, ConcatEmptySeq DEF Texts
  <2>. QED  BY <2>1
<1>2. ASSUME NEW v \in Texts, NEW c \in Characters, v \in S PROVE Append(v, c) \in S
  <2>1. Append(v, c) \in Texts
    BY AppendProperties DEF Texts
  <2>2. ASSUME Plain(Append(v, c))
        PROVE  Q!Replaced(s \o Append(v, c), old, new) = Outside(out \o Append(v, c), met)
    <3>1. Plain(v) /\ c # Open
      BY <2>2, PlainAppend
    <3>2. Q!Replaced(s \o v, old, new) = Outside(out \o v, met)
      BY <1>2, <3>1
    <3>. QED  BY <3>1, <3>2, PlainFurther
  <2>. QED  BY <2>1, <2>2
<1> HIDE DEF S
<1>3. Texts \subseteq S
  BY <1>1, <1>2, Growing DEF Texts
<1>. QED  BY <1>3 DEF S

(* The place before the last, and the last. *)
LEMMA PlaceIn ==
  ASSUME NEW Es, NEW s \in Seq(Es), NEW c \in Es, NEW i \in 1 .. Len(s) + 1
  PROVE  Append(s, c)[i] = IF i = Len(s) + 1 THEN c ELSE s[i]
<1>1. Len(s) \in Nat
  BY LenProperties
<1>2. CASE i = Len(s) + 1
  BY <1>2, AppendProperties
<1>3. CASE i # Len(s) + 1
  <2>1. i \in 1 .. Len(s)
    BY <1>1, <1>3
  <2>. QED  BY <1>3, <2>1, AppendProperties
<1>. QED  BY <1>2, <1>3

(* ---------------------------- Placeholders ----------------------------- *)

(* The two braces. *)
LEMMA BracesDiffer == Open # Close /\ Open \in Characters /\ Close \in Characters
<1>1. Open # Close
  BY Zenon DEF Open, Close
<1>2. Open \in Characters
  BY DEF Characters
<1>3. Close \in Characters
  BY DEF Characters
<1>. QED  BY <1>1, <1>2, <1>3

(* The placeholder of a name, as it is in a template. *)
Placeholder(n) == <<Open>> \o n \o <<Close>>

(* Its characters. *)
LEMMA PlaceholderIs ==
  ASSUME NEW n \in Texts
  PROVE  /\ Placeholder(n) \in Texts
         /\ Len(n) \in Nat /\ Len(Placeholder(n)) = Len(n) + 2
         /\ Placeholder(n)[1] = Open /\ Placeholder(n)[Len(n) + 2] = Close
         /\ \A i \in 1 .. Len(n) : Placeholder(n)[i + 1] = n[i]
         /\ Braced(Placeholder(n))
<1> DEFINE a == <<Open>> \o n
           p == a \o <<Close>>
<1>1. <<Open>> \in Seq(Characters) /\ <<Close>> \in Seq(Characters) /\ n \in Seq(Characters)
  BY BracesDiffer DEF Texts
<1>2. Len(n) \in Nat
  BY <1>1, LenProperties
<1>3. /\ a \in Seq(Characters) /\ Len(a) = Len(n) + 1 /\ a[1] = Open
      /\ \A i \in 1 .. Len(n) : a[i + 1] = n[i]
  <2>1. a \in Seq(Characters) /\ Len(a) = 1 + Len(n)
    BY <1>1, ConcatProperties
  <2>2. \A i \in 1 .. 1 + Len(n) : a[i] = IF i <= 1 THEN <<Open>>[i] ELSE n[i - 1]
    BY <1>1, ConcatProperties
  <2> HIDE DEF a
  <2>. QED  BY <1>2, <2>1, <2>2
<1> HIDE DEF a
<1>4. /\ p \in Seq(Characters) /\ Len(p) = Len(n) + 2 /\ p[Len(n) + 2] = Close
      /\ \A i \in 1 .. Len(n) + 1 : p[i] = a[i]
  <2>1. p \in Seq(Characters) /\ Len(p) = Len(a) + 1
    BY <1>1, <1>3, ConcatProperties
  <2>2. \A i \in 1 .. Len(a) + 1 : p[i] = IF i <= Len(a) THEN a[i] ELSE <<Close>>[i - Len(a)]
    BY <1>1, <1>3, ConcatProperties
  <2> HIDE DEF p
  <2>. QED  BY <1>2, <1>3, <2>1, <2>2
<1> HIDE DEF p
<1>5. p[1] = Open /\ \A i \in 1 .. Len(n) : p[i + 1] = n[i]
  BY <1>2, <1>3, <1>4
<1>6. Len(p) # 1
  BY <1>2, <1>4
<1>. QED  BY <1>2, <1>4, <1>5, <1>6 DEF Texts, Braced, Placeholder, p, a

(* How much of the placeholder of n a brace and v are; what str.replace    *)
(* has done when it holds as much.                                         *)
Begins(v, n) == Len(v) <= Len(n) /\ \A i \in 1 .. Len(v) : v[i] = n[i]
Met(v, n) == IF Begins(v, n) THEN Len(v) + 1 ELSE 0
Holding(out, held, met) == [out |-> out, held |-> held, met |-> met]
Inside(out, v, n, met) == Holding(out, Met(v, n), met)

(* One character more of what begins like n, or does not. *)
LEMMA BeginsFurther ==
  ASSUME NEW v \in Texts, NEW n \in Texts, NEW c \in Characters
  PROVE  /\ Len(v) \in Nat /\ Len(n) \in Nat /\ Len(Append(v, c)) = Len(v) + 1
         /\ Begins(Append(v, c), n) <=> Begins(v, n) /\ Len(v) < Len(n) /\ c = n[Len(v) + 1]
<1> DEFINE t == Append(v, c)
<1>1. Len(v) \in Nat /\ Len(n) \in Nat /\ Len(t) = Len(v) + 1
  BY AppendProperties, LenProperties DEF Texts
<1>2. \A i \in 1 .. Len(v) + 1 : t[i] = IF i = Len(v) + 1 THEN c ELSE v[i]
  BY PlaceIn DEF Texts
<1> HIDE DEF t
<1>3. ASSUME Begins(t, n) PROVE Begins(v, n) /\ Len(v) < Len(n) /\ c = n[Len(v) + 1]
  <2>1. Len(v) + 1 <= Len(n) /\ \A i \in 1 .. Len(v) + 1 : t[i] = n[i]
    BY <1>1, <1>3 DEF Begins
  <2>. QED  BY <1>1, <1>2, <2>1 DEF Begins
<1>4. ASSUME Begins(v, n), Len(v) < Len(n), c = n[Len(v) + 1] PROVE Begins(t, n)
  <2>1. ASSUME NEW i \in 1 .. Len(v) + 1 PROVE t[i] = n[i]
    <3>1. CASE i = Len(v) + 1
      BY <1>2, <1>4, <3>1
    <3>2. CASE i # Len(v) + 1
      BY <1>1, <1>2, <1>4, <3>2 DEF Begins
    <3>. QED  BY <3>1, <3>2
  <2>. QED  BY <1>1, <1>4, <2>1 DEF Begins
<1>. QED  BY <1>1, <1>3, <1>4 DEF t

(* A character is the one of a pattern at a place, and this is the last. *)
Hits(c, old, i) == c = old[i]
Ends(old, i) == Len(old) = i

(* What is written, with the part that is held made the new text. *)
Written(out, held, new) == SubSeq(out, 1, Len(out) - held) \o new

(* Once the pattern was met. *)
Yes == TRUE

(* The step of str.replace that ends the pattern. *)
LEMMA StepEnds ==
  ASSUME NEW out, NEW held \in Nat, NEW met, NEW c, NEW old, NEW new,
         Hits(c, old, held + 1), Ends(old, held + 1)
  PROVE  Q!ReplaceStep(Holding(out, held, met), c, old, new)
           = Holding(Written(out, held, new), 0, Yes)
<1> DEFINE before == Holding(out, held, met)
<1>1. before.held = held /\ before.out = out /\ before.met = met
  BY DEF Holding
<1> HIDE DEF before
<1>2. Q!ReplaceStep(before, c, old, new)
        = [out |-> Written(out, held, new), held |-> 0, met |-> Yes]
  BY <1>1, Zenon DEF Q!ReplaceStep, Hits, Ends, Written, Yes
<1>. QED  BY <1>2, Zenon DEF before, Holding

(* The step that meets one character more of the pattern. *)
LEMMA StepHolds ==
  ASSUME NEW out, NEW held \in Nat, NEW met, NEW c, NEW old, NEW new,
         Hits(c, old, held + 1), ~Ends(old, held + 1)
  PROVE  Q!ReplaceStep(Holding(out, held, met), c, old, new)
           = Holding(Append(out, c), held + 1, met)
<1> DEFINE before == Holding(out, held, met)
<1>1. before.held = held /\ before.out = out /\ before.met = met
  BY DEF Holding
<1> HIDE DEF before
<1>2. Q!ReplaceStep(before, c, old, new)
        = [out |-> Append(out, c), held |-> held + 1, met |-> met]
  BY <1>1, Zenon DEF Q!ReplaceStep, Hits, Ends
<1>. QED  BY <1>2, Zenon DEF before, Holding

(* The step that meets nothing of it. *)
LEMMA StepDrops ==
  ASSUME NEW out, NEW held \in Nat, NEW met, NEW c, NEW old, NEW new,
         ~Hits(c, old, held + 1), ~Hits(c, old, 1)
  PROVE  Q!ReplaceStep(Holding(out, held, met), c, old, new)
           = Holding(Append(out, c), 0, met)
<1> DEFINE before == Holding(out, held, met)
<1>1. before.held = held /\ before.out = out /\ before.met = met
  BY DEF Holding
<1> HIDE DEF before
<1>2. Q!ReplaceStep(before, c, old, new)
        = [out |-> Append(out, c), held |-> 0, met |-> met]
  BY <1>1, Zenon DEF Q!ReplaceStep, Hits, Ends
<1>. QED  BY <1>2, Zenon DEF before, Holding

(* Within braces, what is held is what a brace and the text so far have of *)
(* the placeholder.                                                        *)
LEMMA InsideStep ==
  ASSUME NEW out, NEW met, NEW v \in Texts, NEW n \in Texts, NEW c \in Characters,
         c # Open, c # Close, NEW new
  PROVE  Q!ReplaceStep(Inside(out, v, n, met), c, Placeholder(n), new)
           = Inside(Append(out, c), Append(v, c), n, met)
<1> DEFINE held == Met(v, n)
           old == Placeholder(n)
           after == Q!ReplaceStep(Holding(out, held, met), c, old, new)
<1>1. /\ Len(v) \in Nat /\ Len(n) \in Nat /\ Len(Append(v, c)) = Len(v) + 1
      /\ Begins(Append(v, c), n) <=> Begins(v, n) /\ Len(v) < Len(n) /\ c = n[Len(v) + 1]
  BY BeginsFurther
<1>2. /\ Len(old) = Len(n) + 2 /\ old[1] = Open /\ old[Len(n) + 2] = Close
      /\ \A i \in 1 .. Len(n) : old[i + 1] = n[i]
  BY PlaceholderIs
<1>3. held \in Nat /\ (Begins(v, n) => held = Len(v) + 1) /\ (~Begins(v, n) => held = 0)
  BY <1>1 DEF Met
<1> HIDE DEF old, held
<1>4. after = Holding(Append(out, c), Met(Append(v, c), n), met)
  <2>1. CASE Begins(v, n) /\ Len(v) < Len(n) /\ c = n[Len(v) + 1]
    <3>1. held = Len(v) + 1 /\ Len(v) + 1 \in 1 .. Len(n)
      BY <1>1, <1>3, <2>1
    <3>2. Hits(c, old, held + 1) /\ ~Ends(old, held + 1)
      BY <1>1, <1>2, <2>1, <3>1 DEF Hits, Ends
    <3>3. Met(Append(v, c), n) = held + 1
      BY <1>1, <2>1, <3>1 DEF Met
    <3>. QED  BY <1>3, <3>2, <3>3, StepHolds
  <2>2. CASE ~(Begins(v, n) /\ Len(v) < Len(n) /\ c = n[Len(v) + 1])
    <3>1. c # old[1]
      BY <1>2
    <3>2. c # old[held + 1]
      <4>1. CASE Begins(v, n) /\ Len(v) < Len(n)
        <5>1. held = Len(v) + 1 /\ Len(v) + 1 \in 1 .. Len(n)
          BY <1>1, <1>3, <4>1
        <5>. QED  BY <1>2, <2>2, <4>1, <5>1
      <4>2. CASE Begins(v, n) /\ ~(Len(v) < Len(n))
        <5>1. held + 1 = Len(n) + 2
          BY <1>1, <1>3, <4>2 DEF Begins
        <5>. QED  BY <1>2, <5>1
      <4>3. CASE ~Begins(v, n)
        <5>1. held + 1 = 1
          BY <1>3, <4>3
        <5>. QED  BY <1>2, <5>1
      <4>. QED  BY <4>1, <4>2, <4>3
    <3>3. Met(Append(v, c), n) = 0
      BY <1>1, <2>2 DEF Met
    <3>4. ~Hits(c, old, 1) /\ ~Hits(c, old, held + 1)
      BY <3>1, <3>2 DEF Hits
    <3>. QED  BY <1>3, <3>3, <3>4, StepDrops
  <2>. QED  BY <2>1, <2>2
<1>. QED  BY <1>4 DEF after, held, old, Inside

(* Replaced takes a text and one character more. *)
LEMMA TextAppend ==
  ASSUME NEW n, NEW new
  PROVE  \A s \in Texts, c \in Characters :
           Q!Replaced(Append(s, c), Placeholder(n), new)
             = Q!ReplaceStep(Q!Replaced(s, Placeholder(n), new), c, Placeholder(n), new)
<1> DEFINE old == Placeholder(n)
<1> HIDE DEF old
<1>1. \A s \in Seq(Characters), c \in Characters :
        Q!Replaced(Append(s, c), old, new) = Q!ReplaceStep(Q!Replaced(s, old, new), c, old, new)
  BY ReplacedAppend
<1>. QED  BY <1>1 DEF old, Texts

(* A brace that opens, where nothing is held. *)
LEMMA OpenStep ==
  ASSUME NEW out, NEW met, NEW n \in Texts, NEW new
  PROVE  Q!ReplaceStep(Outside(out, met), Open, Placeholder(n), new)
           = Inside(Append(out, Open), <<>>, n, met)
<1> DEFINE old == Placeholder(n)
<1>1. Len(n) \in Nat /\ Len(old) = Len(n) + 2 /\ old[1] = Open
  BY PlaceholderIs
<1> HIDE DEF old
<1>2. \A held \in Nat :
        held = 0 => Q!ReplaceStep(Holding(out, held, met), Open, old, new)
                      = Holding(Append(out, Open), held + 1, met)
  <2> SUFFICES ASSUME NEW held \in Nat, held = 0
               PROVE  Q!ReplaceStep(Holding(out, held, met), Open, old, new)
                        = Holding(Append(out, Open), held + 1, met)
    OBVIOUS
  <2>1. Hits(Open, old, held + 1) /\ ~Ends(old, held + 1)
    BY <1>1 DEF Hits, Ends
  <2>. QED  BY <2>1, StepHolds
<1>3. Q!ReplaceStep(Holding(out, 0, met), Open, old, new) = Holding(Append(out, Open), 0 + 1, met)
  BY <1>2
<1>4. Met(<<>>, n) = 0 + 1
  BY <1>1 DEF Met, Begins
<1>. QED  BY <1>3, <1>4 DEF Outside, Inside, Holding, old

(* What a template has for the placeholder of v once that of n is filled. *)
Chunk(v, n, new) == IF v = n THEN new ELSE Placeholder(v)

(* The brace that closes: it was the placeholder of n, or it was not. *)
LEMMA CloseStep ==
  ASSUME NEW out \in Texts, NEW met \in BOOLEAN, NEW v \in Texts, NEW n \in Texts,
         Plain(n), NEW new \in Texts
  PROVE  Q!ReplaceStep(Inside(out \o (<<Open>> \o v), v, n, met), Close, Placeholder(n), new)
           = Outside(out \o Chunk(v, n, new), met \/ v = n)
<1> DEFINE held == Met(v, n)
           old == Placeholder(n)
           begun == out \o (<<Open>> \o v)
<1>1. Len(v) \in Nat /\ Len(n) \in Nat
  BY LenProperties DEF Texts
<1>2. /\ Len(old) = Len(n) + 2 /\ old[1] = Open /\ old[Len(n) + 2] = Close
      /\ \A i \in 1 .. Len(n) : old[i + 1] = n[i]
  BY PlaceholderIs
<1>3. held \in Nat /\ (Begins(v, n) => held = Len(v) + 1) /\ (~Begins(v, n) => held = 0)
  BY <1>1 DEF Met
<1> HIDE DEF old, held
<1>4. v = n => Begins(v, n)
  BY <1>1 DEF Begins
<1>5. Begins(v, n) /\ ~(Len(v) < Len(n)) => v = n
  <2>1. Begins(v, n) /\ ~(Len(v) < Len(n)) => Len(v) = Len(n) /\ \A i \in 1 .. Len(v) : v[i] = n[i]
    BY <1>1 DEF Begins
  <2>. QED  BY <2>1, SeqEqual DEF Texts
<1>6. /\ begun \in Texts /\ <<Open>> \o v \in Texts /\ Len(<<Open>> \o v) = Len(v) + 1
      /\ Len(begun) = Len(out) + (Len(v) + 1) /\ Len(out) \in Nat
      /\ \A i \in 1 .. Len(out) : begun[i] = out[i]
  <2>1. <<Open>> \in Seq(Characters)
    BY BracesDiffer
  <2>2. <<Open>> \o v \in Seq(Characters) /\ Len(<<Open>> \o v) = 1 + Len(v)
    BY <2>1, ConcatProperties DEF Texts
  <2>3. /\ begun \in Seq(Characters) /\ Len(begun) = Len(out) + Len(<<Open>> \o v)
        /\ Len(out) \in Nat
        /\ \A i \in 1 .. Len(out) + Len(<<Open>> \o v) :
             begun[i] = IF i <= Len(out) THEN out[i] ELSE (<<Open>> \o v)[i - Len(out)]
    BY <2>2, ConcatProperties, LenProperties DEF Texts
  <2>. QED  BY <1>1, <2>2, <2>3 DEF Texts
<1>7. Append(begun, Close) = out \o Placeholder(v)
  <2>1. <<Close>> \in Seq(Characters)
    BY BracesDiffer
  <2>2. Append(begun, Close) = begun \o <<Close>>
    BY <1>6, BracesDiffer, AppendIsConcat DEF Texts
  <2>3. begun \o <<Close>> = out \o ((<<Open>> \o v) \o <<Close>>)
    BY <1>6, <2>1, ConcatAssociative DEF Texts
  <2>. QED  BY <2>2, <2>3, Zenon DEF Placeholder
<1> HIDE DEF begun
<1>8. CASE v = n
  <2>1. Ends(old, held + 1) /\ Hits(Close, old, held + 1)
    BY <1>1, <1>2, <1>3, <1>4, <1>8 DEF Hits, Ends
  <2>2. Q!ReplaceStep(Holding(begun, held, met), Close, old, new)
          = Holding(Written(begun, held, new), 0, Yes)
    BY <1>3, <2>1, StepEnds
  <2>3. SubSeq(begun, 1, Len(begun) - held) = out
    <3>1. Len(begun) - held = Len(out)
      BY <1>1, <1>3, <1>4, <1>6, <1>8
    <3>2. /\ SubSeq(begun, 1, Len(out)) \in Seq(Characters)
          /\ Len(SubSeq(begun, 1, Len(out))) = Len(out)
          /\ \A i \in 1 .. Len(out) : SubSeq(begun, 1, Len(out))[i] = begun[i]
      BY <1>1, <1>6 DEF Texts
    <3>3. SubSeq(begun, 1, Len(out)) = out
      BY <1>6, <3>2, SeqEqual DEF Texts
    <3>. QED  BY <3>1, <3>3
  <2>4. Chunk(v, n, new) = new
    BY <1>8 DEF Chunk
  <2>. QED  BY <1>8, <2>2, <2>3, <2>4 DEF Yes, Written, Inside, Outside, Holding, old, held, begun
<1>9. CASE v # n
  <2>1. ~Hits(Close, old, held + 1)
    <3>1. CASE Begins(v, n)
      <4>1. held + 1 = (Len(v) + 1) + 1 /\ Len(v) + 1 \in 1 .. Len(n)
        BY <1>1, <1>3, <1>5, <1>9, <3>1
      <4>2. n[Len(v) + 1] # Close
        BY <4>1 DEF Plain, Texts
      <4>. QED  BY <1>2, <4>1, <4>2 DEF Hits
    <3>2. CASE ~Begins(v, n)
      <4>1. held + 1 = 1
        BY <1>3, <3>2
      <4>. QED  BY <1>2, <4>1, BracesDiffer DEF Hits
    <3>. QED  BY <3>1, <3>2
  <2>2. ~Hits(Close, old, 1)
    BY <1>2, BracesDiffer DEF Hits
  <2>3. Q!ReplaceStep(Holding(begun, held, met), Close, old, new)
          = Holding(Append(begun, Close), 0, met)
    BY <1>3, <2>1, <2>2, StepDrops
  <2>4. Chunk(v, n, new) = Placeholder(v)
    BY <1>9 DEF Chunk
  <2>. QED  BY <1>7, <1>9, <2>3, <2>4 DEF Inside, Outside, Holding, old, held, begun
<1>. QED  BY <1>8, <1>9

(* From a brace on, the text within is held as far as it is the name's. *)
LEMMA ReplacedOpen ==
  ASSUME NEW s \in Texts, NEW n \in Texts, NEW new, NEW out \in Texts, NEW met,
         Q!Replaced(s, Placeholder(n), new) = Outside(out, met)
  PROVE  \A v \in Texts :
           Plain(v) => Q!Replaced(s \o (<<Open>> \o v), Placeholder(n), new)
                         = Inside(out \o (<<Open>> \o v), v, n, met)
<1> DEFINE Goes(v) == Plain(v) => Q!Replaced(s \o (<<Open>> \o v), Placeholder(n), new)
                                    = Inside(out \o (<<Open>> \o v), v, n, met)
           S == {v \in Texts : Goes(v)}
<1>1. <<Open>> \in Texts /\ Open \in Characters
  BY BracesDiffer DEF Texts
<1>2. <<>> \in S
  <2>1. <<>> \in Texts /\ <<Open>> \o <<>> = <<Open>>
    BY <1>1, EmptySeq, ConcatEmptySeq DEF Texts
  <2>2. s \o <<Open>> = Append(s, Open) /\ out \o <<Open>> = Append(out, Open)
    BY <1>1, AppendIsConcat DEF Texts
  <2>3. Q!Replaced(Append(s, Open), Placeholder(n), new)
          = Q!ReplaceStep(Outside(out, met), Open, Placeholder(n), new)
    BY <1>1, ReplacedAppend DEF Texts
  <2>4. Q!ReplaceStep(Outside(out, met), Open, Placeholder(n), new)
          = Inside(Append(out, Open), <<>>, n, met)
    BY OpenStep
  <2>. QED  BY <2>1, <2>2, <2>3, <2>4
<1>3. ASSUME NEW v \in Texts, NEW c \in Characters, v \in S PROVE Append(v, c) \in S
  <2>1. Append(v, c) \in Texts
    BY AppendProperties DEF Texts
  <2>2. ASSUME Plain(Append(v, c))
        PROVE  Q!Replaced(s \o (<<Open>> \o Append(v, c)), Placeholder(n), new)
                 = Inside(out \o (<<Open>> \o Append(v, c)), Append(v, c), n, met)
    <3>1. Plain(v) /\ c # Open /\ c # Close
      BY <2>2, PlainAppend
    <3>2. Q!Replaced(s \o (<<Open>> \o v), Placeholder(n), new)
            = Inside(out \o (<<Open>> \o v), v, n, met)
      BY <1>3, <3>1
    <3> HIDE DEF S, Goes
    <3>3. <<Open>> \o Append(v, c) = Append(<<Open>> \o v, c) /\ <<Open>> \o v \in Texts
      BY <1>1, JoinAppend DEF Texts
    <3> DEFINE ov == <<Open>> \o v
    <3> HIDE DEF ov
    <3>4. ov \in Texts
      BY <3>3 DEF ov
    <3>5. /\ s \o Append(ov, c) = Append(s \o ov, c) /\ s \o ov \in Texts
          /\ out \o Append(ov, c) = Append(out \o ov, c)
      BY <3>4, JoinAppend DEF Texts
    <3>6. Q!Replaced(Append(s \o ov, c), Placeholder(n), new)
            = Q!ReplaceStep(Q!Replaced(s \o ov, Placeholder(n), new), c, Placeholder(n), new)
      BY <3>5, TextAppend
    <3>7. Q!ReplaceStep(Inside(out \o ov, v, n, met), c, Placeholder(n), new)
            = Inside(Append(out \o ov, c), Append(v, c), n, met)
      BY <3>1, InsideStep
    <3>. QED  BY <3>2, <3>3, <3>5, <3>6, <3>7, Zenon DEF ov
  <2>. QED  BY <2>1, <2>2
<1> HIDE DEF S
<1>4. Texts \subseteq S
  BY <1>2, <1>3, Growing DEF Texts
<1>. QED  BY <1>4 DEF S

(* So a placeholder is replaced if it is the name's, and stays if not. *)
LEMMA ReplacedPlaceholder ==
  ASSUME NEW s \in Texts, NEW v \in Texts, Plain(v), NEW n \in Texts, Plain(n),
         NEW new \in Texts, NEW out \in Texts, NEW met \in BOOLEAN,
         Q!Replaced(s, Placeholder(n), new) = Outside(out, met)
  PROVE  Q!Replaced(s \o Placeholder(v), Placeholder(n), new)
           = Outside(out \o Chunk(v, n, new), met \/ v = n)
<1> DEFINE ov == <<Open>> \o v
<1>1. <<Open>> \in Seq(Characters) /\ <<Close>> \in Seq(Characters) /\ Close \in Characters
  BY BracesDiffer
<1>2. ov \in Seq(Characters)
  BY <1>1, ConcatProperties DEF Texts
<1>3. s \o Placeholder(v) = Append(s \o ov, Close) /\ s \o ov \in Seq(Characters)
  <2>1. Placeholder(v) = Append(ov, Close)
    BY <1>1, <1>2, AppendIsConcat DEF Placeholder
  <2>. QED  BY <1>1, <1>2, <2>1, JoinAppend DEF Texts
<1>4. Q!Replaced(s \o ov, Placeholder(n), new) = Inside(out \o ov, v, n, met)
  BY ReplacedOpen
<1>5. Q!ReplaceStep(Inside(out \o ov, v, n, met), Close, Placeholder(n), new)
        = Outside(out \o Chunk(v, n, new), met \/ v = n)
  BY CloseStep
<1> HIDE DEF ov
<1>6. Q!Replaced(Append(s \o ov, Close), Placeholder(n), new)
        = Q!ReplaceStep(Q!Replaced(s \o ov, Placeholder(n), new), Close, Placeholder(n), new)
  BY <1>1, <1>3, TextAppend DEF Texts
<1>. QED  BY <1>3, <1>4, <1>5, <1>6

(* ------------------------- The path's template ------------------------- *)

(* What the scan of a path is as long as it has no fault, and what filling *)
(* one in has done.                                                        *)
Scanned(depth, current, found) ==
  [fault |-> FALSE, depth |-> depth, current |-> current, found |-> found]
Filling(depth, current, out) == [depth |-> depth, current |-> current, out |-> out]

(* What is in the place of a placeholder when some names are filled in. *)
Part(m, names) == IF m \in names THEN Q!Quote(supplied.e[m].s) ELSE Placeholder(m)

(* The steps of the scan. *)
LEMMA ScanSteps ==
  ASSUME NEW current, NEW found, NEW c
  PROVE  /\ Q!ScanStep(Scanned(0, current, found), Open) = Scanned(1, <<>>, found)
         /\ Q!ScanStep(Scanned(1, current, found), Open).fault
         /\ Q!ScanStep(Scanned(1, current, found), Close)
              = Scanned(0, current, Append(found, current))
         /\ Q!ScanStep(Scanned(0, current, found), Close).fault
         /\ c # Open /\ c # Close =>
              /\ Q!ScanStep(Scanned(0, current, found), c) = Scanned(0, current, found)
              /\ Q!ScanStep(Scanned(1, current, found), c) = Scanned(1, Append(current, c), found)
<1> DEFINE scan(d) == Scanned(d, current, found)
           apart == "{" # "}"
<1>1. ASSUME NEW d
      PROVE  /\ scan(d).fault = FALSE /\ scan(d).depth = d /\ scan(d).current = current
             /\ scan(d).found = found
  BY DEF Scanned
<1> HIDE DEF scan
<1>2. 0 # 1 /\ 1 # 0
  OBVIOUS
<1>3. apart
  BY BracesDiffer, Zenon DEF Open, Close
<1> HIDE DEF apart
<1>4. Q!ScanStep(scan(0), Open) = Scanned(1, <<>>, found)
  <2>1. scan(0).depth # 1 /\ ~scan(0).fault
    BY <1>1, <1>2, Zenon
  <2>2. Q!ScanStep(scan(0), "{")
          = [fault |-> FALSE, depth |-> 1, current |-> <<>>, found |-> scan(0).found]
    BY <1>3, <2>1, Zenon DEF apart, Q!ScanStep
  <2>. QED  BY <1>1, <2>2, Zenon DEF Open, Scanned
<1>5. Q!ScanStep(scan(1), Open)
        = [fault |-> TRUE, depth |-> 1, current |-> current, found |-> found]
  BY <1>1, <1>2, <1>3, Zenon DEF apart, Q!ScanStep, Open
<1>6. Q!ScanStep(scan(1), Close) = Scanned(0, current, Append(found, current))
  BY <1>1, <1>2, <1>3, Zenon DEF apart, Q!ScanStep, Close, Scanned
<1>7. Q!ScanStep(scan(0), Close)
        = [fault |-> TRUE, depth |-> 0, current |-> current, found |-> found]
  BY <1>1, <1>2, <1>3, Zenon DEF apart, Q!ScanStep, Close
<1>8. ASSUME c # Open, c # Close
      PROVE  /\ Q!ScanStep(scan(0), c) = scan(0)
             /\ Q!ScanStep(scan(1), c) = Scanned(1, Append(current, c), found)
  <2>1. c # "{" /\ c # "}"
    BY <1>8, Zenon DEF Open, Close
  <2>2. Q!ScanStep(scan(0), c) = scan(0)
    BY <1>1, <1>2, <2>1, Zenon DEF Q!ScanStep
  <2>3. Q!ScanStep(scan(1), c)
          = [fault |-> FALSE, depth |-> 1, current |-> Append(scan(1).current, c),
             found |-> scan(1).found]
    BY <1>1, <1>2, <2>1, Zenon DEF Q!ScanStep
  <2>. QED  BY <1>1, <2>2, <2>3, Zenon DEF Scanned
<1>9. \A d : [fault |-> TRUE, depth |-> d, current |-> current, found |-> found].fault
  OBVIOUS
<1>. QED  BY <1>4, <1>5, <1>6, <1>7, <1>8, <1>9, Zenon DEF scan

(* A fault stays one. *)
LEMMA ScanStops == ASSUME NEW scan, NEW c, scan.fault PROVE Q!ScanStep(scan, c) = scan
BY Zenon DEF Q!ScanStep

(* A brace that opens. *)
LEMMA FillOpens ==
  ASSUME NEW d, NEW current, NEW out, NEW names
  PROVE  Q!FillStep(Filling(d, current, out), Open, names)
           = Filling(1, <<>>, out)
<1> DEFINE state == Filling(d, current, out)
           apart == "{" # "}"
<1>1. state.depth = d /\ state.current = current /\ state.out = out
  BY DEF Filling
<1> HIDE DEF state
<1>2. apart
  BY BracesDiffer, Zenon DEF Open, Close
<1> HIDE DEF apart
<1>3. 0 # 1
  OBVIOUS
<1>4. Q!FillStep(state, Open, names) = Filling(1, <<>>, out)
  BY <1>1, <1>2, <1>3, Zenon DEF apart, Q!FillStep, Open, Close, Filling
<1>. QED  BY <1>4 DEF state

(* A brace that closes. *)
LEMMA FillCloses ==
  ASSUME NEW d, NEW current, NEW out, NEW names
  PROVE  Q!FillStep(Filling(d, current, out), Close, names)
           = Filling(0, current, out \o Part(current, names))
<1> DEFINE state == Filling(d, current, out)
           apart == "{" # "}"
<1>1. state.depth = d /\ state.current = current /\ state.out = out
  BY DEF Filling
<1> HIDE DEF state
<1>2. apart
  BY BracesDiffer, Zenon DEF Open, Close
<1> HIDE DEF apart
<1>3. 0 # 1
  OBVIOUS
<1>4. Q!FillStep(state, Close, names) = Filling(0, current, out \o Part(current, names))
  BY <1>1, <1>2, <1>3, Zenon DEF apart, Q!FillStep, Open, Close, Filling, Part, Placeholder
<1>. QED  BY <1>4 DEF state

(* A character outside of braces. *)
LEMMA FillOutside ==
  ASSUME NEW current, NEW out, NEW c, NEW names, c # Open, c # Close
  PROVE  Q!FillStep(Filling(0, current, out), c, names)
           = Filling(0, current, Append(out, c))
<1> DEFINE state == Filling(0, current, out)
           apart == "{" # "}"
<1>1. state.depth = 0 /\ state.current = current /\ state.out = out
  BY DEF Filling
<1> HIDE DEF state
<1>2. apart
  BY BracesDiffer, Zenon DEF Open, Close
<1> HIDE DEF apart
<1>3. 0 # 1
  OBVIOUS
<1>4. Q!FillStep(state, c, names) = Filling(0, current, Append(out, c))
  BY <1>1, <1>2, <1>3, Zenon DEF apart, Q!FillStep, Open, Close, Filling
<1>. QED  BY <1>4 DEF state

(* A character between braces. *)
LEMMA FillInside ==
  ASSUME NEW current, NEW out, NEW c, NEW names, c # Open, c # Close
  PROVE  Q!FillStep(Filling(1, current, out), c, names)
           = Filling(1, Append(current, c), out)
<1> DEFINE state == Filling(1, current, out)
           apart == "{" # "}"
<1>1. state.depth = 1 /\ state.current = current /\ state.out = out
  BY DEF Filling
<1> HIDE DEF state
<1>2. apart
  BY BracesDiffer, Zenon DEF Open, Close
<1> HIDE DEF apart
<1>3. 0 # 1
  OBVIOUS
<1>4. Q!FillStep(state, c, names) = Filling(1, Append(current, c), out)
  BY <1>1, <1>2, <1>3, Zenon DEF apart, Q!FillStep, Open, Close, Filling
<1>. QED  BY <1>4 DEF state

(* Quoted text has no brace. *)
LEMMA QuotedIsPlain ==
  ASSUME NEW text \in Texts
  PROVE  Q!Quote(text) \in Texts /\ Plain(Q!Quote(text))
<1> DEFINE quoted == Q!Quote(text)
           esc(c) == CASE c = "/" -> "%2F" [] c = "{" -> "%7B" [] c = "}" -> "%7D"
                       [] OTHER -> c
<1>1. quoted = [i \in DOMAIN text |-> esc(text[i])]
  BY Zenon DEF Q!Quote
<1>2. ASSUME NEW c \in Characters
      PROVE  esc(c) \in Characters /\ esc(c) # Open /\ esc(c) # Close
  <2>1. esc(c) \in Escapes \/ (esc(c) = c /\ c # Open /\ c # Close)
    BY Zenon DEF Open, Close, Escapes
  <2>2. Escapes \subseteq Characters
    BY DEF Characters
  <2>3. "%2F" # "{" /\ "%2F" # "}" /\ "%7B" # "{" /\ "%7B" # "}" /\ "%7D" # "{" /\ "%7D" # "}"
    BY Zenon
  <2>. QED  BY <2>1, <2>2, <2>3, Zenon DEF Open, Close, Escapes
<1> HIDE DEF quoted, esc
<1>3. /\ DOMAIN text = 1 .. Len(text) /\ Len(text) \in Nat
      /\ \A i \in 1 .. Len(text) : text[i] \in Characters
  BY LenProperties, ElementOfSeq DEF Texts
<1>4. quoted \in [1 .. Len(text) -> Characters] /\ Plain(quoted)
  BY <1>1, <1>2, <1>3 DEF Plain
<1>5. quoted \in Seq(Characters)
  BY <1>3, <1>4
<1>. QED  BY <1>4, <1>5 DEF quoted, Texts

(* The scan of a path without a fault, and what filling it in writes. *)
Sound(path) == ~Q!ScanPath(path).fault
Depth(path) == Q!ScanPath(path).depth
Within(path) == Q!ScanPath(path).current
Found(path) == Q!ScanPath(path).found
Out(path, names) == Q!Fill(path, names).out

(* What the scan finds in a path. *)
Scans(path) ==
  /\ Q!ScanPath(path) = Scanned(Depth(path), Within(path), Found(path))
  /\ Depth(path) \in {0, 1}
  /\ Within(path) \in Texts /\ Plain(Within(path))
  /\ Found(path) \in Seq(Texts) /\ \A i \in DOMAIN Found(path) : Plain(Found(path)[i])

(* The parts of a scan. *)
LEMMA ScannedParts ==
  ASSUME NEW path, NEW d, NEW current, NEW found,
         Q!ScanPath(path) = Scanned(d, current, found)
  PROVE  Sound(path) /\ Depth(path) = d /\ Within(path) = current /\ Found(path) = found
BY DEF Scanned, Sound, Depth, Within, Found

(* One character more, in a path that has no fault with it. *)
After(path, c) ==
  LET t == Append(path, c)
  IN  \/ /\ c = Open /\ Depth(path) = 0
         /\ Q!ScanPath(t) = Scanned(1, <<>>, Found(path))
      \/ /\ c = Close /\ Depth(path) = 1
         /\ Q!ScanPath(t) = Scanned(0, Within(path), Append(Found(path), Within(path)))
      \/ /\ c # Open /\ c # Close /\ Depth(path) = 0
         /\ Q!ScanPath(t) = Scanned(0, Within(path), Found(path))
      \/ /\ c # Open /\ c # Close /\ Depth(path) = 1
         /\ Q!ScanPath(t) = Scanned(1, Append(Within(path), c), Found(path))

(* A path without a fault has none before its end. *)
LEMMA SoundBefore ==
  ASSUME NEW path \in Texts, NEW c \in Characters, Sound(Append(path, c))
  PROVE  Sound(path)
<1>1. Q!ScanPath(Append(path, c)) = Q!ScanStep(Q!ScanPath(path), c)
  BY ScanPathAppend DEF Texts
<1>. QED  BY <1>1, ScanStops DEF Sound

(* What one more character does to a scan. *)
LEMMA ScanFurther ==
  ASSUME NEW path \in Texts, NEW c \in Characters, Sound(Append(path, c)), Scans(path)
  PROVE  After(path, c)
<1>1. Q!ScanPath(Append(path, c)) = Q!ScanStep(Q!ScanPath(path), c)
  BY ScanPathAppend DEF Texts
<1> DEFINE w == Within(path)
           f == Found(path)
<1>2. Depth(path) \in {0, 1} /\ Q!ScanPath(path) = Scanned(Depth(path), w, f)
  BY DEF Scans
<1> HIDE DEF w, f
<1>3. /\ Q!ScanStep(Scanned(0, w, f), Open) = Scanned(1, <<>>, f)
      /\ Q!ScanStep(Scanned(1, w, f), Open).fault
      /\ Q!ScanStep(Scanned(1, w, f), Close) = Scanned(0, w, Append(f, w))
      /\ Q!ScanStep(Scanned(0, w, f), Close).fault
      /\ c # Open /\ c # Close =>
           /\ Q!ScanStep(Scanned(0, w, f), c) = Scanned(0, w, f)
           /\ Q!ScanStep(Scanned(1, w, f), c) = Scanned(1, Append(w, c), f)
  BY ScanSteps
<1>4. ~Q!ScanStep(Q!ScanPath(path), c).fault
  BY <1>1 DEF Sound
<1>5. CASE Depth(path) = 0
  BY <1>1, <1>2, <1>3, <1>4, <1>5, Zenon DEF After, w, f
<1>6. CASE Depth(path) = 1
  BY <1>1, <1>2, <1>3, <1>4, <1>6, Zenon DEF After, w, f
<1>. QED  BY <1>2, <1>5, <1>6

(* One plain text more, one plain text longer. *)
LEMMA PlainLonger ==
  ASSUME NEW w \in Texts, NEW c \in Characters, Plain(w), c # Open, c # Close
  PROVE  Append(w, c) \in Texts /\ Plain(Append(w, c))
<1> DEFINE t == Append(w, c)
<1>1. t \in Texts /\ DOMAIN w = 1 .. Len(w) /\ DOMAIN t = 1 .. Len(w) + 1 /\ Len(w) \in Nat
  BY AppendProperties, LenProperties DEF Texts
<1>2. \A i \in 1 .. Len(w) + 1 : t[i] = IF i = Len(w) + 1 THEN c ELSE w[i]
  BY PlaceIn DEF Texts
<1> HIDE DEF t
<1>3. ASSUME NEW i \in 1 .. Len(w) + 1 PROVE t[i] # Open /\ t[i] # Close
  <2>1. i # Len(w) + 1 => i \in 1 .. Len(w)
    BY <1>1
  <2>. QED  BY <1>1, <1>2, <2>1 DEF Plain
<1>4. Plain(t)
  BY <1>1, <1>3 DEF Plain
<1>. QED  BY <1>1, <1>4 DEF t

(* What has been found stays found. *)
LEMMA FoundLonger ==
  ASSUME NEW f \in Seq(Texts), NEW w \in Texts, Plain(w), \A i \in DOMAIN f : Plain(f[i])
  PROVE  Append(f, w) \in Seq(Texts) /\ \A i \in DOMAIN Append(f, w) : Plain(Append(f, w)[i])
<1> DEFINE t == Append(f, w)
<1>1. t \in Seq(Texts) /\ DOMAIN f = 1 .. Len(f) /\ DOMAIN t = 1 .. Len(f) + 1 /\ Len(f) \in Nat
  BY AppendProperties, LenProperties
<1>2. \A i \in 1 .. Len(f) + 1 : t[i] = IF i = Len(f) + 1 THEN w ELSE f[i]
  BY PlaceIn
<1> HIDE DEF t
<1>3. ASSUME NEW i \in 1 .. Len(f) + 1 PROVE Plain(t[i])
  <2>1. i # Len(f) + 1 => i \in 1 .. Len(f)
    BY <1>1
  <2>. QED  BY <1>1, <1>2, <2>1
<1>. QED  BY <1>1, <1>3 DEF t

(* A scan without a fault is inside a placeholder or outside of all. *)
LEMMA ScanRuns == \A path \in Texts : Sound(path) => Scans(path)
<1> DEFINE S == {path \in Texts : Sound(path) => Scans(path)}
<1>1. <<>> \in S
  <2>1. <<>> \in Texts
    BY EmptySeq DEF Texts
  <2>2. Q!ScanPath(<<>>) = Scanned(0, <<>>, <<>>)
    BY ScanPathEmpty, Zenon DEF Scanned
  <2>3. Depth(<<>>) = 0 /\ Within(<<>>) = <<>> /\ Found(<<>>) = <<>>
    BY <2>2, ScannedParts
  <2>4. Plain(<<>>) /\ <<>> \in Seq(Texts) /\ DOMAIN <<>> = {}
    BY EmptySeq DEF Plain
  <2>5. Scans(<<>>)
    BY <2>1, <2>2, <2>3, <2>4 DEF Scans
  <2>. QED  BY <2>1, <2>5
<1>2. ASSUME NEW path \in Texts, NEW c \in Characters, path \in S PROVE Append(path, c) \in S
  <2> DEFINE t == Append(path, c)
  <2>1. t \in Texts
    BY AppendProperties DEF Texts
  <2>2. ASSUME Sound(t) PROVE Scans(t)
    <3>1. Scans(path)
      BY <1>2, <2>2, SoundBefore
    <3>2. After(path, c)
      BY <2>2, <3>1, ScanFurther
    <3>3. /\ Within(path) \in Texts /\ Plain(Within(path))
          /\ Found(path) \in Seq(Texts) /\ \A i \in DOMAIN Found(path) : Plain(Found(path)[i])
      BY <3>1 DEF Scans
    <3>4. /\ Append(Found(path), Within(path)) \in Seq(Texts)
          /\ \A i \in DOMAIN Append(Found(path), Within(path)) :
               Plain(Append(Found(path), Within(path))[i])
      BY <3>3, FoundLonger
    <3>5. c # Open /\ c # Close =>
            Append(Within(path), c) \in Texts /\ Plain(Append(Within(path), c))
      BY <3>3, PlainLonger
    <3>6. <<>> \in Texts /\ Plain(<<>>)
      BY EmptySeq DEF Texts, Plain
    <3>7. PICK d \in {0, 1}, w \in Texts, f \in Seq(Texts) :
            Q!ScanPath(t) = Scanned(d, w, f) /\ Plain(w) /\ \A i \in DOMAIN f : Plain(f[i])
      BY <3>2, <3>3, <3>4, <3>5, <3>6, Zenon DEF After
    <3> HIDE DEF t
    <3>8. Depth(t) = d /\ Within(t) = w /\ Found(t) = f
      BY <3>7, ScannedParts
    <3>. QED  BY <3>7, <3>8 DEF Scans
  <2>. QED  BY <2>1, <2>2
<1> HIDE DEF S
<1>3. Texts \subseteq S
  BY <1>1, <1>2, Growing DEF Texts
<1>. QED  BY <1>3 DEF S

(* Filling in follows the scan. *)
LEMMA FillRuns ==
  ASSUME NEW names
  PROVE  \A path \in Texts :
           Sound(path) => Q!Fill(path, names) = Filling(Depth(path), Within(path), Out(path, names))
<1> DEFINE Goes(path) ==
             Sound(path) => \E out : Q!Fill(path, names) = Filling(Depth(path), Within(path), out)
           S == {path \in Texts : Goes(path)}
<1>1. <<>> \in S
  <2>1. <<>> \in Texts
    BY EmptySeq DEF Texts
  <2>2. Q!ScanPath(<<>>) = Scanned(0, <<>>, <<>>)
    BY ScanPathEmpty, Zenon DEF Scanned
  <2>3. Depth(<<>>) = 0 /\ Within(<<>>) = <<>>
    BY <2>2, ScannedParts
  <2>4. Q!Fill(<<>>, names) = Filling(0, <<>>, <<>>)
    BY FillEmpty, Zenon DEF Filling
  <2>. QED  BY <2>1, <2>3, <2>4
<1>2. ASSUME NEW path \in Texts, NEW c \in Characters, path \in S PROVE Append(path, c) \in S
  <2> DEFINE t == Append(path, c)
  <2>1. t \in Texts
    BY AppendProperties DEF Texts
  <2>2. ASSUME Sound(t) PROVE \E out : Q!Fill(t, names) = Filling(Depth(t), Within(t), out)
    <3>1. Sound(path) /\ Scans(path)
      BY <2>2, SoundBefore, ScanRuns
    <3>2. After(path, c)
      BY <2>2, <3>1, ScanFurther
    <3>3. PICK out : Q!Fill(path, names) = Filling(Depth(path), Within(path), out)
      BY <1>2, <3>1
    <3>4. Q!Fill(t, names) = Q!FillStep(Q!Fill(path, names), c, names)
      BY FillAppend DEF Texts
    <3> DEFINE d == Depth(path)
               w == Within(path)
    <3> HIDE DEF d, w, S, Goes
    <3>5. /\ Q!FillStep(Filling(d, w, out), Open, names) = Filling(1, <<>>, out)
          /\ Q!FillStep(Filling(d, w, out), Close, names) = Filling(0, w, out \o Part(w, names))
          /\ c # Open /\ c # Close =>
               /\ Q!FillStep(Filling(0, w, out), c, names) = Filling(0, w, Append(out, c))
               /\ Q!FillStep(Filling(1, w, out), c, names) = Filling(1, Append(w, c), out)
      BY FillOpens, FillCloses, FillOutside, FillInside
    <3>6. \E e, v, f, o : /\ Q!ScanPath(t) = Scanned(e, v, f)
                          /\ Q!Fill(t, names) = Filling(e, v, o)
      BY <3>2, <3>3, <3>4, <3>5, Zenon DEF After, d, w
    <3> HIDE DEF t
    <3>. QED  BY <3>6, ScannedParts
  <2>. QED  BY <2>1, <2>2
<1> HIDE DEF S
<1>3. Texts \subseteq S
  BY <1>1, <1>2, Growing DEF Texts
<1>4. ASSUME NEW path \in Texts, Sound(path)
      PROVE  Q!Fill(path, names) = Filling(Depth(path), Within(path), Out(path, names))
  <2>1. PICK out : Q!Fill(path, names) = Filling(Depth(path), Within(path), out)
    BY <1>3, <1>4 DEF S
  <2>2. Out(path, names) = out
    BY <2>1 DEF Out, Filling
  <2>. QED  BY <2>1, <2>2
<1>. QED  BY <1>4

(* One character more of a path, for what is found and what is written. *)
Further(path, c, names) ==
  LET t == Append(path, c)
  IN  \/ /\ c = Open /\ Depth(path) = 0 /\ Depth(t) = 1 /\ Within(t) = <<>>
         /\ Found(t) = Found(path) /\ Out(t, names) = Out(path, names)
      \/ /\ c = Close /\ Depth(path) = 1 /\ Depth(t) = 0
         /\ Found(t) = Append(Found(path), Within(path))
         /\ Out(t, names) = Out(path, names) \o Part(Within(path), names)
      \/ /\ c # Open /\ c # Close /\ Depth(path) = 0 /\ Depth(t) = 0
         /\ Found(t) = Found(path) /\ Out(t, names) = Append(Out(path, names), c)
      \/ /\ c # Open /\ c # Close /\ Depth(path) = 1 /\ Depth(t) = 1
         /\ Within(t) = Append(Within(path), c)
         /\ Found(t) = Found(path) /\ Out(t, names) = Out(path, names)

(* What one more character does to the filling. *)
LEMMA FillFurther ==
  ASSUME NEW path \in Texts, NEW c \in Characters, Sound(Append(path, c)), NEW names
  PROVE  Scans(path) /\ Sound(path) /\ Further(path, c, names)
<1> DEFINE t == Append(path, c)
           d == Depth(path)
           w == Within(path)
<1>1. Sound(path) /\ Scans(path)
  BY SoundBefore, ScanRuns
<1>2. After(path, c)
  BY <1>1, ScanFurther
<1>3. PICK out : out = Out(path, names) /\ Q!Fill(path, names) = Filling(d, w, out)
  BY <1>1, FillRuns
<1>4. Q!Fill(t, names) = Q!FillStep(Q!Fill(path, names), c, names)
  BY FillAppend DEF Texts
<1> HIDE DEF t, d, w
<1>5. /\ Q!FillStep(Filling(d, w, out), Open, names) = Filling(1, <<>>, out)
      /\ Q!FillStep(Filling(d, w, out), Close, names) = Filling(0, w, out \o Part(w, names))
      /\ c # Open /\ c # Close =>
           /\ Q!FillStep(Filling(0, w, out), c, names) = Filling(0, w, Append(out, c))
           /\ Q!FillStep(Filling(1, w, out), c, names) = Filling(1, Append(w, c), out)
  <2>1. Q!FillStep(Filling(d, w, out), Open, names) = Filling(1, <<>>, out)
    BY FillOpens
  <2>2. Q!FillStep(Filling(d, w, out), Close, names) = Filling(0, w, out \o Part(w, names))
    BY FillCloses
  <2>3. ASSUME c # Open, c # Close
        PROVE  /\ Q!FillStep(Filling(0, w, out), c, names) = Filling(0, w, Append(out, c))
               /\ Q!FillStep(Filling(1, w, out), c, names) = Filling(1, Append(w, c), out)
    BY <2>3, FillOutside, FillInside
  <2>. QED  BY <2>1, <2>2, <2>3
<1>6. \A e, v, f : Q!ScanPath(t) = Scanned(e, v, f) => Depth(t) = e /\ Within(t) = v /\ Found(t) = f
  BY ScannedParts
<1>7. \A e, v, o : Q!Fill(t, names) = Filling(e, v, o) => Out(t, names) = o
  BY DEF Out, Filling
<1>8. Further(path, c, names)
  <2>1. CASE c = Open /\ d = 0 /\ Q!ScanPath(t) = Scanned(1, <<>>, Found(path))
    BY <1>3, <1>4, <1>5, <1>6, <1>7, <2>1, Zenon DEF Further, t, d
  <2>2. CASE c = Close /\ d = 1 /\ Q!ScanPath(t) = Scanned(0, w, Append(Found(path), w))
    BY <1>3, <1>4, <1>5, <1>6, <1>7, <2>2, Zenon DEF Further, t, d, w
  <2>3. CASE c # Open /\ c # Close /\ d = 0 /\ Q!ScanPath(t) = Scanned(0, w, Found(path))
    BY <1>3, <1>4, <1>5, <1>6, <1>7, <2>3, Zenon DEF Further, t, d, w
  <2>4. CASE c # Open /\ c # Close /\ d = 1 /\ Q!ScanPath(t) = Scanned(1, Append(w, c), Found(path))
    <3>1. Depth(t) = 1 /\ Within(t) = Append(w, c) /\ Found(t) = Found(path)
      BY <1>6, <2>4
    <3>2. Out(t, names) = out
      BY <1>3, <1>4, <1>5, <1>7, <2>4
    <3>. QED  BY <1>3, <2>4, <3>1, <3>2, Zenon DEF Further, t, d, w
  <2>. QED  BY <1>2, <2>1, <2>2, <2>3, <2>4, Zenon DEF After, t, d, w
<1>. QED  BY <1>1, <1>8

(* The values of the names are texts. *)
Values(names) == \A m \in names : supplied.e[m].s \in Texts

(* What is written is a text. *)
LEMMA OutIsText ==
  ASSUME NEW names, Values(names)
  PROVE  \A path \in Texts : Sound(path) => Out(path, names) \in Texts
<1> DEFINE S == {path \in Texts : Sound(path) => Out(path, names) \in Texts}
<1>1. <<>> \in S
  <2>1. <<>> \in Texts
    BY EmptySeq DEF Texts
  <2>2. Out(<<>>, names) = <<>>
    BY FillEmpty DEF Out
  <2>. QED  BY <2>1, <2>2
<1>2. ASSUME NEW path \in Texts, NEW c \in Characters, path \in S PROVE Append(path, c) \in S
  <2> DEFINE t == Append(path, c)
             out == Out(path, names)
  <2>1. t \in Texts
    BY AppendProperties DEF Texts
  <2>2. ASSUME Sound(t) PROVE Out(t, names) \in Texts
    <3>1. Scans(path) /\ Sound(path) /\ Further(path, c, names)
      BY <2>2, FillFurther
    <3>2. out \in Texts
      BY <1>2, <3>1
    <3>3. Part(Within(path), names) \in Texts
      BY <3>1, PlaceholderIs, QuotedIsPlain DEF Part, Scans, Values
    <3> HIDE DEF out
    <3>4. out \o Part(Within(path), names) \in Texts /\ Append(out, c) \in Texts
      BY <3>2, <3>3, ConcatProperties, AppendProperties DEF Texts
    <3>. QED  BY <3>1, <3>2, <3>4, Zenon DEF Further, out
  <2>. QED  BY <2>1, <2>2
<1> HIDE DEF S
<1>3. Texts \subseteq S
  BY <1>1, <1>2, Growing DEF Texts
<1>. QED  BY <1>3 DEF S

In(m, f) == \E i \in DOMAIN f : f[i] = m

(* One more is found. *)
LEMMA InAppend ==
  ASSUME NEW Es, NEW f \in Seq(Es), NEW w \in Es, NEW m
  PROVE  In(m, Append(f, w)) <=> In(m, f) \/ w = m
<1> DEFINE t == Append(f, w)
<1>1. DOMAIN f = 1 .. Len(f) /\ DOMAIN t = 1 .. Len(f) + 1 /\ Len(f) \in Nat
  BY AppendProperties, LenProperties
<1>2. \A i \in 1 .. Len(f) + 1 : t[i] = IF i = Len(f) + 1 THEN w ELSE f[i]
  BY PlaceIn
<1> HIDE DEF t
<1>3. \A i \in 1 .. Len(f) : i \in 1 .. Len(f) + 1 /\ t[i] = f[i]
  BY <1>1, <1>2
<1>4. Len(f) + 1 \in 1 .. Len(f) + 1 /\ t[Len(f) + 1] = w
  BY <1>1, <1>2
<1>5. \A i \in 1 .. Len(f) + 1 : i \in 1 .. Len(f) \/ i = Len(f) + 1
  BY <1>1
<1>6. In(m, t) <=> In(m, f) \/ w = m
  BY <1>1, <1>3, <1>4, <1>5, Zenon DEF In
<1>. QED  BY <1>6 DEF t

(* The part in the place of a placeholder, and the placeholder replaced.   *)
LEMMA PartReplaced ==
  ASSUME NEW names, NEW n \in Texts, Plain(n), n \notin names, Values(names \cup {n}),
         NEW w \in Texts, Plain(w), NEW s \in Texts, NEW out \in Texts, NEW met \in BOOLEAN,
         Q!Replaced(s, Placeholder(n), Q!Quote(supplied.e[n].s)) = Outside(out, met)
  PROVE  Q!Replaced(s \o Part(w, names), Placeholder(n), Q!Quote(supplied.e[n].s))
           = Outside(out \o Part(w, names \cup {n}), met \/ w = n)
<1> DEFINE new == Q!Quote(supplied.e[n].s)
<1>1. new \in Texts
  BY QuotedIsPlain DEF Values
<1>2. CASE w \in names
  <2>1. w # n /\ Part(w, names) = Part(w, names \cup {n})
    BY <1>2, Zenon DEF Part
  <2>2. Part(w, names) \in Texts /\ Plain(Part(w, names))
    BY <1>2, QuotedIsPlain DEF Part, Values
  <2> DEFINE p == Part(w, names)
             old == Placeholder(n)
  <2>3. Braced(old)
    BY PlaceholderIs
  <2> HIDE DEF p, old, new
  <2>4. Q!Replaced(s, old, new) = Outside(out, met)
    BY DEF old, new
  <2>5. Q!Replaced(s \o p, old, new) = Outside(out \o p, met)
    BY <2>2, <2>3, <2>4, ReplacedPlain DEF p
  <2>6. met = (met \/ w = n)
    BY <2>1
  <2>. QED  BY <2>1, <2>5, <2>6 DEF p, old, new
<1>3. CASE w \notin names
  <2>1. Part(w, names) = Placeholder(w)
    BY <1>3 DEF Part
  <2>2. Part(w, names \cup {n}) = Chunk(w, n, new)
    BY <1>3 DEF Part, Chunk
  <2> HIDE DEF new
  <2>3. Q!Replaced(s, Placeholder(n), new) = Outside(out, met)
    BY DEF new
  <2>4. Q!Replaced(s \o Placeholder(w), Placeholder(n), new)
          = Outside(out \o Chunk(w, n, new), met \/ w = n)
    BY <1>1, <2>3, ReplacedPlaceholder
  <2>. QED  BY <2>1, <2>2, <2>4 DEF new
<1>. QED  BY <1>2, <1>3

(* Replacing the placeholder of one name fills in this name as well, and   *)
(* meets it if the template has it.                                        *)
LEMMA FillOne ==
  ASSUME NEW names, NEW n \in Texts, Plain(n), n \notin names, Values(names \cup {n})
  PROVE  \A path \in Texts :
           Sound(path) =>
             Q!Replaced(Out(path, names), Placeholder(n), Q!Quote(supplied.e[n].s))
               = Outside(Out(path, names \cup {n}), In(n, Found(path)))
<1> DEFINE new == Q!Quote(supplied.e[n].s)
           more == names \cup {n}
           Goes(path) == Sound(path) => Q!Replaced(Out(path, names), Placeholder(n), new)
                                          = Outside(Out(path, more), In(n, Found(path)))
           S == {path \in Texts : Goes(path)}
<1>1. <<>> \in S
  <2>1. <<>> \in Texts
    BY EmptySeq DEF Texts
  <2>2. Out(<<>>, names) = <<>> /\ Out(<<>>, more) = <<>>
    BY FillEmpty DEF Out
  <2>3. Q!ScanPath(<<>>) = Scanned(0, <<>>, <<>>)
    BY ScanPathEmpty, Zenon DEF Scanned
  <2>4. Found(<<>>) = <<>>
    BY <2>3, ScannedParts
  <2>5. In(n, <<>>) = FALSE
    BY DEF In
  <2>6. Q!Replaced(<<>>, Placeholder(n), new) = Outside(<<>>, FALSE)
    BY ReplacedEmpty, Zenon DEF Outside
  <2>. QED  BY <2>1, <2>2, <2>4, <2>5, <2>6, Zenon
<1>2. Values(names)
  BY DEF Values
<1>3. ASSUME NEW path \in Texts, NEW c \in Characters, path \in S PROVE Append(path, c) \in S
  <2> DEFINE t == Append(path, c)
             met == In(n, Found(path))
             w == Within(path)
             a == Out(path, names)
             b == Out(path, more)
             old == Placeholder(n)
  <2>1. t \in Texts
    BY AppendProperties DEF Texts
  <2>2. ASSUME Sound(t) PROVE Q!Replaced(Out(t, names), old, new)
                                = Outside(Out(t, more), In(n, Found(t)))
    <3>1. Scans(path) /\ Sound(path) /\ Further(path, c, names) /\ Further(path, c, more)
      BY <2>2, FillFurther
    <3>2. a \in Texts /\ b \in Texts
      BY <1>2, <3>1, OutIsText
    <3>3. Q!Replaced(a, old, new) = Outside(b, met)
      BY <1>3, <3>1
    <3>4. met \in BOOLEAN /\ w \in Texts /\ Plain(w) /\ Found(path) \in Seq(Texts)
      BY <3>1 DEF In, Scans
    <3> HIDE DEF met, w, a, b, S, Goes
    <3>5. Q!Replaced(a \o Part(w, names), old, new) = Outside(b \o Part(w, more), met \/ w = n)
      BY <3>2, <3>3, <3>4, PartReplaced
    <3>6. In(n, Append(Found(path), w)) = (met \/ w = n)
      <4>1. In(n, Append(Found(path), w)) <=> In(n, Found(path)) \/ w = n
        BY <3>4, InAppend
      <4>2. In(n, Append(Found(path), w)) \in BOOLEAN
        BY DEF In
      <4>. QED  BY <4>1, <4>2 DEF met
    <3>7. c # Open => Q!Replaced(Append(a, c), old, new) = Outside(Append(b, c), met)
      <4>1. Q!Replaced(Append(a, c), old, new)
              = Q!ReplaceStep(Q!Replaced(a, old, new), c, old, new)
        BY <3>2, TextAppend
      <4>2. Braced(old)
        BY PlaceholderIs
      <4> HIDE DEF old, new
      <4>3. c # Open => Q!ReplaceStep(Outside(b, met), c, old, new) = Outside(Append(b, c), met)
        BY <4>2, PlainStep
      <4>. QED  BY <3>3, <4>1, <4>3
    <3> HIDE DEF t, old, new, more
    <3>8. CASE c = Open
      <4>1. Out(t, names) = a /\ Out(t, more) = b /\ Found(t) = Found(path)
        BY <3>1, <3>8, BracesDiffer, Zenon DEF Further, t, a, b
      <4>. QED  BY <3>3, <4>1 DEF met
    <3>9. CASE c = Close
      <4>1. /\ Out(t, names) = a \o Part(w, names) /\ Out(t, more) = b \o Part(w, more)
            /\ Found(t) = Append(Found(path), w)
        BY <3>1, <3>9, BracesDiffer, Zenon DEF Further, t, a, b, w
      <4>. QED  BY <3>5, <3>6, <4>1
    <3>10. CASE c # Open /\ c # Close
      <4>1. Found(t) = Found(path)
        BY <3>1, <3>10, Zenon DEF Further, t
      <4>2. \/ Out(t, names) = a /\ Out(t, more) = b
            \/ Out(t, names) = Append(a, c) /\ Out(t, more) = Append(b, c)
        <5>1. 0 # 1
          OBVIOUS
        <5>. QED  BY <3>1, <3>10, <5>1, Zenon DEF Further, t, a, b
      <4>. QED  BY <3>3, <3>7, <3>10, <4>1, <4>2 DEF met
    <3>. QED  BY <3>8, <3>9, <3>10
  <2>. QED  BY <2>1, <2>2
<1> HIDE DEF S
<1>4. Texts \subseteq S
  BY <1>1, <1>3, Growing DEF Texts
<1>. QED  BY <1>4 DEF S

(* JoinAppend, of texts. *)
LEMMA TextJoinAppend ==
  \A s, w \in Texts, c \in Characters :
    s \o Append(w, c) = Append(s \o w, c) /\ s \o w \in Texts
BY JoinAppend DEF Texts

(* A text has a brace if one of its parts has. *)
LEMMA PlainJoin ==
  ASSUME NEW s \in Texts, NEW w \in Texts
  PROVE  Plain(s \o w) <=> Plain(s) /\ Plain(w)
<1> DEFINE j == s \o w
<1>1. /\ Len(s) \in Nat /\ Len(w) \in Nat /\ DOMAIN s = 1 .. Len(s) /\ DOMAIN w = 1 .. Len(w)
      /\ DOMAIN j = 1 .. Len(s) + Len(w)
      /\ \A i \in 1 .. Len(s) + Len(w) : j[i] = IF i <= Len(s) THEN s[i] ELSE w[i - Len(s)]
  BY ConcatProperties, LenProperties DEF Texts
<1> HIDE DEF j
<1>2. \A i \in 1 .. Len(s) : i \in 1 .. Len(s) + Len(w) /\ j[i] = s[i]
  BY <1>1
<1>3. ASSUME NEW i \in 1 .. Len(w)
      PROVE  Len(s) + i \in 1 .. Len(s) + Len(w) /\ j[Len(s) + i] = w[i]
  <2>1. /\ Len(s) + i \in 1 .. Len(s) + Len(w) /\ ~(Len(s) + i <= Len(s))
        /\ (Len(s) + i) - Len(s) = i
    BY <1>1
  <2>. QED  BY <1>1, <2>1
<1>4. \A i \in 1 .. Len(s) + Len(w) :
        \/ i \in 1 .. Len(s) /\ j[i] = s[i]
        \/ i - Len(s) \in 1 .. Len(w) /\ j[i] = w[i - Len(s)]
  BY <1>1
<1>5. ASSUME Plain(j) PROVE Plain(s) /\ Plain(w)
  <2>1. Plain(s)
    BY <1>1, <1>2, <1>5 DEF Plain
  <2>2. \A i \in 1 .. Len(w) : w[i] # Open /\ w[i] # Close
    BY <1>1, <1>3, <1>5 DEF Plain
  <2>. QED  BY <1>1, <2>1, <2>2, Zenon DEF Plain
<1>6. ASSUME Plain(s), Plain(w) PROVE Plain(j)
  BY <1>1, <1>4, <1>6, Zenon DEF Plain
<1>. QED  BY <1>5, <1>6 DEF j

(* A placeholder has braces. *)
LEMMA PlaceholderIsNot == ASSUME NEW n \in Texts PROVE ~Plain(Placeholder(n))
<1>1. 1 \in DOMAIN Placeholder(n) /\ Placeholder(n)[1] = Open
  BY PlaceholderIs, LenProperties DEF Texts
<1>. QED  BY <1>1 DEF Plain

(* Nothing filled in, the template is what it was. *)
LEMMA FillNone ==
  \A path \in Texts :
    Sound(path) =>
      path = Out(path, {}) \o (IF Depth(path) = 1 THEN <<Open>> \o Within(path) ELSE <<>>)
<1> DEFINE Goes(path) ==
             Sound(path) =>
               path = Out(path, {}) \o (IF Depth(path) = 1 THEN <<Open>> \o Within(path) ELSE <<>>)
           S == {path \in Texts : Goes(path)}
<1>1. <<>> \in S
  <2>1. <<>> \in Texts /\ <<>> \o <<>> = <<>>
    BY EmptySeq, ConcatEmptySeq DEF Texts
  <2>2. Out(<<>>, {}) = <<>>
    BY FillEmpty DEF Out
  <2>3. Q!ScanPath(<<>>) = Scanned(0, <<>>, <<>>)
    BY ScanPathEmpty, Zenon DEF Scanned
  <2>4. Depth(<<>>) = 0
    BY <2>3, ScannedParts
  <2>. QED  BY <2>1, <2>2, <2>4
<1>2. ASSUME NEW path \in Texts, NEW c \in Characters, path \in S PROVE Append(path, c) \in S
  <2> DEFINE t == Append(path, c)
             w == Within(path)
             a == Out(path, {})
  <2>1. t \in Texts
    BY AppendProperties DEF Texts
  <2>2. ASSUME Sound(t)
        PROVE  t = Out(t, {}) \o (IF Depth(t) = 1 THEN <<Open>> \o Within(t) ELSE <<>>)
    <3>1. Scans(path) /\ Sound(path) /\ Further(path, c, {})
      BY <2>2, FillFurther
    <3>2. a \in Texts
      BY <3>1, OutIsText DEF Values
    <3>3. path = a \o (IF Depth(path) = 1 THEN <<Open>> \o w ELSE <<>>)
      BY <1>2, <3>1
    <3>4. w \in Texts /\ <<Open>> \in Texts /\ Open \in Characters
      BY <3>1, BracesDiffer DEF Scans, Texts
    <3> HIDE DEF w, a, S, Goes
    <3>5. a \o <<>> = a /\ <<Open>> \o <<>> = <<Open>> /\ Append(a, c) \in Texts
      BY <3>2, <3>4, ConcatEmptySeq, AppendProperties DEF Texts
    <3>6. Append(a, c) \o <<>> = Append(a, c)
      BY <3>5, ConcatEmptySeq DEF Texts
    <3>7. <<Open>> \o w \in Texts /\ Append(<<Open>> \o w, c) = <<Open>> \o Append(w, c)
      <4> DEFINE o == <<Open>>
      <4>1. o \in Texts
        BY <3>4
      <4> HIDE DEF o
      <4>2. o \o w \in Texts /\ Append(o \o w, c) = o \o Append(w, c)
        BY <3>4, <4>1, TextJoinAppend
      <4>. QED  BY <4>2 DEF o
    <3>8. Append(a \o (<<Open>> \o w), c) = a \o (<<Open>> \o Append(w, c))
      <4> DEFINE ow == <<Open>> \o w
      <4>1. ow \in Texts
        BY <3>7
      <4> HIDE DEF ow
      <4>2. Append(a \o ow, c) = a \o Append(ow, c)
        BY <3>2, <4>1, TextJoinAppend
      <4>. QED  BY <3>7, <4>2 DEF ow
    <3>9. CASE c = Open
      <4>1. Out(t, {}) = a /\ Depth(t) = 1 /\ Within(t) = <<>> /\ Depth(path) = 0
        BY <3>1, <3>9, BracesDiffer, Zenon DEF Further, t, a
      <4>2. path = a
        BY <3>3, <3>5, <4>1
      <4>3. Append(a, Open) = a \o <<Open>>
        BY <3>2, <3>4, AppendIsConcat DEF Texts
      <4>. QED  BY <3>5, <3>9, <4>1, <4>2, <4>3
    <3>10. CASE c = Close
      <4>1. Out(t, {}) = a \o Part(w, {}) /\ Depth(t) = 0 /\ Depth(path) = 1
        BY <3>1, <3>10, BracesDiffer, Zenon DEF Further, t, a, w
      <4>2. path = a \o (<<Open>> \o w)
        BY <3>3, <4>1
      <4>3. Part(w, {}) = (<<Open>> \o w) \o <<Close>>
        BY Zenon DEF Part, Placeholder
      <4> DEFINE ow == <<Open>> \o w
      <4>4. ow \in Texts /\ <<Close>> \in Texts /\ Close \in Characters
        BY <3>7, BracesDiffer DEF Texts
      <4> HIDE DEF ow
      <4>5. ow \o <<Close>> = Append(ow, Close) /\ Append(ow, Close) \in Texts
        BY <4>4, AppendIsConcat, AppendProperties DEF Texts
      <4>6. a \o Append(ow, Close) = Append(a \o ow, Close) /\ a \o Append(ow, Close) \in Texts
        BY <3>2, <4>4, <4>5, JoinAppend, ConcatProperties DEF Texts
      <4>7. Out(t, {}) = t /\ t \o <<>> = t
        BY <2>1, <3>10, <4>1, <4>2, <4>3, <4>5, <4>6, ConcatEmptySeq DEF ow, Texts
      <4>. QED  BY <4>1, <4>7
    <3>11. CASE c # Open /\ c # Close
      <4>1. 0 # 1
        OBVIOUS
      <4>2. \/ Depth(path) = 0 /\ Depth(t) = 0 /\ Out(t, {}) = Append(a, c)
            \/ /\ Depth(path) = 1 /\ Depth(t) = 1 /\ Out(t, {}) = a /\ Within(t) = Append(w, c)
        BY <3>1, <3>11, <4>1, Zenon DEF Further, t, a, w
      <4>3. CASE Depth(path) = 0
        <5>1. path = a
          BY <3>3, <3>5, <4>3
        <5>. QED  BY <3>6, <4>2, <4>3, <5>1
      <4>4. CASE Depth(path) = 1
        <5>1. path = a \o (<<Open>> \o w)
          BY <3>3, <4>4
        <5>2. Depth(t) = 1 /\ Out(t, {}) = a /\ Within(t) = Append(w, c)
          BY <4>1, <4>2, <4>4
        <5>3. t = a \o (<<Open>> \o Append(w, c))
          BY <3>8, <5>1
        <5> HIDE DEF t
        <5>. QED  BY <5>2, <5>3, Zenon
      <4>. QED  BY <4>2, <4>3, <4>4
    <3>. QED  BY <3>9, <3>10, <3>11
  <2>. QED  BY <2>1, <2>2
<1> HIDE DEF S
<1>3. Texts \subseteq S
  BY <1>1, <1>2, Growing DEF Texts
<1>. QED  BY <1>3 DEF S

(* A brace is left as long as a name that was found is not filled in. *)
LEMMA FillPlain ==
  ASSUME NEW names, Values(names)
  PROVE  \A path \in Texts :
           Sound(path) => (Plain(Out(path, names)) <=> \A m : In(m, Found(path)) => m \in names)
<1> DEFINE Goes(path) ==
             Sound(path) => (Plain(Out(path, names)) <=> \A m : In(m, Found(path)) => m \in names)
           S == {path \in Texts : Goes(path)}
<1>1. <<>> \in S
  <2>1. <<>> \in Texts /\ Plain(<<>>)
    BY EmptySeq DEF Texts, Plain
  <2>2. Out(<<>>, names) = <<>>
    BY FillEmpty DEF Out
  <2>3. Q!ScanPath(<<>>) = Scanned(0, <<>>, <<>>)
    BY ScanPathEmpty, Zenon DEF Scanned
  <2>4. Found(<<>>) = <<>> /\ \A m : ~In(m, <<>>)
    BY <2>3, ScannedParts DEF In
  <2>. QED  BY <2>1, <2>2, <2>4
<1>2. ASSUME NEW path \in Texts, NEW c \in Characters, path \in S PROVE Append(path, c) \in S
  <2> DEFINE t == Append(path, c)
             w == Within(path)
             f == Found(path)
             a == Out(path, names)
  <2>1. t \in Texts
    BY AppendProperties DEF Texts
  <2>2. ASSUME Sound(t)
        PROVE  Plain(Out(t, names)) <=> \A m : In(m, Found(t)) => m \in names
    <3>1. Scans(path) /\ Sound(path) /\ Further(path, c, names)
      BY <2>2, FillFurther
    <3>2. a \in Texts
      BY <3>1, OutIsText
    <3>3. Plain(a) <=> \A m : In(m, f) => m \in names
      BY <1>2, <3>1
    <3>4. w \in Texts /\ f \in Seq(Texts)
      BY <3>1 DEF Scans
    <3> HIDE DEF t, w, f, a, S, Goes
    <3>5. CASE c = Open
      <4>1. Out(t, names) = a /\ Found(t) = f
        BY <3>1, <3>5, BracesDiffer, Zenon DEF Further, t, a, f
      <4>. QED  BY <3>3, <4>1
    <3>6. CASE c = Close
      <4>1. Out(t, names) = a \o Part(w, names) /\ Found(t) = Append(f, w)
        BY <3>1, <3>6, BracesDiffer, Zenon DEF Further, t, a, f, w
      <4>2. Part(w, names) \in Texts /\ (Plain(Part(w, names)) <=> w \in names)
        BY <3>4, PlaceholderIs, PlaceholderIsNot, QuotedIsPlain DEF Part, Values
      <4>3. Plain(a \o Part(w, names)) <=> Plain(a) /\ w \in names
        BY <3>2, <4>2, PlainJoin
      <4>4. \A m : In(m, Append(f, w)) <=> In(m, f) \/ w = m
        BY <3>4, InAppend
      <4>. QED  BY <3>3, <4>1, <4>3, <4>4
    <3>7. CASE c # Open /\ c # Close
      <4>1. Found(t) = f /\ (Out(t, names) = a \/ Out(t, names) = Append(a, c))
        BY <3>1, <3>7, Zenon DEF Further, t, a, f
      <4>2. Plain(Append(a, c)) <=> Plain(a)
        BY <3>2, <3>7, PlainAppend, PlainLonger
      <4>. QED  BY <3>3, <4>1, <4>2
    <3>. QED  BY <3>5, <3>6, <3>7
  <2>. QED  BY <2>1, <2>2
<1> HIDE DEF S
<1>3. Texts \subseteq S
  BY <1>1, <1>2, Growing DEF Texts
<1>. QED  BY <1>3 DEF S

(* Only the names that the template has make a difference. *)
LEMMA FillSame ==
  ASSUME NEW names, NEW others
  PROVE  \A path \in Texts :
           Sound(path) /\ (\A m : In(m, Found(path)) => (m \in names <=> m \in others)) =>
             Out(path, names) = Out(path, others)
<1> DEFINE Goes(path) ==
             Sound(path) /\ (\A m : In(m, Found(path)) => (m \in names <=> m \in others)) =>
               Out(path, names) = Out(path, others)
           S == {path \in Texts : Goes(path)}
<1>1. <<>> \in S
  <2>1. <<>> \in Texts
    BY EmptySeq DEF Texts
  <2>2. Out(<<>>, names) = <<>> /\ Out(<<>>, others) = <<>>
    BY FillEmpty DEF Out
  <2>. QED  BY <2>1, <2>2
<1>2. ASSUME NEW path \in Texts, NEW c \in Characters, path \in S PROVE Append(path, c) \in S
  <2> DEFINE t == Append(path, c)
             w == Within(path)
             f == Found(path)
  <2>1. t \in Texts
    BY AppendProperties DEF Texts
  <2>2. ASSUME Sound(t), \A m : In(m, Found(t)) => (m \in names <=> m \in others)
        PROVE  Out(t, names) = Out(t, others)
    <3>1. Scans(path) /\ Sound(path) /\ Further(path, c, names) /\ Further(path, c, others)
      BY <2>2, FillFurther
    <3>2. w \in Texts /\ f \in Seq(Texts)
      BY <3>1 DEF Scans
    <3>3. (\A m : In(m, f) => (m \in names <=> m \in others)) =>
            Out(path, names) = Out(path, others)
      BY <1>2, <3>1
    <3>4. \A m : In(m, Append(f, w)) <=> In(m, f) \/ w = m
      BY <3>2, InAppend
    <3> HIDE DEF t, w, f, S, Goes
    <3>5. CASE c = Open
      <4>1. /\ Out(t, names) = Out(path, names) /\ Out(t, others) = Out(path, others)
            /\ Found(t) = f
        BY <3>1, <3>5, BracesDiffer, Zenon DEF Further, t, f
      <4>. QED  BY <2>2, <3>3, <4>1
    <3>6. CASE c = Close
      <4>1. /\ Out(t, names) = Out(path, names) \o Part(w, names)
            /\ Out(t, others) = Out(path, others) \o Part(w, others)
            /\ Found(t) = Append(f, w)
        BY <3>1, <3>6, BracesDiffer, Zenon DEF Further, t, f, w
      <4>2. Part(w, names) = Part(w, others)
        BY <2>2, <3>4, <4>1 DEF Part
      <4>3. Out(path, names) = Out(path, others)
        BY <2>2, <3>3, <3>4, <4>1
      <4>. QED  BY <4>1, <4>2, <4>3
    <3>7. CASE c # Open /\ c # Close
      <4>1. 0 # 1
        OBVIOUS
      <4>2. /\ Found(t) = f
            /\ \/ Out(t, names) = Out(path, names) /\ Out(t, others) = Out(path, others)
               \/ /\ Out(t, names) = Append(Out(path, names), c)
                  /\ Out(t, others) = Append(Out(path, others), c)
        BY <3>1, <3>7, <4>1, Zenon DEF Further, t, f
      <4>. QED  BY <2>2, <3>3, <4>2
    <3>. QED  BY <3>5, <3>6, <3>7
  <2>. QED  BY <2>1, <2>2
<1> HIDE DEF S
<1>3. Texts \subseteq S
  BY <1>1, <1>2, Growing DEF Texts
<1>. QED  BY <1>3 DEF S

(* ------------------------------ Pointers ------------------------------- *)

(* The characters of pointers. *)
LEMMA MarksDiffer ==
  /\ Tilde # Slash /\ Tilde # Zero /\ Tilde # One /\ Slash # Zero /\ Slash # One /\ Zero # One
  /\ Tilde \in Characters /\ Slash \in Characters /\ Zero \in Characters /\ One \in Characters
<1>1. Tilde # Slash /\ Tilde # Zero /\ Tilde # One /\ Slash # Zero /\ Slash # One /\ Zero # One
  BY Zenon DEF Tilde, Slash, Zero, One
<1>. QED  BY <1>1 DEF Characters

(* The whole of a text is what str.replace makes of it. *)
Gives(s, old, new, out) == \E met : Q!Replaced(s, old, new) = Outside(out, met)

(* What replacing gives is what str.replace returns. *)
LEMMA GivesReplace ==
  ASSUME NEW s, NEW old, NEW new, NEW out, Gives(s, old, new, out)
  PROVE  Q!Replace(s, old, new) = out
BY DEF Gives, Q!Replace, Outside

(* Nothing is replaced in nothing. *)
LEMMA GivesNothing == ASSUME NEW old, NEW new PROVE Gives(<<>>, old, new, <<>>)
BY ReplacedEmpty, Zenon DEF Gives, Outside

(* A character that does not begin the pattern goes through. *)
LEMMA GivesOther ==
  ASSUME NEW s \in Texts, NEW c \in Characters, NEW old, ~Hits(c, old, 1), NEW new, NEW out,
         Gives(s, old, new, out)
  PROVE  Gives(Append(s, c), old, new, Append(out, c))
<1>1. PICK met : Q!Replaced(s, old, new) = Outside(out, met)
  BY DEF Gives
<1>2. Q!Replaced(Append(s, c), old, new) = Q!ReplaceStep(Q!Replaced(s, old, new), c, old, new)
  BY ReplacedAppend DEF Texts
<1>3. \A held \in Nat : held = 0 => Q!ReplaceStep(Holding(out, held, met), c, old, new)
                                      = Holding(Append(out, c), 0, met)
  <2> SUFFICES ASSUME NEW held \in Nat, held = 0
               PROVE  Q!ReplaceStep(Holding(out, held, met), c, old, new)
                        = Holding(Append(out, c), 0, met)
    OBVIOUS
  <2>1. ~Hits(c, old, held + 1)
    OBVIOUS
  <2>. QED  BY <2>1, StepDrops
<1>4. Q!ReplaceStep(Outside(out, met), c, old, new) = Outside(Append(out, c), met)
  BY <1>3 DEF Outside, Holding
<1>. QED  BY <1>1, <1>2, <1>4 DEF Gives

(* The one character of a pattern is replaced. *)
LEMMA GivesSingle ==
  ASSUME NEW s \in Texts, NEW x \in Characters, NEW new, NEW out \in Texts,
         Gives(s, <<x>>, new, out)
  PROVE  Gives(Append(s, x), <<x>>, new, out \o new)
<1> DEFINE old == <<x>>
<1>1. Hits(x, old, 1) /\ Ends(old, 1)
  BY DEF Hits, Ends
<1> HIDE DEF old
<1>2. PICK met : Q!Replaced(s, old, new) = Outside(out, met)
  BY DEF Gives, old
<1>3. Q!Replaced(Append(s, x), old, new) = Q!ReplaceStep(Q!Replaced(s, old, new), x, old, new)
  BY ReplacedAppend DEF Texts
<1>4. \A held \in Nat : held = 0 => Q!ReplaceStep(Holding(out, held, met), x, old, new)
                                      = Holding(Written(out, held, new), 0, Yes)
  <2> SUFFICES ASSUME NEW held \in Nat, held = 0
               PROVE  Q!ReplaceStep(Holding(out, held, met), x, old, new)
                        = Holding(Written(out, held, new), 0, Yes)
    OBVIOUS
  <2>1. Hits(x, old, held + 1) /\ Ends(old, held + 1)
    BY <1>1
  <2>. QED  BY <2>1, StepEnds
<1>5. Written(out, 0, new) = out \o new
  <2>1. Len(out) - 0 = Len(out) /\ SubSeq(out, 1, Len(out)) = out
    BY SubSeqFull, LenProperties DEF Texts
  <2>. QED  BY <2>1 DEF Written
<1>6. Q!ReplaceStep(Outside(out, met), x, old, new) = Outside(out \o new, Yes)
  BY <1>4, <1>5 DEF Outside, Holding
<1>. QED  BY <1>2, <1>3, <1>6 DEF Gives, old

(* Of a pattern of two characters, the first is held; the second ends it,  *)
(* and another drops it.                                                   *)
LEMMA GivesPair ==
  ASSUME NEW s \in Texts, NEW x \in Characters, NEW y \in Characters, NEW z \in Characters,
         x # y, z # x, NEW new, NEW out \in Texts, Gives(s, <<x, y>>, new, out)
  PROVE  /\ z = y => Gives(Append(Append(s, x), z), <<x, y>>, new, out \o new)
         /\ z # y => Gives(Append(Append(s, x), z), <<x, y>>, new, Append(Append(out, x), z))
<1> DEFINE old == <<x, y>>
<1>1. /\ Hits(x, old, 1) /\ ~Ends(old, 1) /\ ~Hits(z, old, 1)
      /\ (z = y => Hits(z, old, 2) /\ Ends(old, 2)) /\ (z # y => ~Hits(z, old, 2))
  BY DEF Hits, Ends
<1> HIDE DEF old
<1>2. PICK met : Q!Replaced(s, old, new) = Outside(out, met)
  BY DEF Gives, old
<1>3. Q!Replaced(Append(s, x), old, new) = Q!ReplaceStep(Q!Replaced(s, old, new), x, old, new)
  BY ReplacedAppend DEF Texts
<1>4. Append(s, x) \in Seq(Characters) /\ Append(out, x) \in Seq(Characters)
      /\ Len(Append(out, x)) = Len(out) + 1 /\ Len(out) \in Nat
      /\ \A i \in 1 .. Len(out) : Append(out, x)[i] = out[i]
  BY AppendProperties, LenProperties DEF Texts
<1> DEFINE sx == Append(s, x)
           ox == Append(out, x)
<1> HIDE DEF sx, ox
<1>5. Q!Replaced(Append(sx, z), old, new) = Q!ReplaceStep(Q!Replaced(sx, old, new), z, old, new)
  <2>1. sx \in Seq(Characters)
    BY <1>4 DEF sx
  <2>. QED  BY <2>1, ReplacedAppend
<1>6. \A h \in Nat : h = 0 =>
        Q!ReplaceStep(Holding(out, h, met), x, old, new) = Holding(ox, h + 1, met)
  <2> SUFFICES ASSUME NEW h \in Nat, h = 0
               PROVE  Q!ReplaceStep(Holding(out, h, met), x, old, new) = Holding(ox, h + 1, met)
    OBVIOUS
  <2>1. Hits(x, old, h + 1) /\ ~Ends(old, h + 1)
    BY <1>1
  <2>. QED  BY <2>1, StepHolds DEF ox
<1>7. Q!Replaced(sx, old, new) = Holding(ox, 1, met)
  BY <1>2, <1>3, <1>6 DEF Outside, Holding, sx
<1>8. \A h \in Nat : h = 1 =>
        /\ z = y => Q!ReplaceStep(Holding(ox, h, met), z, old, new)
                      = Holding(Written(ox, h, new), 0, Yes)
        /\ z # y => Q!ReplaceStep(Holding(ox, h, met), z, old, new)
                      = Holding(Append(ox, z), 0, met)
  <2> SUFFICES ASSUME NEW h \in Nat, h = 1
               PROVE  /\ z = y => Q!ReplaceStep(Holding(ox, h, met), z, old, new)
                                    = Holding(Written(ox, h, new), 0, Yes)
                      /\ z # y => Q!ReplaceStep(Holding(ox, h, met), z, old, new)
                                    = Holding(Append(ox, z), 0, met)
    OBVIOUS
  <2>1. h + 1 = 2
    OBVIOUS
  <2>2. z = y => Hits(z, old, h + 1) /\ Ends(old, h + 1)
    BY <1>1, <2>1
  <2>3. z # y => ~Hits(z, old, h + 1) /\ ~Hits(z, old, 1)
    BY <1>1, <2>1
  <2>4. ASSUME z = y PROVE Q!ReplaceStep(Holding(ox, h, met), z, old, new)
                             = Holding(Written(ox, h, new), 0, Yes)
    BY <2>2, <2>4, StepEnds
  <2>5. ASSUME z # y PROVE Q!ReplaceStep(Holding(ox, h, met), z, old, new)
                             = Holding(Append(ox, z), 0, met)
    BY <2>3, <2>5, StepDrops
  <2>. QED  BY <2>4, <2>5
<1>9. Written(ox, 1, new) = out \o new
  <2>1. Len(ox) - 1 = Len(out)
    BY <1>4 DEF ox
  <2>2. /\ SubSeq(ox, 1, Len(out)) \in Seq(Characters)
        /\ Len(SubSeq(ox, 1, Len(out))) = Len(out)
        /\ \A i \in 1 .. Len(out) : SubSeq(ox, 1, Len(out))[i] = out[i]
    BY <1>4 DEF ox
  <2>3. SubSeq(ox, 1, Len(out)) = out
    BY <1>4, <2>2, SeqEqual DEF Texts
  <2>. QED  BY <2>1, <2>3 DEF Written
<1>10. z = y => Q!Replaced(Append(sx, z), old, new) = Outside(out \o new, Yes)
  BY <1>5, <1>7, <1>8, <1>9 DEF Outside, Holding
<1>11. z # y => Q!Replaced(Append(sx, z), old, new) = Outside(Append(ox, z), met)
  <2> SUFFICES ASSUME z # y
               PROVE  Q!Replaced(Append(sx, z), old, new) = Outside(Append(ox, z), met)
    OBVIOUS
  <2>1. Q!ReplaceStep(Holding(ox, 1, met), z, old, new) = Holding(Append(ox, z), 0, met)
    BY <1>8
  <2>. QED  BY <1>5, <1>7, <2>1, Zenon DEF Outside, Holding
<1>. QED  BY <1>10, <1>11 DEF Gives, old, sx, ox

(* A text and the same with its tildes, and then its slashes, escaped; the *)
(* decoding goes the same way back.                                        *)
Slashless(text) == \A k \in DOMAIN text : text[k] # Slash
BothWays(n, e, f) ==
  /\ e \in Texts /\ f \in Texts /\ Slashless(f)
  /\ Gives(n, <<Tilde>>, <<Tilde, Zero>>, e) /\ Gives(e, <<Slash>>, <<Tilde, One>>, f)
  /\ Gives(f, <<Tilde, One>>, <<Slash>>, e) /\ Gives(e, <<Tilde, Zero>>, <<Tilde>>, n)

(* One character more that is no slash. *)
LEMMA SlashlessLonger ==
  ASSUME NEW w \in Texts, NEW c \in Characters
  PROVE  Slashless(Append(w, c)) <=> Slashless(w) /\ c # Slash
<1> DEFINE t == Append(w, c)
<1>1. /\ DOMAIN w = 1 .. Len(w) /\ DOMAIN t = 1 .. Len(w) + 1 /\ Len(w) \in Nat
      /\ \A i \in 1 .. Len(w) : t[i] = w[i]
      /\ t[Len(w) + 1] = c
  BY AppendProperties, LenProperties DEF Texts
<1> HIDE DEF t
<1>2. /\ 1 .. Len(w) \subseteq 1 .. Len(w) + 1 /\ Len(w) + 1 \in 1 .. Len(w) + 1
      /\ \A i \in 1 .. Len(w) + 1 : i \in 1 .. Len(w) \/ i = Len(w) + 1
  BY <1>1
<1>3. Slashless(t) <=> Slashless(w) /\ c # Slash
  BY <1>1, <1>2, Zenon DEF Slashless
<1>. QED  BY <1>3 DEF t

(* Two characters at the end of a text. *)
LEMMA TwoMore ==
  ASSUME NEW s \in Texts, NEW x \in Characters, NEW y \in Characters
  PROVE  /\ s \o <<x, y>> = Append(Append(s, x), y) /\ s \o <<x>> = Append(s, x)
         /\ Append(s, x) \in Texts /\ Append(Append(s, x), y) \in Texts
<1>1. s \in Seq(Characters) /\ <<x>> \in Seq(Characters)
  BY DEF Texts
<1>2. Append(s, x) \in Seq(Characters)
  BY <1>1, AppendProperties
<1>3. s \o <<x>> = Append(s, x)
  BY <1>1, AppendIsConcat
<1>4. <<x, y>> = Append(<<x>>, y)
  OBVIOUS
<1>5. s \o Append(<<x>>, y) = Append(s \o <<x>>, y)
  BY <1>1, JoinAppend
<1>6. Append(Append(s, x), y) \in Seq(Characters)
  BY <1>2, AppendProperties
<1>. QED  BY <1>2, <1>3, <1>4, <1>5, <1>6 DEF Texts

(* What is not the first of a pattern. *)
LEMMA NotFirst ==
  ASSUME NEW c, NEW x, c # x, NEW y PROVE ~Hits(c, <<x>>, 1) /\ ~Hits(c, <<x, y>>, 1)
BY DEF Hits

(* A tilde more. *)
LEMMA TildeBothWays ==
  ASSUME NEW n \in Texts, NEW e, NEW f, BothWays(n, e, f)
  PROVE  BothWays(Append(n, Tilde), Append(Append(e, Tilde), Zero),
                  Append(Append(f, Tilde), Zero))
<1> DEFINE et == Append(e, Tilde)
           ft == Append(f, Tilde)
           nt == Append(n, Tilde)
<1>1. e \in Texts /\ f \in Texts
  BY DEF BothWays
<1>2. /\ n \o <<Tilde>> = nt
      /\ e \o <<Tilde, Zero>> = Append(et, Zero)
      /\ et \in Texts /\ Append(et, Zero) \in Texts /\ ft \in Texts /\ Append(ft, Zero) \in Texts
  BY <1>1, TwoMore, MarksDiffer
<1>3. Slashless(Append(ft, Zero))
  BY <1>1, <1>2, SlashlessLonger, MarksDiffer DEF BothWays
<1>4. Gives(nt, <<Tilde>>, <<Tilde, Zero>>, Append(et, Zero))
  <2>1. Gives(Append(n, Tilde), <<Tilde>>, <<Tilde, Zero>>, e \o <<Tilde, Zero>>)
    BY <1>1, GivesSingle, MarksDiffer DEF BothWays
  <2>. QED  BY <1>2, <2>1
<1>5. Gives(Append(et, Zero), <<Slash>>, <<Tilde, One>>, Append(ft, Zero))
  <2>1. ~Hits(Tilde, <<Slash>>, 1) /\ ~Hits(Zero, <<Slash>>, 1)
    BY NotFirst, MarksDiffer
  <2>2. Gives(et, <<Slash>>, <<Tilde, One>>, ft)
    BY <1>1, <2>1, GivesOther, MarksDiffer DEF BothWays
  <2> HIDE DEF et, ft
  <2>. QED  BY <1>2, <2>1, <2>2, GivesOther, MarksDiffer
<1>6. Gives(Append(ft, Zero), <<Tilde, One>>, <<Slash>>, Append(et, Zero))
  <2>1. Gives(f, <<Tilde, One>>, <<Slash>>, e)
    BY DEF BothWays
  <2>. QED  BY <1>1, <2>1, GivesPair, MarksDiffer
<1>7. Gives(Append(et, Zero), <<Tilde, Zero>>, <<Tilde>>, nt)
  <2>1. Gives(e, <<Tilde, Zero>>, <<Tilde>>, n)
    BY DEF BothWays
  <2>2. Gives(Append(et, Zero), <<Tilde, Zero>>, <<Tilde>>, n \o <<Tilde>>)
    BY <1>1, <2>1, GivesPair, MarksDiffer
  <2>. QED  BY <1>2, <2>2
<1> HIDE DEF et, ft, nt
<1>8. BothWays(nt, Append(et, Zero), Append(ft, Zero))
  BY <1>2, <1>3, <1>4, <1>5, <1>6, <1>7 DEF BothWays
<1>. QED  BY <1>8 DEF et, ft, nt

(* A slash more. *)
LEMMA SlashBothWays ==
  ASSUME NEW n \in Texts, NEW e, NEW f, BothWays(n, e, f)
  PROVE  BothWays(Append(n, Slash), Append(e, Slash), Append(Append(f, Tilde), One))
<1> DEFINE es == Append(e, Slash)
           ft == Append(f, Tilde)
           ns == Append(n, Slash)
<1>1. e \in Texts /\ f \in Texts
  BY DEF BothWays
<1>2. /\ e \o <<Slash>> = es /\ f \o <<Tilde, One>> = Append(ft, One)
      /\ es \in Texts /\ ft \in Texts /\ Append(ft, One) \in Texts
  BY <1>1, TwoMore, MarksDiffer
<1>3. Slashless(Append(ft, One))
  BY <1>1, <1>2, SlashlessLonger, MarksDiffer DEF BothWays
<1>4. Gives(ns, <<Tilde>>, <<Tilde, Zero>>, es)
  <2>1. ~Hits(Slash, <<Tilde>>, 1)
    BY NotFirst, MarksDiffer
  <2>. QED  BY <1>1, <2>1, GivesOther, MarksDiffer DEF BothWays
<1>5. Gives(es, <<Slash>>, <<Tilde, One>>, Append(ft, One))
  <2>1. Gives(Append(e, Slash), <<Slash>>, <<Tilde, One>>, f \o <<Tilde, One>>)
    BY <1>1, GivesSingle, MarksDiffer DEF BothWays
  <2>. QED  BY <1>2, <2>1
<1>6. Gives(Append(ft, One), <<Tilde, One>>, <<Slash>>, es)
  <2>1. Gives(f, <<Tilde, One>>, <<Slash>>, e)
    BY DEF BothWays
  <2>2. Gives(Append(ft, One), <<Tilde, One>>, <<Slash>>, e \o <<Slash>>)
    BY <1>1, <2>1, GivesPair, MarksDiffer
  <2>. QED  BY <1>2, <2>2
<1>7. Gives(es, <<Tilde, Zero>>, <<Tilde>>, ns)
  <2>1. ~Hits(Slash, <<Tilde, Zero>>, 1)
    BY NotFirst, MarksDiffer
  <2>. QED  BY <1>1, <2>1, GivesOther, MarksDiffer DEF BothWays
<1> HIDE DEF es, ft, ns
<1>8. BothWays(ns, es, Append(ft, One))
  BY <1>2, <1>3, <1>4, <1>5, <1>6, <1>7 DEF BothWays
<1>. QED  BY <1>8 DEF es, ft, ns

(* Another character more. *)
LEMMA OtherBothWays ==
  ASSUME NEW n \in Texts, NEW e, NEW f, BothWays(n, e, f), NEW c \in Characters,
         c # Tilde, c # Slash
  PROVE  BothWays(Append(n, c), Append(e, c), Append(f, c))
<1>1. e \in Texts /\ f \in Texts
  BY DEF BothWays
<1>2. Append(e, c) \in Texts /\ Append(f, c) \in Texts
  BY <1>1, TwoMore
<1>3. Slashless(Append(f, c))
  BY <1>1, SlashlessLonger DEF BothWays
<1>4. /\ ~Hits(c, <<Tilde>>, 1) /\ ~Hits(c, <<Slash>>, 1)
      /\ ~Hits(c, <<Tilde, One>>, 1) /\ ~Hits(c, <<Tilde, Zero>>, 1)
  BY NotFirst
<1>5. Gives(Append(n, c), <<Tilde>>, <<Tilde, Zero>>, Append(e, c))
  BY <1>1, <1>4, GivesOther DEF BothWays
<1>6. Gives(Append(e, c), <<Slash>>, <<Tilde, One>>, Append(f, c))
  BY <1>1, <1>4, GivesOther DEF BothWays
<1>7. Gives(Append(f, c), <<Tilde, One>>, <<Slash>>, Append(e, c))
  BY <1>1, <1>4, GivesOther DEF BothWays
<1>8. Gives(Append(e, c), <<Tilde, Zero>>, <<Tilde>>, Append(n, c))
  BY <1>1, <1>4, GivesOther DEF BothWays
<1>. QED  BY <1>2, <1>3, <1>5, <1>6, <1>7, <1>8 DEF BothWays

(* So every text has an escaped form, and only one. *)
LEMMA EscapedBothWays == \A n \in Texts : \E e, f : BothWays(n, e, f)
<1> DEFINE S == {n \in Texts : \E e, f : BothWays(n, e, f)}
<1>1. <<>> \in S
  <2>1. <<>> \in Texts /\ Slashless(<<>>)
    BY EmptySeq DEF Texts, Slashless
  <2>2. BothWays(<<>>, <<>>, <<>>)
    BY <2>1, GivesNothing, Zenon DEF BothWays
  <2>. QED  BY <2>1, <2>2
<1>2. ASSUME NEW n \in Texts, NEW c \in Characters, n \in S PROVE Append(n, c) \in S
  <2>1. PICK e, f : BothWays(n, e, f)
    BY <1>2
  <2>2. Append(n, c) \in Texts
    BY AppendProperties DEF Texts
  <2>3. \E e2, f2 : BothWays(Append(n, c), e2, f2)
    BY <2>1, TildeBothWays, SlashBothWays, OtherBothWays
  <2>. QED  BY <2>2, <2>3
<1> HIDE DEF S
<1>3. Texts \subseteq S
  BY <1>1, <1>2, Growing DEF Texts
<1>. QED  BY <1>3 DEF S

(* Decoding undoes the escaping, which leaves no slash. *)
LEMMA EscapeReversible ==
  ASSUME NEW n \in Texts
  PROVE  /\ Q!Escape(n) \in Texts /\ Slashless(Q!Escape(n))
         /\ Q!Unescape(Q!Escape(n)) = n
<1>1. PICK e, f : BothWays(n, e, f)
  BY EscapedBothWays
<1>2. /\ Q!Replace(n, <<Tilde>>, <<Tilde, Zero>>) = e
      /\ Q!Replace(e, <<Slash>>, <<Tilde, One>>) = f
      /\ Q!Replace(f, <<Tilde, One>>, <<Slash>>) = e
      /\ Q!Replace(e, <<Tilde, Zero>>, <<Tilde>>) = n
  BY <1>1, GivesReplace DEF BothWays
<1>3. Q!Escape(n) = f
  BY <1>2, Zenon DEF Q!Escape, Tilde, Zero, One, Slash
<1>4. Q!Unescape(f) = n
  BY <1>2, Zenon DEF Q!Unescape, Tilde, Zero, One, Slash
<1>. QED  BY <1>1, <1>3, <1>4 DEF BothWays

(* A text without a tilde has nothing to decode. *)
LEMMA TildelessIsDecoded ==
  \A n \in Texts : (\A k \in DOMAIN n : n[k] # Tilde) => Q!Unescape(n) = n
<1> DEFINE Tildeless(n) == \A k \in DOMAIN n : n[k] # Tilde
           Same(n) ==
             Gives(n, <<Tilde, One>>, <<Slash>>, n) /\ Gives(n, <<Tilde, Zero>>, <<Tilde>>, n)
           S == {n \in Texts : Tildeless(n) => Same(n)}
<1>1. <<>> \in S
  BY EmptySeq, GivesNothing DEF Texts
<1>2. ASSUME NEW n \in Texts, NEW c \in Characters, n \in S PROVE Append(n, c) \in S
  <2>1. Append(n, c) \in Texts
    BY AppendProperties DEF Texts
  <2>2. ASSUME Tildeless(Append(n, c)) PROVE Same(Append(n, c))
    <3>1. Tildeless(n) /\ c # Tilde
      <4> DEFINE t == Append(n, c)
      <4>1. /\ DOMAIN n = 1 .. Len(n) /\ DOMAIN t = 1 .. Len(n) + 1 /\ Len(n) \in Nat
            /\ \A i \in 1 .. Len(n) : t[i] = n[i]
            /\ t[Len(n) + 1] = c
        BY AppendProperties, LenProperties DEF Texts
      <4>2. Tildeless(t)
        BY <2>2
      <4> HIDE DEF t
      <4>3. 1 .. Len(n) \subseteq 1 .. Len(n) + 1 /\ Len(n) + 1 \in 1 .. Len(n) + 1
        BY <4>1
      <4>. QED  BY <4>1, <4>2, <4>3, Zenon
    <3>2. ~Hits(c, <<Tilde, One>>, 1) /\ ~Hits(c, <<Tilde, Zero>>, 1)
      BY <3>1, NotFirst
    <3>3. Same(n)
      BY <1>2, <3>1
    <3>. QED  BY <3>2, <3>3, GivesOther
  <2>. QED  BY <2>1, <2>2
<1> HIDE DEF S
<1>3. Texts \subseteq S
  BY <1>1, <1>2, Growing DEF Texts
<1>4. ASSUME NEW n \in Texts, Tildeless(n) PROVE Q!Unescape(n) = n
  <2>1. Same(n)
    BY <1>3, <1>4 DEF S
  <2>2. /\ Q!Replace(n, <<Tilde, One>>, <<Slash>>) = n
        /\ Q!Replace(n, <<Tilde, Zero>>, <<Tilde>>) = n
    BY <2>1, GivesReplace
  <2>. QED  BY <2>2, Zenon DEF Q!Unescape, Tilde, Zero, One, Slash
<1>. QED  BY <1>4

(* What str.split has: the pieces that are complete, and the last.         *)
LEMMA SplitOn ==
  ASSUME NEW p \in Seq(Texts), NEW q \in Texts, NEW c \in Characters, c # Slash
  PROVE  Q!SplitStep(Append(p, q), c, Slash) = Append(p, Append(q, c))
<1> DEFINE a == Append(p, q)
           r == Append(q, c)
           b == Append(p, r)
           e == [a EXCEPT ![Len(a)] = Append(@, c)]
<1>1. /\ Len(p) \in Nat /\ Len(a) = Len(p) + 1 /\ a[Len(p) + 1] = q
      /\ DOMAIN a = 1 .. Len(p) + 1 /\ \A i \in 1 .. Len(p) : a[i] = p[i]
  BY AppendProperties, LenProperties
<1>2. r \in Texts
  BY AppendProperties DEF Texts
<1>3. /\ b \in Seq(Texts) /\ Len(b) = Len(p) + 1 /\ b[Len(p) + 1] = r
      /\ DOMAIN b = 1 .. Len(p) + 1 /\ \A i \in 1 .. Len(p) : b[i] = p[i]
  BY <1>2, AppendProperties, LenProperties
<1>4. e = [i \in 1 .. Len(p) + 1 |-> IF i = Len(p) + 1 THEN Append(a[Len(p) + 1], c) ELSE a[i]]
  BY <1>1
<1>5. b = [i \in 1 .. Len(p) + 1 |-> b[i]]
  <2> HIDE DEF b
  <2>. QED  BY <1>3
<1> HIDE DEF a, b, e, r
<1>6. ASSUME NEW i \in 1 .. Len(p) + 1
      PROVE  b[i] = IF i = Len(p) + 1 THEN Append(a[Len(p) + 1], c) ELSE a[i]
  <2>1. CASE i = Len(p) + 1
    BY <1>1, <1>3, <2>1 DEF r
  <2>2. CASE i # Len(p) + 1
    <3>1. i \in 1 .. Len(p)
      BY <1>1, <2>2
    <3>. QED  BY <1>1, <1>3, <2>2, <3>1
  <2>. QED  BY <2>1, <2>2
<1>7. e = b
  BY <1>4, <1>5, <1>6
<1>8. Q!SplitStep(a, c, Slash) = e
  BY Zenon DEF Q!SplitStep, e
<1>. QED  BY <1>7, <1>8 DEF a, b, r

(* What has no slash is at the end of the last piece. *)
LEMMA SplitPiece ==
  ASSUME NEW s \in Texts, NEW p \in Seq(Texts), NEW q \in Texts,
         Q!Split(s, Slash) = Append(p, q)
  PROVE  \A w \in Texts : Slashless(w) => Q!Split(s \o w, Slash) = Append(p, q \o w)
<1> DEFINE Goes(w) == Slashless(w) => Q!Split(s \o w, Slash) = Append(p, q \o w)
           S == {w \in Texts : Goes(w)}
<1>1. <<>> \in S
  <2>1. <<>> \in Texts /\ s \o <<>> = s /\ q \o <<>> = q
    BY EmptySeq, ConcatEmptySeq DEF Texts
  <2>. QED  BY <2>1
<1>2. ASSUME NEW w \in Texts, NEW c \in Characters, w \in S PROVE Append(w, c) \in S
  <2>1. Append(w, c) \in Texts
    BY AppendProperties DEF Texts
  <2>2. ASSUME Slashless(Append(w, c))
        PROVE  Q!Split(s \o Append(w, c), Slash) = Append(p, q \o Append(w, c))
    <3>1. Slashless(w) /\ c # Slash
      BY <2>2, SlashlessLonger
    <3>2. Q!Split(s \o w, Slash) = Append(p, q \o w)
      BY <1>2, <3>1
    <3>3. /\ s \o Append(w, c) = Append(s \o w, c) /\ s \o w \in Texts
          /\ q \o Append(w, c) = Append(q \o w, c) /\ q \o w \in Texts
      BY TextJoinAppend
    <3> DEFINE sw == s \o w
               qw == q \o w
    <3>4. sw \in Texts /\ qw \in Texts
      BY <3>3
    <3> HIDE DEF sw, qw
    <3>5. Q!Split(Append(sw, c), Slash) = Q!SplitStep(Q!Split(sw, Slash), c, Slash)
      BY <3>4, SplitAppend DEF Texts
    <3>6. Q!SplitStep(Append(p, qw), c, Slash) = Append(p, Append(qw, c))
      BY <3>1, <3>4, SplitOn
    <3>. QED  BY <3>2, <3>3, <3>5, <3>6, Zenon DEF sw, qw
  <2>. QED  BY <2>1, <2>2
<1> HIDE DEF S
<1>3. Texts \subseteq S
  BY <1>1, <1>2, Growing DEF Texts
<1>. QED  BY <1>3 DEF S

(* A slash begins a new one. *)
LEMMA SplitSlash ==
  ASSUME NEW s \in Texts
  PROVE  Q!Split(Append(s, Slash), Slash) = Append(Q!Split(s, Slash), <<>>)
<1>1. Q!Split(Append(s, Slash), Slash) = Q!SplitStep(Q!Split(s, Slash), Slash, Slash)
  BY SplitAppend, MarksDiffer DEF Texts
<1>2. ASSUME NEW p PROVE Q!SplitStep(p, Slash, Slash) = Append(p, <<>>)
  BY Zenon DEF Q!SplitStep
<1>. QED  BY <1>1, <1>2

(* A pointer is a slash and a token, once or twice. *)
OnePointer(f) == <<Slash>> \o f
TwoPointer(a, f) == (OnePointer(a) \o <<Slash>>) \o f

(* The pieces of a pointer of one token. *)
LEMMA OnePiece ==
  ASSUME NEW f \in Texts, Slashless(f)
  PROVE  /\ OnePointer(f) \in Texts
         /\ Q!Split(OnePointer(f), Slash) = Append(<<<<>>>>, f)
<1>1. <<>> \in Texts /\ <<>> \o f = f /\ <<Slash>> = Append(<<>>, Slash)
  BY EmptySeq, ConcatEmptySeq DEF Texts
<1>2. <<Slash>> \in Texts /\ <<<<>>>> \in Seq(Texts)
  BY <1>1, MarksDiffer DEF Texts
<1>3. Q!Split(<<>>, Slash) = <<<<>>>>
  BY SplitEmpty
<1>4. Q!Split(<<Slash>>, Slash) = Append(<<<<>>>>, <<>>)
  BY <1>1, <1>3, SplitSlash, Zenon
<1> DEFINE o == <<Slash>>
           p == <<<<>>>>
           q == <<>>
<1>5. /\ o \in Texts /\ p \in Seq(Texts) /\ q \in Texts
      /\ Q!Split(o, Slash) = Append(p, q) /\ q \o f = f
  BY <1>1, <1>2, <1>4
<1> HIDE DEF o, p, q
<1>6. Q!Split(o \o f, Slash) = Append(p, f)
  <2>1. Q!Split(o \o f, Slash) = Append(p, q \o f)
    BY <1>5, SplitPiece, Zenon
  <2>. QED  BY <1>5, <2>1, Zenon
<1>7. o \o f \in Texts
  BY <1>5, ConcatProperties DEF Texts
<1>. QED  BY <1>6, <1>7 DEF OnePointer, o, p

(* Of one of two. *)
LEMMA TwoPieces ==
  ASSUME NEW a \in Texts, Slashless(a), NEW f \in Texts, Slashless(f)
  PROVE  /\ TwoPointer(a, f) \in Texts
         /\ Q!Split(TwoPointer(a, f), Slash) = Append(Append(<<<<>>>>, a), f)
<1> DEFINE o == OnePointer(a)
           p == Append(<<<<>>>>, a)
           os == o \o <<Slash>>
<1>1. o \in Texts /\ Q!Split(o, Slash) = p
  BY OnePiece
<1>2. <<>> \in Texts /\ <<>> \o f = f
  BY EmptySeq, ConcatEmptySeq DEF Texts
<1>3. p \in Seq(Texts)
  <2>1. <<<<>>>> \in Seq(Texts)
    BY <1>2
  <2>. QED  BY <2>1, AppendProperties
<1> HIDE DEF o, p
<1>4. os = Append(o, Slash) /\ os \in Texts
  BY <1>1, TwoMore, MarksDiffer
<1>5. Q!Split(os, Slash) = Append(p, <<>>)
  BY <1>1, <1>4, SplitSlash
<1> HIDE DEF os
<1> DEFINE q == <<>>
<1>6. /\ os \in Texts /\ p \in Seq(Texts) /\ q \in Texts
      /\ Q!Split(os, Slash) = Append(p, q) /\ q \o f = f
  BY <1>2, <1>3, <1>4, <1>5
<1> HIDE DEF q
<1>7. Q!Split(os \o f, Slash) = Append(p, f)
  <2>1. Q!Split(os \o f, Slash) = Append(p, q \o f)
    BY <1>6, SplitPiece, Zenon
  <2>. QED  BY <1>6, <2>1, Zenon
<1>8. os \o f \in Texts
  BY <1>4, ConcatProperties DEF Texts
<1>. QED  BY <1>7, <1>8 DEF TwoPointer, os, o, p

(* All but the first of two, and of three. *)
LEMMA TailOfTwo == ASSUME NEW x, NEW y PROVE Tail(Append(<<x>>, y)) = <<y>>
<1> DEFINE Es == {x, y}
           s == Append(<<x>>, y)
<1>1. s \in Seq(Es) /\ Len(s) = 2 /\ s[2] = y
  OBVIOUS
<1>2. s # <<>>
  BY <1>1, LenProperties, EmptySeq
<1> HIDE DEF s
<1>3. /\ Tail(s) \in Seq(Es) /\ Len(Tail(s)) = Len(s) - 1
      /\ \A i \in 1 .. Len(s) - 1 : Tail(s)[i] = s[i + 1]
  BY <1>1, <1>2, HeadTailProperties
<1> DEFINE r == Tail(s)
<1>4. r \in Seq(Es) /\ Len(r) = 1 /\ \A i \in 1 .. 1 : r[i] = y
  BY <1>1, <1>3
<1> HIDE DEF r
<1>5. r = <<y>>
  BY <1>4
<1>. QED  BY <1>5 DEF r, s

(* And of three. *)
LEMMA TailOfThree ==
  ASSUME NEW x, NEW y, NEW z PROVE Tail(Append(Append(<<x>>, y), z)) = <<y, z>>
<1> DEFINE Es == {x, y, z}
           s == Append(Append(<<x>>, y), z)
<1>1. s \in Seq(Es) /\ Len(s) = 3 /\ s[2] = y /\ s[3] = z
  OBVIOUS
<1>2. s # <<>>
  BY <1>1, LenProperties, EmptySeq
<1> HIDE DEF s
<1>3. /\ Tail(s) \in Seq(Es) /\ Len(Tail(s)) = Len(s) - 1
      /\ \A i \in 1 .. Len(s) - 1 : Tail(s)[i] = s[i + 1]
  BY <1>1, <1>2, HeadTailProperties
<1> DEFINE r == Tail(s)
<1>4. r \in Seq(Es) /\ Len(r) = 2 /\ \A i \in 1 .. 2 : r[i] = s[i + 1]
  BY <1>1, <1>3
<1> HIDE DEF r
<1>5. 1 \in 1 .. 2 /\ 2 \in 1 .. 2 /\ 1 + 1 = 2 /\ 2 + 1 = 3
  OBVIOUS
<1>6. r[1] = y /\ r[2] = z
  BY <1>1, <1>4, <1>5
<1>7. r = <<y, z>>
  BY <1>4, <1>6
<1>. QED  BY <1>7 DEF r, s

(* The tokens of a pointer of one token. *)
LEMMA OneToken ==
  ASSUME NEW f \in Texts, Slashless(f)
  PROVE  Q!Tokens(OnePointer(f)) = <<Q!Unescape(f)>>
<1> DEFINE pieces == Tail(Q!Split(OnePointer(f), Slash))
<1>1. pieces = <<f>>
  <2>1. Tail(Append(<<<<>>>>, f)) = <<f>>
    BY TailOfTwo
  <2>. QED  BY <2>1, OnePiece
<1>2. Q!Tokens(OnePointer(f)) = [i \in DOMAIN pieces |-> Q!Unescape(pieces[i])]
  BY Zenon DEF Q!Tokens, Slash
<1>3. [i \in DOMAIN <<f>> |-> Q!Unescape(<<f>>[i])] = <<Q!Unescape(f)>>
  OBVIOUS
<1> HIDE DEF pieces
<1>. QED  BY <1>1, <1>2, <1>3, Zenon

(* And of two. *)
LEMMA TwoTokens ==
  ASSUME NEW a \in Texts, Slashless(a), NEW f \in Texts, Slashless(f)
  PROVE  Q!Tokens(TwoPointer(a, f)) = <<Q!Unescape(a), Q!Unescape(f)>>
<1> DEFINE pieces == Tail(Q!Split(TwoPointer(a, f), Slash))
<1>1. pieces = <<a, f>>
  <2>1. Tail(Append(Append(<<<<>>>>, a), f)) = <<a, f>>
    BY TailOfThree
  <2>. QED  BY <2>1, TwoPieces
<1>2. Q!Tokens(TwoPointer(a, f)) = [i \in DOMAIN pieces |-> Q!Unescape(pieces[i])]
  BY Zenon DEF Q!Tokens, Slash
<1>3. [i \in DOMAIN <<a, f>> |-> Q!Unescape(<<a, f>>[i])] = <<Q!Unescape(a), Q!Unescape(f)>>
  OBVIOUS
<1> HIDE DEF pieces
<1>. QED  BY <1>1, <1>2, <1>3, Zenon

(* What a value has at one key. *)
At(d, x) == IF d.t = "object" /\ x \in DOMAIN d.e THEN d.e[x] ELSE Q!Absent

(* Reading no token, one and two. *)
LEMMA ReadNone == ASSUME NEW d PROVE Q!ReadTokens(d, <<>>) = d
<1>1. Len(<<>>) = 0
  OBVIOUS
<1>2. Len(<<>>) \in Nat
  BY <1>1
<1>3. PICK f : ReadTokensOf(f, d, <<>>)
  BY <1>2, ReadTokensIs, Zenon
<1>. QED  BY <1>1, <1>3, Zenon DEF ReadTokensOf

(* Reading one token. *)
LEMMA ReadOne == ASSUME NEW d, NEW x PROVE Q!ReadTokens(d, <<x>>) = At(d, x)
<1> DEFINE tokens == <<x>>
<1>1. Len(tokens) = 1 /\ tokens[1] = x /\ Len(tokens) \in Nat
  OBVIOUS
<1> HIDE DEF tokens
<1>2. PICK f : ReadTokensOf(f, d, tokens)
  BY <1>1, ReadTokensIs, Zenon
<1>3. 1 \in 1 .. Len(tokens) /\ 1 - 1 = 0
  BY <1>1
<1>4. f[1] = At(f[1 - 1], tokens[1])
  BY <1>2, <1>3, Zenon DEF ReadTokensOf, At
<1>5. f[0] = d /\ Q!ReadTokens(d, tokens) = f[1]
  BY <1>1, <1>2, Zenon DEF ReadTokensOf
<1>. QED  BY <1>1, <1>3, <1>4, <1>5 DEF tokens

(* Reading two. *)
LEMMA ReadTwo == ASSUME NEW d, NEW x, NEW y PROVE Q!ReadTokens(d, <<x, y>>) = At(At(d, x), y)
<1> DEFINE tokens == <<x, y>>
<1>1. Len(tokens) = 2 /\ tokens[1] = x /\ tokens[2] = y /\ Len(tokens) \in Nat
  OBVIOUS
<1> HIDE DEF tokens
<1>2. PICK f : ReadTokensOf(f, d, tokens)
  BY <1>1, ReadTokensIs, Zenon
<1>3. 1 \in 1 .. Len(tokens) /\ 1 - 1 = 0 /\ 2 \in 1 .. Len(tokens) /\ 2 - 1 = 1
  BY <1>1
<1>4. f[1] = At(f[1 - 1], tokens[1]) /\ f[2] = At(f[2 - 1], tokens[2])
  BY <1>2, <1>3, Zenon DEF ReadTokensOf, At
<1>5. f[0] = d /\ Q!ReadTokens(d, tokens) = f[2]
  BY <1>1, <1>2, Zenon DEF ReadTokensOf
<1>. QED  BY <1>1, <1>3, <1>4, <1>5 DEF tokens

(* Writing one token into an object. *)
LEMMA WriteOne ==
  ASSUME NEW d, d.t = "object", NEW x, NEW value
  PROVE  Q!WriteTokens(d, <<x>>, value) = Q!SetKey(d, x, value)
<1> DEFINE tokens == <<x>>
<1>1. Len(tokens) = 1 /\ tokens[1] = x /\ Len(tokens) \in Nat /\ SubSeq(tokens, 1, 1 - 1) = <<>>
  OBVIOUS
<1> HIDE DEF tokens
<1>2. PICK f : WriteTokensOf(f, d, tokens, value)
  BY <1>1, WriteTokensIs, Zenon
<1>3. 1 \in 1 .. Len(tokens) /\ 1 - 1 = 0 /\ Len(tokens) + 1 - 1 = 1
  BY <1>1
<1>4. f[1] = Q!SetKey(Q!Holder(d, tokens, Len(tokens) + 1 - 1), tokens[Len(tokens) + 1 - 1],
                      f[1 - 1])
  BY <1>2, <1>3, Zenon DEF WriteTokensOf
<1>5. f[0] = value /\ Q!WriteTokens(d, tokens, value) = f[1]
  BY <1>1, <1>2, Zenon DEF WriteTokensOf
<1>6. Q!Holder(d, tokens, 1) = d
  BY <1>1, ReadNone, Zenon DEF Q!Holder
<1>. QED  BY <1>1, <1>3, <1>4, <1>5, <1>6 DEF tokens

(* The pointers that the converter writes are read as they are meant. *)
LEMMA PointersRead ==
  ASSUME NEW n \in Texts
  PROVE  /\ Q!Tokens(OnePointer(Q!Escape(n))) = <<n>>
         /\ \A a \in Texts : Slashless(a) /\ (\A k \in DOMAIN a : a[k] # Tilde) =>
              /\ Q!Tokens(OnePointer(a)) = <<a>>
              /\ Q!Tokens(TwoPointer(a, Q!Escape(n))) = <<a, n>>
<1>1. Q!Escape(n) \in Texts /\ Slashless(Q!Escape(n)) /\ Q!Unescape(Q!Escape(n)) = n
  BY EscapeReversible
<1>2. Q!Tokens(OnePointer(Q!Escape(n))) = <<n>>
  BY <1>1, OneToken
<1>3. ASSUME NEW a \in Texts, Slashless(a), \A k \in DOMAIN a : a[k] # Tilde
      PROVE  /\ Q!Tokens(OnePointer(a)) = <<a>>
             /\ Q!Tokens(TwoPointer(a, Q!Escape(n))) = <<a, n>>
  <2>1. Q!Unescape(a) = a
    BY <1>3, TildelessIsDecoded
  <2>2. Q!Tokens(OnePointer(a)) = <<Q!Unescape(a)>>
    BY <1>3, OneToken
  <2>3. Q!Tokens(TwoPointer(a, Q!Escape(n))) = <<Q!Unescape(a), Q!Unescape(Q!Escape(n))>>
    BY <1>1, <1>3, TwoTokens
  <2>. QED  BY <1>1, <2>1, <2>2, <2>3
<1>. QED  BY <1>2, <1>3

(* ------------------------------- Faults -------------------------------- *)

(* A check that fails names a kind of failure. *)
Kinds(checks) == \A i \in DOMAIN checks : checks[i][1] => checks[i][2] \notin {"none", "tool"}

(* Without a fault no check fails, and no fault is taken for a tool.       *)
LEMMA NoFault ==
  ASSUME NEW checks, DOMAIN checks \in SUBSET Nat, Kinds(checks)
  PROVE  /\ Q!FirstFault(checks) # "tool"
         /\ Q!FirstFault(checks) = "none" => \A i \in DOMAIN checks : ~checks[i][1]
<1> DEFINE failing == {i \in DOMAIN checks : checks[i][1]}
           first == CHOOSE i \in failing : \A j \in failing : i <= j
<1>1. CASE failing = {}
  <2>1. Q!FirstFault(checks) = "none"
    BY <1>1, Zenon DEF Q!FirstFault
  <2>2. \A i \in DOMAIN checks : ~checks[i][1]
    BY <1>1
  <2>. QED  BY <2>1, <2>2
<1>2. CASE failing # {}
  <2>1. failing \in SUBSET Nat
    OBVIOUS
  <2>2. Q!FirstFault(checks) = checks[first][2]
    BY <1>2, Zenon DEF Q!FirstFault
  <2>3. \E i \in failing : \A j \in failing : i <= j
    <3> HIDE DEF failing
    <3>. QED  BY <1>2, <2>1, LeastExists
  <2>4. first \in failing
    <3> HIDE DEF failing
    <3>. QED  BY <2>3
  <2>5. first \in DOMAIN checks /\ checks[first][1]
    BY <2>4
  <2>. QED  BY <2>2, <2>5 DEF Kinds
<1>. QED  BY <1>1, <1>2

(* The same for faults of parts. *)
LEMMA NoFaulty ==
  ASSUME NEW faults, DOMAIN faults \in SUBSET Nat, \A i \in DOMAIN faults : faults[i] # "tool"
  PROVE  /\ Q!FirstFaulty(faults) # "tool"
         /\ Q!FirstFaulty(faults) = "none" => \A i \in DOMAIN faults : faults[i] = "none"
<1> DEFINE checks == [i \in DOMAIN faults |-> <<faults[i] # "none", faults[i]>>]
<1>1. DOMAIN checks = DOMAIN faults
  OBVIOUS
<1>2. \A i \in DOMAIN checks : (checks[i][1] <=> faults[i] # "none") /\ checks[i][2] = faults[i]
  OBVIOUS
<1>3. Q!FirstFaulty(faults) = Q!FirstFault(checks)
  BY Zenon DEF Q!FirstFaulty
<1> HIDE DEF checks
<1>4. Kinds(checks)
  BY <1>1, <1>2 DEF Kinds
<1>5. /\ Q!FirstFault(checks) # "tool"
      /\ Q!FirstFault(checks) = "none" => \A i \in DOMAIN checks : ~checks[i][1]
  BY <1>1, <1>4, NoFault
<1>. QED  BY <1>1, <1>2, <1>3, <1>5

(* _reject_unsupported_serialization, and _parse_parameter: a parameter is *)
(* in the path or the query, and required in the path.                     *)
LEMMA SerializationSound == ASSUME NEW entry PROVE Q!SerializationFault(entry) # "tool"
<1> DEFINE style == IF entry.in = "path" THEN "simple" ELSE "form"
           explode == IF entry.in = "query" THEN "yes" ELSE "no"
           checks == <<<<entry.style \notin {"absent", style}, "unsupported">>,
                       <<entry.explode = "malformed", "invalid">>,
                       <<entry.explode \notin {"absent", explode}, "unsupported">>,
                       <<entry.reserved = "malformed", "invalid">>,
                       <<entry.reserved = "yes", "unsupported">>>>
<1>1. DOMAIN checks = 1 .. 5
  OBVIOUS
<1>2. \A i \in 1 .. 5 : checks[i][2] \in {"unsupported", "invalid"}
  OBVIOUS
<1>3. Q!SerializationFault(entry) = Q!FirstFault(checks)
  BY Zenon DEF Q!SerializationFault
<1> HIDE DEF checks
<1>4. Kinds(checks) /\ DOMAIN checks \in SUBSET Nat
  BY <1>1, <1>2 DEF Kinds
<1>. QED  BY <1>3, <1>4, NoFault

(* A parameter without a fault is in the path or the query. *)
LEMMA ParameterSound ==
  ASSUME NEW entry
  PROVE  /\ Q!ParameterFault(entry) # "tool"
         /\ Q!ParameterFault(entry) = "none" =>
              /\ entry.in \in {"path", "query"}
              /\ entry.in = "path" => entry.required = "yes"
<1> DEFINE serialization == Q!SerializationFault(entry)
           checks == <<<<entry.shape = "malformed", "invalid">>,
                       <<entry.name = <<>>, "invalid">>,
                       <<entry.in = "absent", "invalid">>,
                       <<entry.in \in {"header", "cookie"}, "unsupported">>,
                       <<entry.in \notin {"path", "query"}, "invalid">>,
                       <<entry.required = "malformed", "invalid">>,
                       <<entry.in = "path" /\ entry.required # "yes", "invalid">>,
                       <<serialization # "none", serialization>>,
                       <<entry.content, "unsupported">>,
                       <<entry.schema.kind = "absent", "invalid">>,
                       <<entry.description = "malformed", "invalid">>>>
<1>0. serialization # "tool"
  BY SerializationSound
<1>1. Q!ParameterFault(entry) = Q!FirstFault(checks)
  BY Zenon DEF Q!ParameterFault
<1> HIDE DEF serialization
<1>2. DOMAIN checks = 1 .. 11
  OBVIOUS
<1>3. \A i \in 1 .. 11 : i # 8 => checks[i][2] \in {"unsupported", "invalid"}
  <2>1. /\ checks[1][2] = "invalid" /\ checks[2][2] = "invalid" /\ checks[3][2] = "invalid"
        /\ checks[4][2] = "unsupported" /\ checks[5][2] = "invalid" /\ checks[6][2] = "invalid"
        /\ checks[7][2] = "invalid" /\ checks[9][2] = "unsupported"
        /\ checks[10][2] = "invalid" /\ checks[11][2] = "invalid"
    OBVIOUS
  <2> HIDE DEF checks
  <2>. QED  BY <2>1
<1>8. checks[8][1] <=> serialization # "none"
  OBVIOUS
<1>9. checks[8][2] = serialization
  OBVIOUS
<1>4. /\ checks[5][1] <=> entry.in \notin {"path", "query"}
      /\ checks[7][1] <=> entry.in = "path" /\ entry.required # "yes"
  OBVIOUS
<1> HIDE DEF checks
<1>5. Kinds(checks) /\ DOMAIN checks \in SUBSET Nat
  BY <1>0, <1>2, <1>3, <1>8, <1>9 DEF Kinds
<1>6. /\ Q!FirstFault(checks) # "tool"
      /\ Q!FirstFault(checks) = "none" => \A i \in 1 .. 11 : ~checks[i][1]
  BY <1>2, <1>5, NoFault
<1>7. 5 \in 1 .. 11 /\ 7 \in 1 .. 11
  OBVIOUS
<1>. QED  BY <1>1, <1>4, <1>6, <1>7

(* Two checks: a fault of its own, and one more. *)
LEMMA NoFaultOfTwo ==
  ASSUME NEW fault, fault # "tool", NEW other, other \in BOOLEAN, NEW checks,
         checks = <<<<fault # "none", fault>>, <<other, "invalid">>>>
  PROVE  /\ Q!FirstFault(checks) # "tool"
         /\ Q!FirstFault(checks) = "none" => fault = "none" /\ ~other
<1>1. DOMAIN checks = 1 .. 2
  OBVIOUS
<1>2. (checks[1][1] <=> fault # "none") /\ checks[1][2] = fault
  OBVIOUS
<1>3. (checks[2][1] <=> other) /\ checks[2][2] = "invalid"
  OBVIOUS
<1>4. Kinds(checks) /\ DOMAIN checks \in SUBSET Nat
  BY <1>1, <1>2, <1>3 DEF Kinds
<1>5. /\ Q!FirstFault(checks) # "tool"
      /\ Q!FirstFault(checks) = "none" => \A i \in 1 .. 2 : ~checks[i][1]
  BY <1>1, <1>4, NoFault
<1>6. 1 \in 1 .. 2 /\ 2 \in 1 .. 2
  OBVIOUS
<1>. QED  BY <1>2, <1>3, <1>5, <1>6

(* What the checks of a list of parameters let through. *)
Distinct(list) ==
  \A i, j \in DOMAIN list : Q!Key(list[i]) = Q!Key(list[j]) => i = j
Parsed(list) ==
  /\ Distinct(list)
  /\ \A i \in DOMAIN list :
       /\ list[i].in \in {"path", "query"}
       /\ list[i].in = "path" => list[i].required = "yes"

(* The faults of one list of parameters. *)
ListFaults(list) ==
  [i \in DOMAIN list |->
     Q!FirstFault(<<<<Q!ParameterFault(list[i]) # "none", Q!ParameterFault(list[i])>>,
                    <<\E j \in 1 .. i - 1 : Q!Key(list[j]) = Q!Key(list[i]), "invalid">>>>)]

(* A list without a fault is one of such parameters, each key once. *)
LEMMA ListSound ==
  ASSUME NEW Es, NEW list \in Seq(Es)
  PROVE  /\ Q!FirstFaulty(ListFaults(list)) # "tool"
         /\ Q!FirstFaulty(ListFaults(list)) = "none" => Parsed(list)
<1> DEFINE faults == ListFaults(list)
           Again(i) == \E j \in 1 .. i - 1 : Q!Key(list[j]) = Q!Key(list[i])
<1>1. DOMAIN list = 1 .. Len(list) /\ Len(list) \in Nat /\ DOMAIN faults = DOMAIN list
  BY LenProperties DEF ListFaults
<1>2. ASSUME NEW i \in DOMAIN list
      PROVE  /\ faults[i] # "tool"
             /\ faults[i] = "none" => Q!ParameterFault(list[i]) = "none" /\ ~Again(i)
  <2> DEFINE fault == Q!ParameterFault(list[i])
             again == Again(i)
             checks == <<<<fault # "none", fault>>, <<again, "invalid">>>>
  <2>1. faults[i] = Q!FirstFault(checks)
    BY Zenon DEF ListFaults
  <2>2. fault # "tool"
    BY ParameterSound
  <2>3. again \in BOOLEAN
    OBVIOUS
  <2> HIDE DEF fault, again
  <2>4. /\ Q!FirstFault(checks) # "tool"
        /\ Q!FirstFault(checks) = "none" => fault = "none" /\ ~again
    BY <2>2, <2>3, NoFaultOfTwo, Zenon
  <2>. QED  BY <2>1, <2>4 DEF fault, again
<1> HIDE DEF faults
<1>3. /\ Q!FirstFaulty(faults) # "tool"
      /\ Q!FirstFaulty(faults) = "none" => \A i \in DOMAIN list : faults[i] = "none"
  BY <1>1, <1>2, NoFaulty
<1>4. ASSUME Q!FirstFaulty(faults) = "none" PROVE Parsed(list)
  <2>1. \A i \in DOMAIN list : Q!ParameterFault(list[i]) = "none" /\ ~Again(i)
    BY <1>2, <1>3, <1>4
  <2>2. \A i, j \in DOMAIN list : j < i => Q!Key(list[j]) # Q!Key(list[i])
    <3>1. \A i, j \in DOMAIN list : j < i => j \in 1 .. i - 1
      BY <1>1
    <3>. QED  BY <2>1, <3>1
  <2>3. \A i, j \in DOMAIN list : i = j \/ i < j \/ j < i
    BY <1>1
  <2>4. Distinct(list)
    BY <2>2, <2>3 DEF Distinct
  <2>. QED  BY <2>1, <2>4, ParameterSound DEF Parsed
<1>. QED  BY <1>3, <1>4 DEF faults

(* _collect_parameters *)
LEMMA CollectSound ==
  ASSUME NEW op, NEW Es, op.itemParameters \in Seq(Es), NEW U, op.parameters \in Seq(U)
  PROVE  /\ Q!CollectFault(op) # "tool"
         /\ Q!CollectFault(op) = "none" => Parsed(op.itemParameters) /\ Parsed(op.parameters)
<1> DEFINE a == Q!FirstFaulty(ListFaults(op.itemParameters))
           b == Q!FirstFaulty(ListFaults(op.parameters))
           faults == <<a, b>>
<1>1. Q!CollectFault(op) = Q!FirstFaulty(faults)
  BY Zenon DEF Q!CollectFault, ListFaults
<1>2. a # "tool" /\ b # "tool"
  BY ListSound
<1>3. (a = "none" => Parsed(op.itemParameters)) /\ (b = "none" => Parsed(op.parameters))
  BY ListSound
<1> HIDE DEF a, b
<1>4. DOMAIN faults = 1 .. 2 /\ faults[1] = a /\ faults[2] = b
  OBVIOUS
<1> HIDE DEF faults
<1>5. DOMAIN faults \in SUBSET Nat /\ \A i \in DOMAIN faults : faults[i] # "tool"
  BY <1>2, <1>4
<1>6. /\ Q!FirstFaulty(faults) # "tool"
      /\ Q!FirstFaulty(faults) = "none" => \A i \in DOMAIN faults : faults[i] = "none"
  BY <1>5, NoFaulty
<1>7. 1 \in 1 .. 2 /\ 2 \in 1 .. 2
  OBVIOUS
<1>. QED  BY <1>1, <1>3, <1>4, <1>6, <1>7

(* The loop of convert_operation over the parameters: no name is in two    *)
(* places.                                                                 *)
Named(list) == \A i, j \in DOMAIN list : list[i].name = list[j].name => i = j

(* The schemas of the parameters have no fault if no name is used twice. *)
LEMMA SchemaSound ==
  ASSUME NEW Es, NEW list \in Seq(Es),
         \A i \in DOMAIN list : list[i].schema.kind \notin {"none", "tool"}
  PROVE  /\ Q!SchemaFault(list) # "tool"
         /\ Q!SchemaFault(list) = "none" => Named(list)
<1> DEFINE Again(i) == \E j \in 1 .. i - 1 : list[j].name = list[i].name
           Checks(i) == <<<<Again(i), "unsupported">>,
                          <<list[i].schema.kind # "ok", list[i].schema.kind>>,
                          <<~Q!NameAdmitted(list[i].name), "crash">>>>
           faults == [i \in DOMAIN list |-> Q!FirstFault(Checks(i))]
<1>1. DOMAIN list = 1 .. Len(list) /\ Len(list) \in Nat /\ DOMAIN faults = DOMAIN list
  BY LenProperties
<1>2. ASSUME NEW i \in DOMAIN list
      PROVE  faults[i] # "tool" /\ (faults[i] = "none" => ~Again(i))
  <2> DEFINE kind == list[i].schema.kind
             again == Again(i)
             admitted == Q!NameAdmitted(list[i].name)
             checks == <<<<again, "unsupported">>, <<kind # "ok", kind>>, <<~admitted, "crash">>>>
  <2>1. faults[i] = Q!FirstFault(checks)
    BY Zenon
  <2>2. kind \notin {"none", "tool"} /\ again \in BOOLEAN
    OBVIOUS
  <2> HIDE DEF kind, again, admitted
  <2>3. DOMAIN checks = 1 .. 3
    OBVIOUS
  <2>4. checks[1][1] <=> again
    BY <2>2
  <2>5. checks[1][2] = "unsupported" /\ checks[2][2] = kind /\ checks[3][2] = "crash"
    OBVIOUS
  <2> HIDE DEF checks
  <2>6. \A j \in 1 .. 3 : checks[j][2] \notin {"none", "tool"}
    BY <2>2, <2>5
  <2>7. Kinds(checks) /\ DOMAIN checks \in SUBSET Nat
    BY <2>3, <2>6 DEF Kinds
  <2>8. /\ Q!FirstFault(checks) # "tool"
        /\ Q!FirstFault(checks) = "none" => \A j \in 1 .. 3 : ~checks[j][1]
    BY <2>3, <2>7, NoFault
  <2>9. 1 \in 1 .. 3
    OBVIOUS
  <2>. QED  BY <2>1, <2>4, <2>8, <2>9 DEF again
<1>3. Q!SchemaFault(list) = Q!FirstFaulty(faults)
  BY Zenon DEF Q!SchemaFault
<1> HIDE DEF faults
<1>4. /\ Q!FirstFaulty(faults) # "tool"
      /\ Q!FirstFaulty(faults) = "none" => \A i \in DOMAIN list : faults[i] = "none"
  BY <1>1, <1>2, NoFaulty
<1>5. ASSUME \A i \in DOMAIN list : faults[i] = "none" PROVE Named(list)
  <2>1. \A i, j \in DOMAIN list : j < i => list[j].name # list[i].name
    <3>1. \A i, j \in DOMAIN list : j < i => j \in 1 .. i - 1
      BY <1>1
    <3>. QED  BY <1>2, <1>5, <3>1
  <2>2. \A i, j \in DOMAIN list : i = j \/ i < j \/ j < i
    BY <1>1
  <2>. QED  BY <2>1, <2>2 DEF Named
<1>. QED  BY <1>3, <1>4, <1>5

(* -------------------------- The parameters ----------------------------- *)

(* One entry more is in the place of the one with its key, or the last.    *)
Added(Es, m, c, r) ==
  /\ r \in Seq(Es) /\ Distinct(r) /\ In(c, r)
  /\ \A e : In(e, m) /\ Q!Key(e) # Q!Key(c) => In(e, r)

(* Adding a parameter overrides the one with its key, or is the last. *)
LEMMA AddSound ==
  ASSUME NEW Es, NEW m \in Seq(Es), Distinct(m), NEW c \in Es
  PROVE  Added(Es, m, c, Q!AddParameter(m, c))
<1> DEFINE r == Q!AddParameter(m, c)
           earlier == {i \in DOMAIN m : Q!Key(m[i]) = Q!Key(c)}
<1>1. DOMAIN m = 1 .. Len(m) /\ Len(m) \in Nat /\ \A i \in 1 .. Len(m) : m[i] \in Es
  BY LenProperties, ElementOfSeq
<1>2. CASE earlier = {}
  <2>1. r = Append(m, c)
    BY <1>2, Zenon DEF Q!AddParameter
  <2> HIDE DEF r
  <2>2. r \in Seq(Es) /\ Len(r) = Len(m) + 1 /\ DOMAIN r = 1 .. Len(m) + 1
    BY <1>1, <2>1, AppendProperties, LenProperties
  <2>3. r[Len(m) + 1] = c /\ \A i \in 1 .. Len(m) : r[i] = m[i]
    BY <2>1, AppendProperties
  <2>4. /\ 1 .. Len(m) \subseteq 1 .. Len(m) + 1 /\ Len(m) + 1 \in 1 .. Len(m) + 1
        /\ \A i \in 1 .. Len(m) + 1 : i \in 1 .. Len(m) \/ i = Len(m) + 1
    BY <1>1
  <2>5. \A i \in 1 .. Len(m) : Q!Key(r[i]) # Q!Key(c)
    BY <1>1, <1>2, <2>3
  <2>6. Distinct(r)
    BY <1>1, <2>2, <2>3, <2>4, <2>5, Zenon DEF Distinct
  <2>7. In(c, r) /\ \A e : In(e, m) => In(e, r)
    BY <1>1, <2>2, <2>3, <2>4, Zenon DEF In
  <2>. QED  BY <2>2, <2>6, <2>7 DEF Added, r
<1>3. CASE earlier # {}
  <2>1. r = [i \in DOMAIN m |-> IF i \in earlier THEN c ELSE m[i]]
    BY <1>3, Zenon DEF Q!AddParameter
  <2> HIDE DEF r
  <2>2. DOMAIN r = 1 .. Len(m) /\ \A i \in 1 .. Len(m) : r[i] \in Es
    BY <1>1, <2>1
  <2>3. r \in Seq(Es)
    BY <1>1, <2>1
  <2>4. \A i \in 1 .. Len(m) : Q!Key(r[i]) = Q!Key(m[i])
    BY <1>1, <2>1
  <2>5. Distinct(r)
    BY <1>1, <2>2, <2>4 DEF Distinct
  <2>6. In(c, r)
    BY <1>1, <1>3, <2>1 DEF In
  <2>7. ASSUME NEW e, In(e, m), Q!Key(e) # Q!Key(c) PROVE In(e, r)
    BY <1>1, <2>1, <2>7 DEF In
  <2>. QED  BY <2>3, <2>5, <2>6, <2>7 DEF Added, r
<1>. QED  BY <1>2, <1>3

(* What is collected is declared, each key once. *)
LEMMA MergedSound ==
  ASSUME NEW Es
  PROVE  \A s \in Seq(Es) : Q!Merged(s) \in Seq(Es) /\ Distinct(Q!Merged(s))
<1> DEFINE S == {s \in Seq(Es) : Q!Merged(s) \in Seq(Es) /\ Distinct(Q!Merged(s))}
<1>1. <<>> \in S
  <2>1. Distinct(<<>>)
    BY DEF Distinct
  <2>2. Q!Merged(<<>>) = <<>> /\ <<>> \in Seq(Es)
    BY MergedEmpty, EmptySeq
  <2>. QED  BY <2>1, <2>2
<1>2. ASSUME NEW s \in Seq(Es), NEW c \in Es, s \in S PROVE Append(s, c) \in S
  <2>1. Append(s, c) \in Seq(Es)
    BY AppendProperties
  <2>2. Q!Merged(Append(s, c)) = Q!AddParameter(Q!Merged(s), c)
    BY MergedAppend
  <2>3. Added(Es, Q!Merged(s), c, Q!AddParameter(Q!Merged(s), c))
    BY <1>2, AddSound
  <2>. QED  BY <2>1, <2>2, <2>3 DEF Added
<1> HIDE DEF S
<1>3. Seq(Es) \subseteq S
  BY <1>1, <1>2, Growing
<1>. QED  BY <1>3 DEF S

(* All but the last of a list without a key twice, and the last. *)
LEMMA DistinctBefore ==
  ASSUME NEW Es, NEW w \in Seq(Es), NEW c \in Es, Distinct(Append(w, c))
  PROVE  Distinct(w) /\ \A e : In(e, w) => Q!Key(e) # Q!Key(c)
<1> DEFINE t == Append(w, c)
<1>1. /\ DOMAIN w = 1 .. Len(w) /\ DOMAIN t = 1 .. Len(w) + 1 /\ Len(w) \in Nat
      /\ \A i \in 1 .. Len(w) : t[i] = w[i]
      /\ t[Len(w) + 1] = c
  BY AppendProperties, LenProperties
<1>2. Distinct(t)
  OBVIOUS
<1> HIDE DEF t
<1>3. /\ 1 .. Len(w) \subseteq 1 .. Len(w) + 1 /\ Len(w) + 1 \in 1 .. Len(w) + 1
      /\ \A i \in 1 .. Len(w) : i # Len(w) + 1
  BY <1>1
<1>4. Distinct(w)
  BY <1>1, <1>2, <1>3, Zenon DEF Distinct
<1>5. \A e : In(e, w) => Q!Key(e) # Q!Key(c)
  BY <1>1, <1>2, <1>3, Zenon DEF Distinct, In
<1>. QED  BY <1>4, <1>5

(* The entries that come last, without a key twice, are all collected. *)
LEMMA MergedLast ==
  ASSUME NEW Es, NEW a \in Seq(Es)
  PROVE  \A w \in Seq(Es) : Distinct(w) => \A e : In(e, w) => In(e, Q!Merged(a \o w))
<1> DEFINE Goes(w) == Distinct(w) => \A e : In(e, w) => In(e, Q!Merged(a \o w))
           S == {w \in Seq(Es) : Goes(w)}
<1>1. <<>> \in S
  <2>1. \A e : ~In(e, <<>>)
    BY DEF In
  <2>. QED  BY <2>1, EmptySeq
<1>2. ASSUME NEW w \in Seq(Es), NEW c \in Es, w \in S PROVE Append(w, c) \in S
  <2>1. Append(w, c) \in Seq(Es)
    BY AppendProperties
  <2>2. ASSUME Distinct(Append(w, c)), NEW e, In(e, Append(w, c))
        PROVE  In(e, Q!Merged(a \o Append(w, c)))
    <3> DEFINE aw == a \o w
               m == Q!Merged(aw)
               r == Q!AddParameter(m, c)
    <3>1. Distinct(w) /\ \A d : In(d, w) => Q!Key(d) # Q!Key(c)
      BY <2>2, DistinctBefore
    <3>2. a \o Append(w, c) = Append(aw, c) /\ aw \in Seq(Es)
      BY JoinAppend
    <3>3. \A d : In(d, w) => In(d, m)
      BY <1>2, <3>1
    <3> HIDE DEF aw
    <3>4. m \in Seq(Es) /\ Distinct(m)
      BY <3>2, MergedSound
    <3>5. Q!Merged(Append(aw, c)) = r
      BY <3>2, MergedAppend
    <3> HIDE DEF m
    <3>6. Added(Es, m, c, r)
      BY <3>4, AddSound
    <3> HIDE DEF r
    <3>7. In(e, w) \/ e = c
      BY <2>2, InAppend
    <3>8. In(e, r)
      BY <3>1, <3>3, <3>6, <3>7 DEF Added
    <3>. QED  BY <3>2, <3>5, <3>8
  <2>. QED  BY <2>1, <2>2
<1> HIDE DEF S
<1>3. Seq(Es) \subseteq S
  BY <1>1, <1>2, Growing
<1>. QED  BY <1>3 DEF S

(* ----------------------------- Conversion ------------------------------ *)

(* _convert_request_body: its argument is no parameter's, and an object.   *)
LEMMA BodySound ==
  ASSUME NEW content, NEW names, content.schema.kind \notin {"none", "tool"}
  PROVE  /\ Q!BodyFault(content, names) # "tool"
         /\ Q!BodyFault(content, names) = "none" /\ content.shape # "absent" =>
              BodyArgument \notin names /\ content.schema.type = "object"
<1> DEFINE kind == content.schema.kind
           other == content.schema.type # "object" \/ content.schema.nullable
           checks == <<<<content.shape = "malformed", "invalid">>,
                       <<content.media = "malformed", "invalid">>,
                       <<content.media = "other", "unsupported">>,
                       <<kind = "absent", "invalid">>,
                       <<BodyArgument \in names, "unsupported">>,
                       <<kind # "ok", kind>>,
                       <<other, "unsupported">>,
                       <<content.required = "malformed", "invalid">>>>
<1>1. CASE content.shape = "absent"
  <2>1. Q!BodyFault(content, names) = "none"
    BY <1>1, Zenon DEF Q!BodyFault
  <2>. QED  BY <1>1, <2>1
<1>2. CASE content.shape # "absent"
  <2>1. Q!BodyFault(content, names) = Q!FirstFault(checks)
    BY <1>2, Zenon DEF Q!BodyFault
  <2>2. kind \notin {"none", "tool"}
    OBVIOUS
  <2>3. content.schema.type # "object" => other
    OBVIOUS
  <2> HIDE DEF kind, other
  <2>4. DOMAIN checks = 1 .. 8
    OBVIOUS
  <2>5. /\ checks[1][2] = "invalid" /\ checks[2][2] = "invalid" /\ checks[3][2] = "unsupported"
        /\ checks[4][2] = "invalid" /\ checks[5][2] = "unsupported" /\ checks[6][2] = kind
        /\ checks[7][2] = "unsupported" /\ checks[8][2] = "invalid"
    OBVIOUS
  <2>6. checks[5][1] <=> BodyArgument \in names
    OBVIOUS
  <2>7. checks[7][1] <=> other
    OBVIOUS
  <2> HIDE DEF checks
  <2>8. \A i \in 1 .. 8 : checks[i][2] \notin {"none", "tool"}
    BY <2>2, <2>5
  <2>9. Kinds(checks) /\ DOMAIN checks \in SUBSET Nat
    BY <2>4, <2>8 DEF Kinds
  <2>10. /\ Q!FirstFault(checks) # "tool"
         /\ Q!FirstFault(checks) = "none" => \A i \in 1 .. 8 : ~checks[i][1]
    BY <2>4, <2>9, NoFault
  <2>11. 5 \in 1 .. 8 /\ 7 \in 1 .. 8
    OBVIOUS
  <2>. QED  BY <2>1, <2>3, <2>6, <2>7, <2>10, <2>11
<1>. QED  BY <1>1, <1>2

(* ToolOperation._bindings_are_consistent *)
LEMMA ConstructionSound ==
  ASSUME NEW op, NEW bindings, NEW names
  PROVE  /\ Q!ConstructionFault(op, bindings, names) # "tool"
         /\ Q!ConstructionFault(op, bindings, names) = "none" =>
              \A i, j \in DOMAIN bindings :
                bindings[i].target = bindings[j].target /\ bindings[i].name = bindings[j].name =>
                  i = j
<1> DEFINE template == ~Q!TemplateAdmitted(op.path)
           consistent == Q!BindingsConsistent(bindings, op.body.shape # "absent")
           wanted == ~Q!BindingsDeclared(bindings, names)
           checks == <<<<op.operationId = "malformed", "invalid">>,
                       <<op.operationId = "nameless", "crash">>,
                       <<template, "crash">>,
                       <<~consistent, "crash">>,
                       <<op.tags = "malformed", "invalid">>,
                       <<op.deprecated = "malformed", "invalid">>,
                       <<wanted, "crash">>>>
<1>1. Q!ConstructionFault(op, bindings, names) = Q!FirstFault(checks)
  BY Zenon DEF Q!ConstructionFault
<1>2. consistent => \A i, j \in DOMAIN bindings :
                      bindings[i].target = bindings[j].target
                        /\ bindings[i].name = bindings[j].name => i = j
  BY Zenon DEF Q!BindingsConsistent
<1> HIDE DEF template, consistent, wanted
<1>3. DOMAIN checks = 1 .. 7
  OBVIOUS
<1>4. /\ checks[1][2] = "invalid" /\ checks[2][2] = "crash" /\ checks[3][2] = "crash"
      /\ checks[4][2] = "crash" /\ checks[5][2] = "invalid" /\ checks[6][2] = "invalid"
      /\ checks[7][2] = "crash"
  OBVIOUS
<1>5. ~checks[4][1] => consistent
  OBVIOUS
<1> HIDE DEF checks
<1>6. \A i \in 1 .. 7 : checks[i][2] \notin {"none", "tool"}
  BY <1>4
<1>7. Kinds(checks) /\ DOMAIN checks \in SUBSET Nat
  BY <1>3, <1>6 DEF Kinds
<1>8. /\ Q!FirstFault(checks) # "tool"
      /\ Q!FirstFault(checks) = "none" => \A i \in 1 .. 7 : ~checks[i][1]
  BY <1>3, <1>7, NoFault
<1>9. 4 \in 1 .. 7
  OBVIOUS
<1>. QED  BY <1>1, <1>2, <1>5, <1>8, <1>9

(* _reject_unsupported_operation_features *)
LEMMA FeaturesSound == ASSUME NEW op PROVE Q!OperationFault(op) # "tool"
<1> DEFINE checks == <<<<op.servers, "unsupported">>, <<op.callbacks, "unsupported">>,
                       <<op.security, "unsupported">>>>
<1>1. DOMAIN checks = 1 .. 3
  OBVIOUS
<1>2. \A i \in 1 .. 3 : checks[i][2] = "unsupported"
  OBVIOUS
<1>3. Q!OperationFault(op) = Q!FirstFault(checks)
  BY Zenon DEF Q!OperationFault
<1> HIDE DEF checks
<1>4. Kinds(checks) /\ DOMAIN checks \in SUBSET Nat
  BY <1>1, <1>2 DEF Kinds
<1>. QED  BY <1>3, <1>4, NoFault

(* _check_path_placeholders: the placeholders are the path's parameters.   *)
PathNames(list) == {list[i].name : i \in {j \in DOMAIN list : list[j].in = "path"}}
Placed(path, list) ==
  /\ Sound(path) /\ Depth(path) # 1
  /\ \A m : In(m, Found(path)) <=> m \in PathNames(list)

(* Without a fault, every placeholder has its parameter. *)
LEMMA PlaceholdersSound ==
  ASSUME NEW path, NEW list
  PROVE  /\ Q!PlaceholderFault(path, list) # "tool"
         /\ Q!PlaceholderFault(path, list) = "none" => Placed(path, list)
<1> DEFINE scan == Q!ScanPath(path)
           wanted == {p.name : p \in {q \in Q!ToSet(list) : q.in = "path"}}
           bad == \/ scan.fault
                  \/ scan.depth = 1
                  \/ \E i, j \in DOMAIN scan.found : i # j /\ scan.found[i] = scan.found[j]
                  \/ Q!ToSet(scan.found) # wanted
<1>1. Q!PlaceholderFault(path, list) = IF bad THEN "invalid" ELSE "none"
  BY Zenon DEF Q!PlaceholderFault
<1>2. wanted = PathNames(list)
  BY DEF Q!ToSet, PathNames
<1>3. \A m : In(m, Found(path)) <=> m \in Q!ToSet(scan.found)
  BY DEF In, Found, Q!ToSet
<1>4. ASSUME ~bad PROVE Placed(path, list)
  <2>1. ~scan.fault /\ scan.depth # 1 /\ Q!ToSet(scan.found) = wanted
    BY <1>4
  <2>2. Sound(path) /\ Depth(path) # 1
    BY <2>1 DEF Sound, Depth
  <2> HIDE DEF scan, wanted
  <2>. QED  BY <1>2, <1>3, <2>1, <2>2 DEF Placed
<1> HIDE DEF bad
<1>. QED  BY <1>1, <1>4

(* What convert_operation collects and binds. *)
Params(op) == Q!CollectParameters(op)
Argument(op) == {Params(op)[i].name : i \in DOMAIN Params(op)}
ParamBindings(op) == [i \in DOMAIN Params(op) |-> Q!ParameterBinding(Params(op)[i])]
Bindings(op) == ParamBindings(op) \o Q!BodyBindings(op.body)

(* Every entry is what a document holds. *)
Entry(e) == e.name \in Texts /\ e.schema.kind \notin {"none", "tool"}
Declared(op) ==
  /\ op.path \in Texts
  /\ op.itemParameters \in Seq(Q!ToSet(op.itemParameters))
  /\ op.parameters \in Seq(Q!ToSet(op.parameters))
  /\ \A e \in Q!ToSet(op.itemParameters) \cup Q!ToSet(op.parameters) : Entry(e)
  /\ op.body.schema.kind \notin {"none", "tool"}
  /\ op.body.schema.fields \in Seq(Q!ToSet(op.body.schema.fields))
  /\ \A i \in DOMAIN op.body.schema.fields : op.body.schema.fields[i].name \in Texts

(* An operation of a parsed document is declared. *)
LEMMA OperationDeclared == ASSUME NEW op, Q!IsOperation(op) PROVE Declared(op)
<1>1. \A s \in Seq(STRING) : s \in Texts
  <2>1. STRING \subseteq Characters
    BY DEF Characters
  <2>2. \A S, Es : S \subseteq Es => Seq(S) \subseteq Seq(Es)
    OBVIOUS
  <2>. QED  BY <2>1, <2>2, Zenon DEF Texts
<1>2. ASSUME NEW schema, Q!IsSchema(schema)
      PROVE  /\ schema.kind \notin {"none", "tool"}
             /\ schema.fields \in Seq(Q!ToSet(schema.fields))
             /\ \A i \in DOMAIN schema.fields : schema.fields[i].name \in Texts
  <2>1. schema.kind \in {"ok", "absent", "unsupported", "invalid"}
    BY <1>2 DEF Q!IsSchema
  <2>2. /\ schema.fields \in Seq(Q!ToSet(schema.fields))
        /\ \A i \in DOMAIN schema.fields : schema.fields[i].name \in Seq(STRING)
    BY <1>2 DEF Q!IsSchema
  <2>. QED  BY <1>1, <2>1, <2>2
<1>3. ASSUME NEW list \in {op.itemParameters, op.parameters}
      PROVE  list \in Seq(Q!ToSet(list)) /\ \A e \in Q!ToSet(list) : Entry(e)
  <2>1. list \in Seq(Q!ToSet(list))
    BY <1>3, Zenon DEF Q!IsOperation
  <2>2. \A i \in DOMAIN list : list[i].name \in Seq(STRING) /\ Q!IsSchema(list[i].schema)
    BY <1>3, Zenon DEF Q!IsOperation
  <2>3. \A i \in DOMAIN list : Entry(list[i])
    BY <1>1, <1>2, <2>2 DEF Entry
  <2>. QED  BY <2>1, <2>3 DEF Q!ToSet
<1>4. op.path \in Texts /\ Q!IsSchema(op.body.schema)
  BY <1>1 DEF Q!IsOperation
<1>. QED  BY <1>2, <1>3, <1>4 DEF Declared

(* The entries that are collected are declared, each key once. *)
LEMMA ParamsDeclared ==
  ASSUME NEW op, Declared(op)
  PROVE  /\ Params(op) \in Seq(Q!ToSet(op.itemParameters) \cup Q!ToSet(op.parameters))
         /\ DOMAIN Params(op) = 1 .. Len(Params(op)) /\ Len(Params(op)) \in Nat
         /\ Distinct(Params(op))
         /\ \A i \in DOMAIN Params(op) :
              /\ Entry(Params(op)[i])
              /\ In(Params(op)[i], op.itemParameters) \/ In(Params(op)[i], op.parameters)
<1> DEFINE a == op.itemParameters
           b == op.parameters
           Es == Q!ToSet(a) \cup Q!ToSet(b)
           m == Q!Merged(a \o b)
<1>1. a \in Seq(Es) /\ b \in Seq(Es)
  <2>1. a \in Seq(Q!ToSet(a)) /\ b \in Seq(Q!ToSet(b))
    BY DEF Declared
  <2>2. \A S : S \subseteq Es => Seq(S) \subseteq Seq(Es)
    OBVIOUS
  <2>3. Q!ToSet(a) \subseteq Es /\ Q!ToSet(b) \subseteq Es
    OBVIOUS
  <2> HIDE DEF a, b, Es
  <2>. QED  BY <2>1, <2>2, <2>3
<1>2. \A e \in Es : Entry(e) /\ (In(e, a) \/ In(e, b))
  BY DEF Declared, Q!ToSet, In
<1>3. Params(op) = m
  BY Zenon DEF Params, Q!CollectParameters
<1> HIDE DEF a, b, Es
<1>4. a \o b \in Seq(Es)
  BY <1>1, ConcatProperties
<1>5. m \in Seq(Es) /\ Distinct(m)
  BY <1>4, MergedSound
<1> HIDE DEF m
<1>6. DOMAIN m = 1 .. Len(m) /\ Len(m) \in Nat /\ \A i \in 1 .. Len(m) : m[i] \in Es
  BY <1>5, LenProperties, ElementOfSeq
<1>7. \A i \in DOMAIN m : Entry(m[i]) /\ (In(m[i], a) \/ In(m[i], b))
  BY <1>2, <1>6
<1>. QED  BY <1>3, <1>5, <1>6, <1>7 DEF a, b, Es

(* What a tool has that convert_operation returns. *)
Converted(op, t) ==
  /\ t.path = op.path
  /\ t.properties = Q!Properties(Params(op), op.body)
  /\ t.required = Q!Required(Params(op), op.body)
  /\ t.bindings = Bindings(op)
Checked(op) ==
  /\ Parsed(op.itemParameters) /\ Parsed(op.parameters)
  /\ Placed(op.path, Params(op))
  /\ Named(Params(op))
  /\ op.body.shape # "absent" =>
       BodyArgument \notin Argument(op) /\ op.body.schema.type = "object"
  /\ \A i, j \in DOMAIN Bindings(op) :
       Bindings(op)[i].target = Bindings(op)[j].target
         /\ Bindings(op)[i].name = Bindings(op)[j].name => i = j

(* What becomes a tool has passed every check. *)
LEMMA ConvertSound ==
  ASSUME NEW op, Declared(op), Q!ConvertOperation(op).kind = "tool"
  PROVE  Converted(op, Q!ConvertOperation(op)) /\ Checked(op)
<1> DEFINE list == Params(op)
           names == {p.name : p \in Q!ToSet(list)}
           properties == Q!Properties(list, op.body)
           f1 == IF op.method \in Q!SupportedMethods THEN "none" ELSE "unsupported"
           f2 == Q!OperationFault(op)
           f3 == Q!CollectFault(op)
           f4 == Q!PlaceholderFault(op.path, list)
           f5 == Q!SchemaFault(list)
           f6 == Q!BodyFault(op.body, names)
           f7 == Q!ConstructionFault(op, Bindings(op), DOMAIN properties)
           faults == <<f1, f2, f3, f4, f5, f6, f7>>
           fault == Q!FirstFaulty(faults)
           t == [kind |-> "tool", path |-> op.path, properties |-> properties,
                 required |-> Q!Required(list, op.body), bindings |-> Bindings(op),
                 effect |-> Q!EffectClass(op.method),
                 confirm |-> Q!RequiresConfirmation(op.method)]
<1>1. Q!ConvertOperation(op) = IF fault # "none" THEN Q!Failed(fault) ELSE t
  BY Zenon DEF Q!ConvertOperation, Params, Bindings, ParamBindings
<1>2. f1 # "tool" /\ f2 # "tool"
  BY FeaturesSound
<1>3. f3 # "tool" /\ (f3 = "none" => Parsed(op.itemParameters) /\ Parsed(op.parameters))
  BY CollectSound DEF Declared
<1>4. f4 # "tool" /\ (f4 = "none" => Placed(op.path, list))
  BY PlaceholdersSound
<1>5. f5 # "tool" /\ (f5 = "none" => Named(list))
  <2>1. \A i \in DOMAIN list : list[i].schema.kind \notin {"none", "tool"}
    BY ParamsDeclared DEF Entry
  <2>2. list \in Seq(Q!ToSet(op.itemParameters) \cup Q!ToSet(op.parameters))
    BY ParamsDeclared
  <2> HIDE DEF list
  <2>. QED  BY <2>1, <2>2, SchemaSound
<1>6. names = Argument(op)
  BY DEF Argument, Q!ToSet
<1>7. f6 # "tool" /\ (f6 = "none" /\ op.body.shape # "absent" =>
                        BodyArgument \notin names /\ op.body.schema.type = "object")
  <2> HIDE DEF names
  <2>. QED  BY BodySound DEF Declared
<1>8. f7 # "tool" /\ (f7 = "none" => \A i, j \in DOMAIN Bindings(op) :
                        Bindings(op)[i].target = Bindings(op)[j].target
                          /\ Bindings(op)[i].name = Bindings(op)[j].name => i = j)
  <2> HIDE DEF properties
  <2>. QED  BY ConstructionSound
<1>9. Converted(op, t)
  BY DEF Converted
<1> HIDE DEF f1, f2, f3, f4, f5, f6, f7, t
<1>10. DOMAIN faults = 1 .. 7
  OBVIOUS
<1>11. /\ faults[1] = f1 /\ faults[2] = f2 /\ faults[3] = f3 /\ faults[4] = f4
       /\ faults[5] = f5 /\ faults[6] = f6 /\ faults[7] = f7
  OBVIOUS
<1> HIDE DEF faults
<1>12. DOMAIN faults \in SUBSET Nat /\ \A i \in DOMAIN faults : faults[i] # "tool"
  BY <1>2, <1>3, <1>4, <1>5, <1>7, <1>8, <1>10, <1>11
<1>13. fault # "tool" /\ (fault = "none" => \A i \in DOMAIN faults : faults[i] = "none")
  BY <1>12, NoFaulty
<1> HIDE DEF fault
<1>14. fault = "none"
  <2>1. Q!Failed(fault).kind = fault
    BY DEF Q!Failed
  <2>. QED  BY <1>1, <1>13, <2>1
<1>15. f3 = "none" /\ f4 = "none" /\ f5 = "none" /\ f6 = "none" /\ f7 = "none"
  BY <1>10, <1>11, <1>13, <1>14
<1>16. Checked(op)
  BY <1>3, <1>4, <1>5, <1>6, <1>7, <1>8, <1>15 DEF Checked
<1>. QED  BY <1>1, <1>9, <1>14, <1>16

(* ------------------------------ Bindings ------------------------------- *)

(* The body's argument has nothing that a pointer escapes. *)
LEMMA BodyArgumentIs ==
  /\ BodyArgument \in Texts /\ Slashless(BodyArgument)
  /\ \A k \in DOMAIN BodyArgument : BodyArgument[k] # Tilde
<1>1. Q!RequestsAssumption
  BY PerimeterAssumption, Zenon DEF PerimeterAssumption
<1>2. BodyArgument \in Seq(STRING) /\ {Slash, Tilde} \cap Q!ToSet(BodyArgument) = {}
  BY <1>1, Zenon DEF Q!RequestsAssumption, Slash, Tilde
<1>3. STRING \subseteq Characters
  BY DEF Characters
<1>4. \A S, Es : S \subseteq Es => Seq(S) \subseteq Seq(Es)
  OBVIOUS
<1>5. BodyArgument \in Texts
  BY <1>2, <1>3, <1>4, Zenon DEF Texts
<1>6. \A k \in DOMAIN BodyArgument : BodyArgument[k] # Slash /\ BodyArgument[k] # Tilde
  BY <1>2, Zenon DEF Q!ToSet
<1>. QED  BY <1>5, <1>6 DEF Slashless

(* The fields of the body; the binding of a parameter, and of a field.     *)
Fields(op) == IF op.body.shape = "absent" THEN <<>> ELSE op.body.schema.fields
BindsParameter(b, p) == b.target = p.in /\ b.name = p.name /\ Q!Tokens(b.pointer) = <<p.name>>
BindsField(b, f) ==
  /\ b.target = "body" /\ b.name = OnePointer(Q!Escape(f.name))
  /\ Q!Tokens(b.pointer) = <<BodyArgument, f.name>> /\ Q!Tokens(b.name) = <<f.name>>

(* The pointer of a parameter reads its argument. *)
LEMMA ParameterBinds ==
  ASSUME NEW p, p.name \in Texts PROVE BindsParameter(Q!ParameterBinding(p), p)
<1> DEFINE pointer == OnePointer(Q!Escape(p.name))
<1>1. Q!ParameterBinding(p) = [pointer |-> pointer, target |-> p.in, name |-> p.name]
  BY Zenon DEF Q!ParameterBinding, OnePointer, Slash
<1>2. Q!Tokens(pointer) = <<p.name>>
  BY PointersRead
<1> HIDE DEF pointer
<1>. QED  BY <1>1, <1>2 DEF BindsParameter

FieldBinding(f) ==
  [pointer |-> TwoPointer(BodyArgument, Q!Escape(f.name)), target |-> "body",
   name |-> OnePointer(Q!Escape(f.name))]

(* The pointer of a field reads it in the body. *)
LEMMA FieldBinds == ASSUME NEW f, f.name \in Texts PROVE BindsField(FieldBinding(f), f)
<1> DEFINE pointer == TwoPointer(BodyArgument, Q!Escape(f.name))
           name == OnePointer(Q!Escape(f.name))
<1>1. Q!Tokens(pointer) = <<BodyArgument, f.name>> /\ Q!Tokens(name) = <<f.name>>
  BY PointersRead, BodyArgumentIs
<1>2. FieldBinding(f) = [pointer |-> pointer, target |-> "body", name |-> name]
  BY Zenon DEF FieldBinding
<1>3. name = OnePointer(Q!Escape(f.name))
  OBVIOUS
<1> HIDE DEF pointer, name
<1>. QED  BY <1>1, <1>2, <1>3 DEF BindsField

(* The parameters are bound one after the other, and then the fields.      *)
Bound(op) ==
  LET B == Bindings(op)
      ps == Params(op)
      fs == Fields(op)
  IN  /\ Len(ps) \in Nat /\ Len(fs) \in Nat /\ Len(B) = Len(ps) + Len(fs)
      /\ DOMAIN B = 1 .. Len(ps) + Len(fs) /\ DOMAIN ps = 1 .. Len(ps) /\ DOMAIN fs = 1 .. Len(fs)
      /\ \A i \in 1 .. Len(ps) : BindsParameter(B[i], ps[i])
      /\ \A j \in 1 .. Len(fs) : BindsField(B[Len(ps) + j], fs[j])
      /\ \A i \in 1 .. Len(ps) : Entry(ps[i])
      /\ \A j \in 1 .. Len(fs) : fs[j].name \in Texts

(* The bindings of an operation are these. *)
LEMMA OperationBound == ASSUME NEW op, Declared(op) PROVE Bound(op)
<1> DEFINE B == Bindings(op)
           ps == Params(op)
           fs == Fields(op)
           a == ParamBindings(op)
           b == Q!BodyBindings(op.body)
<1>1. ps \in Seq(Q!ToSet(op.itemParameters) \cup Q!ToSet(op.parameters))
      /\ DOMAIN ps = 1 .. Len(ps) /\ Len(ps) \in Nat /\ \A i \in DOMAIN ps : Entry(ps[i])
  BY ParamsDeclared
<1>2. fs \in Seq(Q!ToSet(op.body.schema.fields)) /\ \A j \in DOMAIN fs : fs[j].name \in Texts
  <2>1. CASE op.body.shape = "absent"
    <3>1. fs = <<>>
      BY <2>1, Zenon DEF Fields
    <3> HIDE DEF fs
    <3>. QED  BY <3>1, EmptySeq
  <2>2. CASE op.body.shape # "absent"
    <3>1. fs = op.body.schema.fields
      BY <2>2, Zenon DEF Fields
    <3> HIDE DEF fs
    <3>. QED  BY <3>1 DEF Declared
  <2>. QED  BY <2>1, <2>2
<1>3. DOMAIN fs = 1 .. Len(fs) /\ Len(fs) \in Nat
  BY <1>2, LenProperties
<1>4. b = [j \in DOMAIN fs |-> FieldBinding(fs[j])]
  <2>1. CASE op.body.shape = "absent"
    <3>1. b = <<>> /\ fs = <<>>
      BY <2>1, Zenon DEF Q!BodyBindings, Fields
    <3>2. <<>> = [j \in DOMAIN <<>> |-> FieldBinding(<<>>[j])]
      OBVIOUS
    <3> HIDE DEF b, fs
    <3>. QED  BY <3>1, <3>2, Zenon
  <2>2. CASE op.body.shape # "absent"
    <3>1. fs = op.body.schema.fields
      BY <2>2, Zenon DEF Fields
    <3>2. b = [j \in DOMAIN op.body.schema.fields |-> FieldBinding(op.body.schema.fields[j])]
      BY <2>2, Zenon DEF Q!BodyBindings, FieldBinding, TwoPointer, OnePointer, Slash
    <3> HIDE DEF b, fs
    <3>. QED  BY <3>1, <3>2, Zenon
  <2>. QED  BY <2>1, <2>2
<1>5. a = [i \in DOMAIN ps |-> Q!ParameterBinding(ps[i])] /\ B = a \o b
  BY Zenon DEF ParamBindings, Bindings
<1>6. /\ \A i \in 1 .. Len(ps) : BindsParameter(Q!ParameterBinding(ps[i]), ps[i])
      /\ \A j \in 1 .. Len(fs) : BindsField(FieldBinding(fs[j]), fs[j])
  BY <1>1, <1>2, <1>3, ParameterBinds, FieldBinds DEF Entry
<1> HIDE DEF B, ps, fs, a, b
<1> DEFINE Es == {a[i] : i \in DOMAIN a} \cup {b[j] : j \in DOMAIN b}
<1>7. a \in Seq(Es) /\ b \in Seq(Es) /\ Len(a) = Len(ps) /\ Len(b) = Len(fs)
  <2>1. DOMAIN a = 1 .. Len(ps) /\ DOMAIN b = 1 .. Len(fs)
    BY <1>1, <1>3, <1>4, <1>5
  <2>2. a = [i \in 1 .. Len(ps) |-> a[i]] /\ b = [j \in 1 .. Len(fs) |-> b[j]]
    BY <1>1, <1>3, <1>4, <1>5
  <2>3. (\A i \in 1 .. Len(ps) : a[i] \in Es) /\ (\A j \in 1 .. Len(fs) : b[j] \in Es)
    BY <2>1
  <2> HIDE DEF Es
  <2>4. a \in Seq(Es) /\ Len(a) = Len(ps)
    BY <1>1, <2>1, <2>2, <2>3
  <2>5. b \in Seq(Es) /\ Len(b) = Len(fs)
    BY <1>3, <2>1, <2>2, <2>3
  <2>. QED  BY <2>4, <2>5
<1> HIDE DEF Es
<1>8. /\ Len(B) = Len(ps) + Len(fs) /\ B \in Seq(Es)
      /\ \A i \in 1 .. Len(ps) + Len(fs) : B[i] = IF i <= Len(ps) THEN a[i] ELSE b[i - Len(ps)]
  <2> DEFINE j == a \o b
  <2>1. /\ Len(j) = Len(a) + Len(b) /\ j \in Seq(Es)
        /\ \A i \in 1 .. Len(a) + Len(b) : j[i] = IF i <= Len(a) THEN a[i] ELSE b[i - Len(a)]
    BY <1>7, ConcatProperties
  <2>2. B = j
    BY <1>5
  <2> HIDE DEF j
  <2>. QED  BY <1>7, <2>1, <2>2
<1>9. DOMAIN B = 1 .. Len(ps) + Len(fs)
  BY <1>8, LenProperties
<1>10. \A i \in 1 .. Len(ps) : BindsParameter(B[i], ps[i])
  <2>1. \A i \in 1 .. Len(ps) : i \in 1 .. Len(ps) + Len(fs) /\ i <= Len(ps)
    BY <1>1, <1>3
  <2>. QED  BY <1>1, <1>5, <1>6, <1>8, <2>1
<1>11. ASSUME NEW j \in 1 .. Len(fs) PROVE BindsField(B[Len(ps) + j], fs[j])
  <2>1. /\ Len(ps) + j \in 1 .. Len(ps) + Len(fs) /\ ~(Len(ps) + j <= Len(ps))
        /\ (Len(ps) + j) - Len(ps) = j
    BY <1>1, <1>3
  <2>2. B[Len(ps) + j] = b[j]
    BY <1>8, <2>1
  <2>. QED  BY <1>3, <1>4, <1>6, <2>2
<1>. QED  BY <1>1, <1>2, <1>3, <1>8, <1>9, <1>10, <1>11 DEF Bound, B, ps, fs

(* What the schema of a tool says of an argument. *)
LEMMA PropertiesAre ==
  ASSUME NEW op, Declared(op), Checked(op)
  PROVE  LET R == Q!Properties(Params(op), op.body)
         IN  /\ DOMAIN R = Argument(op) \cup
                             (IF op.body.shape = "absent" THEN {} ELSE {BodyArgument})
             /\ op.body.shape # "absent" => R[BodyArgument] = op.body.schema
             /\ \A i \in DOMAIN Params(op) : R[Params(op)[i].name] = Params(op)[i].schema
<1> DEFINE R == Q!Properties(Params(op), op.body)
           ps == Params(op)
           Ds == Argument(op) \cup (IF op.body.shape = "absent" THEN {} ELSE {BodyArgument})
           Of(n) == ps[CHOOSE i \in DOMAIN ps : ps[i].name = n].schema
<1>1. {p.name : p \in Q!ToSet(ps)} = Argument(op)
  BY DEF Argument, Q!ToSet
<1>2. R = [n \in Ds |-> IF \E i \in DOMAIN ps : ps[i].name = n THEN Of(n) ELSE op.body.schema]
  BY <1>1, Zenon DEF Q!Properties
<1>3. DOMAIN R = Ds
  <2> HIDE DEF Ds, Of
  <2>. QED  BY <1>2
<1>4. ASSUME NEW i \in DOMAIN ps PROVE ps[i].name \in Ds /\ R[ps[i].name] = ps[i].schema
  <2>1. ps[i].name \in Ds
    BY DEF Argument
  <2>2. R[ps[i].name] = Of(ps[i].name)
    <3> HIDE DEF Ds, Of
    <3>. QED  BY <1>2, <2>1
  <2>3. (CHOOSE j \in DOMAIN ps : ps[j].name = ps[i].name) = i
    BY DEF Checked, Named
  <2>. QED  BY <2>1, <2>2, <2>3
<1>5. ASSUME op.body.shape # "absent" PROVE R[BodyArgument] = op.body.schema
  <2>1. BodyArgument \in Ds /\ BodyArgument \notin Argument(op)
    BY <1>5 DEF Checked
  <2>2. ~ \E i \in DOMAIN ps : ps[i].name = BodyArgument
    BY <2>1 DEF Argument
  <2> HIDE DEF Ds, Of
  <2>. QED  BY <1>2, <2>1, <2>2
<1>. QED  BY <1>3, <1>4, <1>5

(* The leaves of the schema. *)
Leaf(op, x) ==
  \/ \E i \in DOMAIN Params(op) : x = <<Params(op)[i].name>>
  \/ \E j \in DOMAIN Fields(op) : x = <<BodyArgument, Fields(op)[j].name>>

(* They are the parameters and the fields of the body. *)
LEMMA LeavesAre ==
  ASSUME Declared(operation), Checked(operation), Converted(operation, definition)
  PROVE  \A x : x \in Q!Leaves <=> Leaf(operation, x)
<1> DEFINE R == definition.properties
           ps == Params(operation)
           fs == Fields(operation)
           N == Argument(operation)
           Ends2(n) == IF R[n].type = "object" /\ operation.body.shape # "absent"
                       THEN {<<n, f.name>> : f \in Q!ToSet(R[n].fields)}
                       ELSE {<<n>>}
<1>1. R = Q!Properties(ps, operation.body)
  BY DEF Converted
<1>2. /\ DOMAIN R = N \cup (IF operation.body.shape = "absent" THEN {} ELSE {BodyArgument})
      /\ operation.body.shape # "absent" => R[BodyArgument] = operation.body.schema
  BY <1>1, PropertiesAre
<1>3. Q!Leaves = {<<n>> : n \in DOMAIN R \ {BodyArgument}}
                   \cup UNION {Ends2(n) : n \in DOMAIN R \cap {BodyArgument}}
  BY Zenon DEF Q!Leaves
<1>4. \A x : (\E i \in DOMAIN ps : x = <<ps[i].name>>) <=> \E n \in N : x = <<n>>
  BY DEF Argument
<1> HIDE DEF R, ps, N
<1>5. CASE operation.body.shape = "absent"
  <2>1. fs = <<>>
    BY <1>5, Zenon DEF Fields
  <2>2. Ends2(BodyArgument) = {<<BodyArgument>>}
    BY <1>5
  <2>3. DOMAIN R = N
    BY <1>2, <1>5
  <2>4. ASSUME NEW x PROVE x \in Q!Leaves <=> \E n \in N : x = <<n>>
    <3> HIDE DEF Ends2
    <3>1. x \in Q!Leaves <=> \/ \E n \in N \ {BodyArgument} : x = <<n>>
                             \/ BodyArgument \in N /\ x \in Ends2(BodyArgument)
      BY <1>3, <2>3
    <3>. QED  BY <2>2, <3>1
  <2>5. \A x : ~ \E j \in DOMAIN <<>> : x = <<BodyArgument, <<>>[j].name>>
    OBVIOUS
  <2> HIDE DEF fs
  <2>6. ASSUME NEW x PROVE Leaf(operation, x) <=> \E n \in N : x = <<n>>
    BY <1>4, <2>1, <2>5, Zenon DEF Leaf, fs, ps
  <2>. QED  BY <2>4, <2>6
<1>6. CASE operation.body.shape # "absent"
  <2>1. fs = operation.body.schema.fields
    BY <1>6, Zenon DEF Fields
  <2>2. R[BodyArgument] = operation.body.schema /\ operation.body.schema.type = "object"
    BY <1>2, <1>6 DEF Checked
  <2>3. Ends2(BodyArgument) = {<<BodyArgument, f.name>> : f \in Q!ToSet(fs)}
    BY <1>6, <2>1, <2>2
  <2>4. DOMAIN R = N \cup {BodyArgument} /\ BodyArgument \notin N
    BY <1>2, <1>6 DEF Checked, N
  <2> HIDE DEF fs
  <2>5. ASSUME NEW x
        PROVE  x \in Q!Leaves <=> \/ \E n \in N : x = <<n>>
                                  \/ \E j \in DOMAIN fs : x = <<BodyArgument, fs[j].name>>
    <3> HIDE DEF Ends2
    <3>1. x \in Q!Leaves <=> (\E n \in N : x = <<n>>) \/ x \in Ends2(BodyArgument)
      BY <1>3, <2>4
    <3>2. x \in Ends2(BodyArgument) <=> \E j \in DOMAIN fs : x = <<BodyArgument, fs[j].name>>
      BY <2>3 DEF Q!ToSet
    <3>. QED  BY <3>1, <3>2
  <2>6. ASSUME NEW x
        PROVE  Leaf(operation, x) <=> \/ \E n \in N : x = <<n>>
                                      \/ \E j \in DOMAIN fs : x = <<BodyArgument, fs[j].name>>
    BY <1>4, Zenon DEF Leaf, fs, ps
  <2>. QED  BY <2>5, <2>6
<1>. QED  BY <1>5, <1>6

(* A binding is a parameter's or a field's. *)
LEMMA BindingOf ==
  ASSUME NEW op, Bound(op), NEW i \in DOMAIN Bindings(op)
  PROVE  \/ i \in DOMAIN Params(op) /\ BindsParameter(Bindings(op)[i], Params(op)[i])
         \/ /\ i - Len(Params(op)) \in DOMAIN Fields(op)
            /\ BindsField(Bindings(op)[i], Fields(op)[i - Len(Params(op))])
<1> DEFINE B == Bindings(op)
           ps == Params(op)
           fs == Fields(op)
<1>1. /\ Len(ps) \in Nat /\ Len(fs) \in Nat
      /\ DOMAIN B = 1 .. Len(ps) + Len(fs) /\ DOMAIN ps = 1 .. Len(ps) /\ DOMAIN fs = 1 .. Len(fs)
      /\ \A k \in 1 .. Len(ps) : BindsParameter(B[k], ps[k])
      /\ \A j \in 1 .. Len(fs) : BindsField(B[Len(ps) + j], fs[j])
  BY Zenon DEF Bound
<1>2. i \in DOMAIN B
  OBVIOUS
<1> HIDE DEF B, ps, fs
<1>3. i \in 1 .. Len(ps) \/ (i - Len(ps) \in 1 .. Len(fs) /\ Len(ps) + (i - Len(ps)) = i)
  BY <1>1, <1>2
<1>4. \/ i \in DOMAIN ps /\ BindsParameter(B[i], ps[i])
      \/ i - Len(ps) \in DOMAIN fs /\ BindsField(B[i], fs[i - Len(ps)])
  BY <1>1, <1>3
<1>. QED  BY <1>4 DEF B, ps, fs

(* Every argument is read by one binding, and no binding reads another.    *)
LEMMA BoundOnce ==
  ASSUME Declared(operation), Checked(operation), Converted(operation, definition)
  PROVE  Q!EveryArgumentBoundOnce
<1> DEFINE B == Bindings(operation)
           ps == Params(operation)
           fs == Fields(operation)
           read == [i \in DOMAIN B |-> Q!Tokens(B[i].pointer)]
<1>1. Bound(operation)
  BY OperationBound
<1>2. /\ Len(ps) \in Nat /\ Len(fs) \in Nat
      /\ DOMAIN B = 1 .. Len(ps) + Len(fs) /\ DOMAIN ps = 1 .. Len(ps) /\ DOMAIN fs = 1 .. Len(fs)
      /\ \A k \in 1 .. Len(ps) : BindsParameter(B[k], ps[k])
      /\ \A j \in 1 .. Len(fs) : BindsField(B[Len(ps) + j], fs[j])
  BY <1>1, Zenon DEF Bound
<1>3. \A i \in DOMAIN B : \/ i \in DOMAIN ps /\ BindsParameter(B[i], ps[i])
                          \/ i - Len(ps) \in DOMAIN fs /\ BindsField(B[i], fs[i - Len(ps)])
  BY <1>1, BindingOf
<1>4. DOMAIN read = DOMAIN B /\ \A i \in DOMAIN B : read[i] = Q!Tokens(B[i].pointer)
  OBVIOUS
<1>5. \A x : x \in Q!Leaves <=> Leaf(operation, x)
  BY LeavesAre
<1>6. definition.bindings = B
  BY DEF Converted
<1>7. /\ Named(ps)
      /\ \A i, j \in DOMAIN B : B[i].target = B[j].target /\ B[i].name = B[j].name => i = j
  BY DEF Checked
<1> HIDE DEF read
<1>8. ASSUME NEW x PROVE x \in Q!ToSet(read) <=> Leaf(operation, x)
  <2> HIDE DEF B, ps, fs
  <2>1. ASSUME NEW i \in DOMAIN B PROVE Leaf(operation, read[i])
    BY <1>3, <1>4 DEF Leaf, BindsParameter, BindsField, ps, fs
  <2>2. ASSUME NEW i \in DOMAIN ps PROVE \E k \in DOMAIN B : read[k] = <<ps[i].name>>
    <3>1. i \in DOMAIN B /\ i \in 1 .. Len(ps)
      BY <1>2
    <3>. QED  BY <1>2, <1>4, <3>1 DEF BindsParameter
  <2>3. ASSUME NEW j \in DOMAIN fs PROVE \E k \in DOMAIN B : read[k] = <<BodyArgument, fs[j].name>>
    <3>1. Len(ps) + j \in DOMAIN B /\ j \in 1 .. Len(fs)
      BY <1>2
    <3>. QED  BY <1>2, <1>4, <3>1 DEF BindsField
  <2>4. ASSUME Leaf(operation, x) PROVE \E k \in DOMAIN B : read[k] = x
    BY <2>2, <2>3, <2>4 DEF Leaf, ps, fs
  <2>. QED  BY <1>4, <2>1, <2>4 DEF Q!ToSet
<1>9. ASSUME NEW i \in DOMAIN B, NEW j \in DOMAIN B, read[i] = read[j] PROVE i = j
  <2> HIDE DEF B, ps, fs
  <2>1. \A x, y, z : <<x>> # <<y, z>> /\ (<<x>> = <<y>> => x = y)
    OBVIOUS
  <2>2. \A x, y, z : <<z, x>> = <<z, y>> => x = y
    OBVIOUS
  <2>3. CASE i \in DOMAIN ps /\ BindsParameter(B[i], ps[i])
    <3>1. read[i] = <<ps[i].name>>
      BY <1>4, <2>3 DEF BindsParameter
    <3>2. j \in DOMAIN ps /\ BindsParameter(B[j], ps[j])
      <4>1. ASSUME BindsField(B[j], fs[j - Len(ps)]) PROVE FALSE
        <5>1. read[j] = <<BodyArgument, fs[j - Len(ps)].name>>
          BY <1>4, <4>1 DEF BindsField
        <5>. QED  BY <1>9, <2>1, <3>1, <5>1
      <4>. QED  BY <1>3, <4>1
    <3>3. ps[i].name = ps[j].name
      BY <1>4, <1>9, <2>1, <3>1, <3>2 DEF BindsParameter
    <3>. QED  BY <1>7, <2>3, <3>2, <3>3 DEF Named
  <2>4. CASE i - Len(ps) \in DOMAIN fs /\ BindsField(B[i], fs[i - Len(ps)])
    <3>1. read[i] = <<BodyArgument, fs[i - Len(ps)].name>>
      BY <1>4, <2>4 DEF BindsField
    <3>2. j - Len(ps) \in DOMAIN fs /\ BindsField(B[j], fs[j - Len(ps)])
      <4>1. ASSUME BindsParameter(B[j], ps[j]) PROVE FALSE
        <5>1. read[j] = <<ps[j].name>>
          BY <1>4, <4>1 DEF BindsParameter
        <5>. QED  BY <1>9, <2>1, <3>1, <5>1
      <4>. QED  BY <1>3, <4>1
    <3>3. read[j] = <<BodyArgument, fs[j - Len(ps)].name>>
      BY <1>4, <3>2 DEF BindsField
    <3>4. fs[i - Len(ps)].name = fs[j - Len(ps)].name
      BY <1>9, <2>2, <3>1, <3>3
    <3>5. B[i].target = B[j].target /\ B[i].name = B[j].name
      BY <2>4, <3>2, <3>4 DEF BindsField
    <3>. QED  BY <1>7, <3>5
  <2>. QED  BY <1>3, <2>3, <2>4
<1>10. Q!ToSet(read) = Q!Leaves
  BY <1>5, <1>8
<1> HIDE DEF B
<1>11. \A i, j \in DOMAIN read : read[i] = read[j] => i = j
  BY <1>4, <1>9
<1>. QED  BY <1>6, <1>10, <1>11, Zenon DEF Q!EveryArgumentBoundOnce, read

(* The operation's own declaration is the one that is collected. *)
LEMMA OwnCounts ==
  ASSUME Declared(operation), Checked(operation), Converted(operation, definition)
  PROVE  Q!OperationOverrides
<1> DEFINE ps == Params(operation)
           a == operation.itemParameters
           b == operation.parameters
           R == Q!Properties(ps, operation.body)
<1>1. definition.properties = R /\ definition.required = Q!Required(ps, operation.body)
  BY DEF Converted
<1>2. ASSUME NEW p \in Q!ToSet(b) PROVE In(p, ps)
  <2> DEFINE Es == Q!ToSet(a) \cup Q!ToSet(b)
  <2>1. a \in Seq(Q!ToSet(a)) /\ b \in Seq(Q!ToSet(b))
    BY DEF Declared
  <2>2. \A S : S \subseteq Es => Seq(S) \subseteq Seq(Es)
    OBVIOUS
  <2>3. Q!ToSet(a) \subseteq Es /\ Q!ToSet(b) \subseteq Es
    OBVIOUS
  <2>4. Distinct(b)
    BY DEF Checked, Parsed
  <2>5. ps = Q!Merged(a \o b)
    BY Zenon DEF Params, Q!CollectParameters
  <2>6. In(p, b)
    BY <1>2 DEF In, Q!ToSet
  <2> HIDE DEF a, b, Es, ps
  <2>7. a \in Seq(Es) /\ b \in Seq(Es)
    BY <2>1, <2>2, <2>3
  <2>. QED  BY <2>4, <2>5, <2>6, <2>7, MergedLast
<1>3. ASSUME NEW p \in Q!ToSet(b)
      PROVE  /\ definition.properties[p.name] = p.schema
             /\ p.name \in definition.required <=> p.required = "yes"
  <2>1. PICK i \in DOMAIN ps : ps[i] = p
    BY <1>2, <1>3 DEF In
  <2>2. R[ps[i].name] = ps[i].schema
    BY PropertiesAre
  <2>3. p.name \in Argument(operation)
    BY <2>1 DEF Argument
  <2>4. operation.body.shape # "absent" => p.name # BodyArgument
    BY <2>3 DEF Checked
  <2>5. p.name \in Q!Required(ps, operation.body)
          <=> \E q \in Q!ToSet(ps) : q.required = "yes" /\ q.name = p.name
    BY <2>4 DEF Q!Required
  <2>6. \A q \in Q!ToSet(ps) : q.name = p.name => q = p
    BY <2>1 DEF Checked, Named, Q!ToSet
  <2>7. p \in Q!ToSet(ps)
    BY <2>1 DEF Q!ToSet
  <2>. QED  BY <1>1, <2>1, <2>2, <2>5, <2>6, <2>7
<1>. QED  BY <1>3, Zenon DEF Q!OperationOverrides

(* ------------------------------ Requests ------------------------------- *)

(* Whether a placeholder is met does not depend on what it is replaced by. *)
LEMMA StepAlike ==
  ASSUME NEW a, NEW b, a.held = b.held, a.met = b.met, NEW c, NEW old, NEW x, NEW y
  PROVE  LET s == Q!ReplaceStep(a, c, old, x)
             t == Q!ReplaceStep(b, c, old, y)
         IN  s.held = t.held /\ s.met = t.met
<1> DEFINE h == a.held + 1
           then(r, z) ==
             [out |-> SubSeq(r.out, 1, Len(r.out) - r.held) \o z, held |-> 0, met |-> TRUE]
           hold == IF c = old[h] THEN h ELSE IF c = old[1] THEN 1 ELSE 0
           else(r) == [out |-> Append(r.out, c), held |-> hold, met |-> r.met]
           ends == c = old[h] /\ h = Len(old)
<1>1. Q!ReplaceStep(a, c, old, x) = IF ends THEN then(a, x) ELSE else(a)
  BY Zenon DEF Q!ReplaceStep
<1>2. Q!ReplaceStep(b, c, old, y) = IF ends THEN then(b, y) ELSE else(b)
  BY Zenon DEF Q!ReplaceStep
<1>3. then(a, x).held = then(b, y).held /\ then(a, x).met = then(b, y).met
  OBVIOUS
<1> HIDE DEF hold
<1>4. else(a).held = else(b).held /\ else(a).met = else(b).met
  OBVIOUS
<1> HIDE DEF ends, then, else
<1>. QED  BY <1>1, <1>2, <1>3, <1>4

(* So it is through a whole text. *)
LEMMA MetAlike ==
  ASSUME NEW old, NEW x, NEW y
  PROVE  \A s \in Texts : /\ Q!Replaced(s, old, x).held = Q!Replaced(s, old, y).held
                          /\ Q!Replaced(s, old, x).met = Q!Replaced(s, old, y).met
<1> DEFINE Goes(s) == /\ Q!Replaced(s, old, x).held = Q!Replaced(s, old, y).held
                      /\ Q!Replaced(s, old, x).met = Q!Replaced(s, old, y).met
           S == {s \in Texts : Goes(s)}
<1>1. <<>> \in S
  <2>1. <<>> \in Texts
    BY EmptySeq DEF Texts
  <2>2. Q!Replaced(<<>>, old, x) = Q!Replaced(<<>>, old, y)
    BY ReplacedEmpty, Zenon
  <2>. QED  BY <2>1, <2>2
<1>2. ASSUME NEW s \in Texts, NEW c \in Characters, s \in S PROVE Append(s, c) \in S
  <2>1. Append(s, c) \in Texts
    BY AppendProperties DEF Texts
  <2>2. /\ Q!Replaced(Append(s, c), old, x) = Q!ReplaceStep(Q!Replaced(s, old, x), c, old, x)
        /\ Q!Replaced(Append(s, c), old, y) = Q!ReplaceStep(Q!Replaced(s, old, y), c, old, y)
    BY ReplacedAppend DEF Texts
  <2>3. Goes(s)
    BY <1>2
  <2>. QED  BY <2>1, <2>2, <2>3, StepAlike
<1> HIDE DEF S
<1>3. Texts \subseteq S
  BY <1>1, <1>2, Growing DEF Texts
<1>. QED  BY <1>3 DEF S

(* The placeholder of a name is there if the template has it and it is not *)
(* filled in, and str.replace fills it in.                                 *)
LEMMA FillsOne ==
  ASSUME NEW names, NEW n \in Texts, Plain(n), n \notin names, Values(names \cup {n}),
         NEW path \in Texts, Sound(path)
  PROVE  /\ Q!Occurs(Placeholder(n), Out(path, names)) <=> In(n, Found(path))
         /\ Q!Replace(Out(path, names), Placeholder(n), Q!Quote(supplied.e[n].s))
              = Out(path, names \cup {n})
<1> DEFINE out == Out(path, names)
           more == Out(path, names \cup {n})
           old == Placeholder(n)
           new == Q!Quote(supplied.e[n].s)
           met == In(n, Found(path))
<1>1. Q!Replaced(out, old, new) = Outside(more, met)
  BY FillOne
<1>2. out \in Texts
  BY OutIsText DEF Values
<1> HIDE DEF out, more, old, new, met
<1>3. Q!Replaced(out, old, new).met = met /\ Q!Replaced(out, old, new).out = more
  BY <1>1 DEF Outside
<1>4. Q!Replaced(out, old, old).met = Q!Replaced(out, old, new).met
  BY <1>2, MetAlike
<1>5. Q!Replace(out, old, new) = more
  BY <1>3 DEF Q!Replace
<1>6. Q!Occurs(old, out) <=> met
  BY <1>3, <1>4 DEF Q!Occurs
<1>. QED  BY <1>5, <1>6 DEF out, more, old, new, met

(* A request that is built, and what a binding reads for it. *)
Request(path, query, content, has) ==
  [kind |-> "request", path |-> path, query |-> query, headers |-> <<>>, body |-> content,
   hasBody |-> has]
Reads(binding) == Q!ReadPointer(supplied, binding.pointer)
Sends(value) == value.t \notin {"absent", "null"}

(* Nothing is read, or building has stopped. *)
LEMMA BindSkips ==
  ASSUME NEW built, NEW binding, built.kind # "request" \/ ~Sends(Reads(binding))
  PROVE  Q!Bind(built, binding, supplied) = built
BY Zenon DEF Q!Bind, Sends, Reads

(* A value that is not scalar has no place but the body. *)
LEMMA BindStops ==
  ASSUME NEW built, NEW binding, built.kind = "request", Sends(Reads(binding)),
         binding.target # "body", ~Q!IsScalar(Reads(binding)),
         binding.target = "path" => Q!Occurs(Placeholder(binding.name), built.path)
  PROVE  Q!Bind(built, binding, supplied) = Q!Failed("not_scalar")
BY Zenon DEF Q!Bind, Sends, Reads, Placeholder, Open, Close

(* A path argument takes the place of its placeholder. *)
LEMMA BindsPath ==
  ASSUME NEW path, NEW query, NEW content, NEW has, NEW binding, Sends(Reads(binding)),
         binding.target = "path", Q!Occurs(Placeholder(binding.name), path),
         Q!IsScalar(Reads(binding))
  PROVE  Q!Bind(Request(path, query, content, has), binding, supplied)
           = Request(Q!Replace(path, Placeholder(binding.name), Q!Quote(Reads(binding).s)),
                     query, content, has)
<1> DEFINE built == Request(path, query, content, has)
           new(p) == Q!Replace(p, Placeholder(binding.name), Q!Quote(Reads(binding).s))
<1>1. built.kind = "request" /\ built.path = path
  BY DEF Request
<1>2. \A x : [built EXCEPT !.path = x] = Request(x, query, content, has)
  BY DEF Request
<1> HIDE DEF built
<1>3. Q!Bind(built, binding, supplied) = [built EXCEPT !.path = new(built.path)]
  BY <1>1, Zenon DEF Q!Bind, Sends, Reads, Placeholder, Open, Close
<1>. QED  BY <1>1, <1>2, <1>3, Zenon DEF built

(* A query argument is one more. *)
LEMMA BindsQuery ==
  ASSUME NEW path, NEW query, NEW content, NEW has, NEW binding, Sends(Reads(binding)),
         binding.target = "query", Q!IsScalar(Reads(binding))
  PROVE  Q!Bind(Request(path, query, content, has), binding, supplied)
           = Request(path, Append(query, <<binding.name, Reads(binding).s>>), content, has)
<1> DEFINE built == Request(path, query, content, has)
           entry == <<binding.name, Reads(binding).s>>
<1>1. built.kind = "request" /\ built.query = query
  BY DEF Request
<1>2. \A x : [built EXCEPT !.query = x] = Request(path, x, content, has)
  BY DEF Request
<1> HIDE DEF built
<1>3. Q!Bind(built, binding, supplied) = [built EXCEPT !.query = Append(built.query, entry)]
  BY <1>1, Zenon DEF Q!Bind, Sends, Reads
<1>. QED  BY <1>1, <1>2, <1>3, Zenon DEF built

(* A field of the body is written into it. *)
LEMMA BindsBody ==
  ASSUME NEW path, NEW query, NEW content, NEW has, NEW binding, Sends(Reads(binding)),
         binding.target = "body"
  PROVE  Q!Bind(Request(path, query, content, has), binding, supplied)
           = Request(path, query,
                     Q!WriteTokens(content, Q!Tokens(binding.name), Reads(binding)), Yes)
<1> DEFINE built == Request(path, query, content, has)
<1>1. /\ built.kind = "request" /\ built.path = path /\ built.query = query
      /\ built.headers = <<>> /\ built.body = content
  BY DEF Request
<1> HIDE DEF built
<1>2. Q!Bind(built, binding, supplied)
        = [kind |-> built.kind, path |-> built.path, query |-> built.query,
           headers |-> built.headers,
           body |-> Q!WriteTokens(built.body, Q!Tokens(binding.name), Reads(binding)),
           hasBody |-> Yes]
  BY <1>1, Zenon DEF Q!Bind, Sends, Reads, Yes
<1>. QED  BY <1>1, <1>2, Zenon DEF built, Request

(* A call of the tool that validate_arguments lets through. *)
Ready ==
  /\ Declared(operation) /\ Checked(operation) /\ Converted(operation, definition)
  /\ Q!IsArguments(supplied) /\ Q!ValidateArguments(definition, supplied)

(* What is supplied is JSON. *)
LEMMA SuppliedIs ==
  ASSUME Q!IsArguments(supplied)
  PROVE  /\ supplied.t = "object"
         /\ \A n \in DOMAIN supplied.e :
              /\ supplied.e[n].s \in Texts /\ supplied.e[n].t # "absent"
              /\ \A m \in DOMAIN supplied.e[n].e : supplied.e[n].e[m].t # "absent"
<1>1. supplied.t = "object"
  BY DEF Q!IsArguments
<1>2. ASSUME NEW n \in DOMAIN supplied.e
      PROVE  /\ Q!IsValue(supplied.e[n])
             /\ \A m \in DOMAIN supplied.e[n].e : Q!IsValue(supplied.e[n].e[m])
  BY <1>2 DEF Q!IsArguments
<1>3. ASSUME NEW v, Q!IsValue(v) PROVE v.s \in Texts /\ v.t # "absent"
  <2>1. STRING \subseteq Characters
    BY DEF Characters
  <2>2. \A S, Es : S \subseteq Es => Seq(S) \subseteq Seq(Es)
    OBVIOUS
  <2>3. v.s \in Seq(STRING)
    BY <1>3 DEF Q!IsValue
  <2>4. v.s \in Texts
    BY <2>1, <2>2, <2>3, Zenon DEF Texts
  <2>5. v.t # "absent"
    BY <1>3 DEF Q!IsValue
  <2>. QED  BY <2>4, <2>5
<1>. QED  BY <1>1, <1>2, <1>3

(* What is at a key is sent if it is there and no null. *)
LEMMA SentAt ==
  ASSUME NEW d, NEW x, d.t = "object", x \in DOMAIN d.e => d.e[x].t # "absent"
  PROVE  /\ Sends(At(d, x)) <=> x \in DOMAIN d.e /\ d.e[x].t # "null"
         /\ Sends(At(d, x)) => At(d, x) = d.e[x]
<1>1. Q!Absent.t = "absent"
  BY DEF Q!Absent
<1>2. CASE x \in DOMAIN d.e
  BY <1>2 DEF At, Sends
<1>3. CASE x \notin DOMAIN d.e
  <2>1. At(d, x) = Q!Absent
    BY <1>3 DEF At
  <2>. QED  BY <1>1, <1>3, <2>1 DEF Sends
<1>. QED  BY <1>2, <1>3

(* Nothing is sent of what is no object. *)
LEMMA SentOfNone ==
  ASSUME NEW d, NEW x, d.t # "object" PROVE ~Sends(At(d, x))
<1>1. Q!Absent.t = "absent"
  BY DEF Q!Absent
<1>. QED  BY <1>1 DEF At, Sends

(* The bindings that are used, of the first k. *)
Used(k, target) ==
  {i \in 1 .. k : definition.bindings[i].target = target /\ Sends(Reads(definition.bindings[i]))}
Field(i) == Q!Tokens(definition.bindings[i].name)[1]
PathSent(k) == {definition.bindings[i].name : i \in Used(k, "path")}
QuerySent(k) == {<<definition.bindings[i].name, Reads(definition.bindings[i]).s>> :
                   i \in Used(k, "query")}
BodySent(k) == {Field(i) : i \in Used(k, "body")}

(* One binding more. *)
LEMMA UsedNext ==
  ASSUME NEW k \in Nat, NEW target
  PROVE  /\ definition.bindings[k + 1].target = target
              /\ Sends(Reads(definition.bindings[k + 1])) =>
                Used(k + 1, target) = Used(k, target) \cup {k + 1}
         /\ ~(definition.bindings[k + 1].target = target
                /\ Sends(Reads(definition.bindings[k + 1]))) =>
              Used(k + 1, target) = Used(k, target)
         /\ Used(k, target) \subseteq 1 .. k
<1>1. 1 .. k + 1 = (1 .. k) \cup {k + 1}
  OBVIOUS
<1>. QED  BY <1>1, Zenon DEF Used

(* What the bindings of a tool are, one by one. *)
PathUsable(b) ==
  /\ b.name \in Texts /\ Plain(b.name) /\ In(b.name, Found(operation.path))
  /\ Sends(Reads(b)) => Reads(b).s = supplied.e[b.name].s /\ Reads(b).s \in Texts
QueryUsable(b) == b.name \in Texts /\ (Sends(Reads(b)) => Reads(b).s \in Texts)
Usable ==
  LET B == definition.bindings
  IN  /\ Len(B) \in Nat /\ DOMAIN B = 1 .. Len(B)
      /\ \A i \in 1 .. Len(B) :
           /\ B[i].target \in {"path", "query", "body"}
           /\ B[i].target = "path" => PathUsable(B[i])
           /\ B[i].target = "query" => QueryUsable(B[i])
           /\ B[i].target = "body" => Q!Tokens(B[i].name) = <<Field(i)>>
      /\ \A i, j \in 1 .. Len(B) :
           B[i].target = B[j].target /\ B[i].name = B[j].name => i = j
      /\ \A i, j \in 1 .. Len(B) :
           B[i].target = "body" /\ B[j].target = "body" /\ Field(i) = Field(j) => i = j
      /\ operation.path \in Texts /\ Sound(operation.path)
      /\ definition.path = operation.path

(* What the binding of a parameter reads. *)
LEMMA ParameterReads ==
  ASSUME Q!IsArguments(supplied), NEW b, NEW p, BindsParameter(b, p)
  PROVE  /\ Sends(Reads(b)) <=> p.name \in DOMAIN supplied.e /\ supplied.e[p.name].t # "null"
         /\ Sends(Reads(b)) => Reads(b) = supplied.e[p.name] /\ Reads(b).s \in Texts
<1>1. Q!Tokens(b.pointer) = <<p.name>>
  BY DEF BindsParameter
<1>2. Reads(b) = At(supplied, p.name)
  BY <1>1, ReadOne, Zenon DEF Reads, Q!ReadPointer
<1>3. supplied.t = "object" /\ \A n \in DOMAIN supplied.e :
                                 supplied.e[n].s \in Texts /\ supplied.e[n].t # "absent"
  BY SuppliedIs
<1>4. /\ Sends(At(supplied, p.name))
           <=> p.name \in DOMAIN supplied.e /\ supplied.e[p.name].t # "null"
      /\ Sends(At(supplied, p.name)) => At(supplied, p.name) = supplied.e[p.name]
  BY <1>3, SentAt
<1>. QED  BY <1>2, <1>3, <1>4

(* What the binding of a field reads. *)
LEMMA FieldReads ==
  ASSUME NEW b, NEW f, BindsField(b, f)
  PROVE  Reads(b) = At(At(supplied, BodyArgument), f.name)
<1>1. Q!Tokens(b.pointer) = <<BodyArgument, f.name>>
  BY DEF BindsField
<1>2. Reads(b) = Q!ReadTokens(supplied, Q!Tokens(b.pointer))
  BY Zenon DEF Reads, Q!ReadPointer
<1>3. Q!ReadTokens(supplied, <<BodyArgument, f.name>>) = At(At(supplied, BodyArgument), f.name)
  BY ReadTwo
<1>. QED  BY <1>1, <1>2, <1>3, Zenon

(* The bindings of a tool that is called are such. *)
LEMMA ReadyUsable == ASSUME Ready PROVE Usable
<1> DEFINE B == Bindings(operation)
           ps == Params(operation)
           fs == Fields(operation)
<1>1. Declared(operation) /\ Checked(operation) /\ Q!IsArguments(supplied)
  BY DEF Ready
<1>2. definition.bindings = B /\ definition.path = operation.path
  BY DEF Ready, Converted
<1>3. Bound(operation)
  BY <1>1, OperationBound
<1>4. /\ Len(ps) \in Nat /\ Len(fs) \in Nat /\ Len(B) = Len(ps) + Len(fs)
      /\ DOMAIN B = 1 .. Len(ps) + Len(fs) /\ DOMAIN ps = 1 .. Len(ps)
      /\ \A i \in 1 .. Len(ps) : Entry(ps[i])
  BY <1>3, Zenon DEF Bound
<1>5. Len(B) \in Nat /\ DOMAIN B = 1 .. Len(B)
  <2> HIDE DEF B, ps, fs
  <2>. QED  BY <1>4
<1>6. \A i \in DOMAIN B : \/ i \in DOMAIN ps /\ BindsParameter(B[i], ps[i])
                          \/ i - Len(ps) \in DOMAIN fs /\ BindsField(B[i], fs[i - Len(ps)])
  BY <1>3, BindingOf
<1>7. operation.path \in Texts /\ Sound(operation.path) /\ Placed(operation.path, ps)
  BY <1>1 DEF Declared, Checked, Placed
<1>8. Scans(operation.path)
  BY <1>7, ScanRuns
<1>9. \A i \in DOMAIN ps : ps[i].in \in {"path", "query"}
  <2>1. \A i \in DOMAIN ps : In(ps[i], operation.itemParameters) \/ In(ps[i], operation.parameters)
    BY <1>1, ParamsDeclared
  <2>2. Parsed(operation.itemParameters) /\ Parsed(operation.parameters)
    BY <1>1 DEF Checked
  <2>3. \A list, e : Parsed(list) /\ In(e, list) => e.in \in {"path", "query"}
    BY Zenon DEF Parsed, In
  <2>. QED  BY <2>1, <2>2, <2>3
<1>10. \A i, j \in DOMAIN B : B[i].target = B[j].target /\ B[i].name = B[j].name => i = j
  BY <1>1 DEF Checked
<1>11. ASSUME NEW i \in 1 .. Len(B)
       PROVE  /\ B[i].target \in {"path", "query", "body"}
              /\ B[i].target = "path" => PathUsable(B[i])
              /\ B[i].target = "query" => QueryUsable(B[i])
              /\ B[i].target = "body" => Q!Tokens(B[i].name) = <<Field(i)>>
  <2>1. definition.bindings[i] = B[i]
    BY <1>2
  <2> HIDE DEF B, fs
  <2>2. CASE i \in DOMAIN ps /\ BindsParameter(B[i], ps[i])
    <3>1. B[i].target = ps[i].in /\ B[i].name = ps[i].name
      BY <2>2 DEF BindsParameter
    <3>2. B[i].target \in {"path", "query"}
      BY <1>9, <2>2, <3>1
    <3>3. B[i].name \in Texts
      BY <1>4, <2>2, <3>1 DEF Entry
    <3>4. Sends(Reads(B[i])) => Reads(B[i]) = supplied.e[ps[i].name] /\ Reads(B[i]).s \in Texts
      BY <1>1, <2>2, ParameterReads
    <3>5. ASSUME B[i].target = "path"
          PROVE  Plain(B[i].name) /\ In(B[i].name, Found(operation.path))
      <4>1. ps[i].name \in PathNames(ps)
        BY <2>2, <3>1, <3>5 DEF PathNames
      <4>2. In(ps[i].name, Found(operation.path))
        BY <1>7, <4>1 DEF Placed
      <4>3. Plain(ps[i].name)
        BY <1>8, <4>2 DEF Scans, In
      <4>. QED  BY <3>1, <4>2, <4>3
    <3>6. B[i].target # "body"
      BY <3>2
    <3>. QED  BY <3>1, <3>2, <3>3, <3>4, <3>5, <3>6 DEF PathUsable, QueryUsable
  <2>3. CASE i - Len(ps) \in DOMAIN fs /\ BindsField(B[i], fs[i - Len(ps)])
    <3>1. B[i].target = "body" /\ Q!Tokens(B[i].name) = <<fs[i - Len(ps)].name>>
      BY <2>3 DEF BindsField
    <3>2. Field(i) = fs[i - Len(ps)].name
      BY <2>1, <3>1 DEF Field
    <3>. QED  BY <3>1, <3>2
  <2>. QED  BY <1>5, <1>6, <2>2, <2>3
<1>12. ASSUME NEW i \in 1 .. Len(B), NEW j \in 1 .. Len(B), B[i].target = "body",
              B[j].target = "body", Field(i) = Field(j)
       PROVE  i = j
  <2>1. definition.bindings[i] = B[i] /\ definition.bindings[j] = B[j]
    BY <1>2
  <2> HIDE DEF B, fs
  <2>2. ASSUME NEW k \in 1 .. Len(B), B[k].target = "body", definition.bindings[k] = B[k]
        PROVE  B[k].name = OnePointer(Q!Escape(Field(k)))
    <3>1. BindsField(B[k], fs[k - Len(ps)])
      BY <1>5, <1>6, <1>9, <2>2 DEF BindsParameter
    <3>2. B[k].name = OnePointer(Q!Escape(fs[k - Len(ps)].name))
          /\ Q!Tokens(B[k].name) = <<fs[k - Len(ps)].name>>
      BY <3>1 DEF BindsField
    <3>3. Field(k) = fs[k - Len(ps)].name
      BY <2>2, <3>2 DEF Field
    <3>. QED  BY <3>2, <3>3
  <2>3. B[i].name = B[j].name
    BY <1>12, <2>1, <2>2
  <2>. QED  BY <1>5, <1>10, <1>12, <2>3
<1> HIDE DEF B
<1>. QED  BY <1>2, <1>5, <1>7, <1>10, <1>11, <1>12, Zenon DEF Usable

(* What is built of the first k bindings. *)
No == FALSE
Queried(k, query) ==
  /\ query \in Seq(Texts \X Texts)
  /\ \A x : In(x, query) <=> x \in QuerySent(k)
  /\ \A i, j \in DOMAIN query : query[i][1] = query[j][1] => i = j
Bodied(k, content, has) ==
  /\ content.t = "object" /\ DOMAIN content.e = BodySent(k)
  /\ \A i \in Used(k, "body") : content.e[Field(i)] = Reads(definition.bindings[i])
  /\ has \in BOOLEAN /\ (has <=> BodySent(k) # {})
Holds(k, r) ==
  \E query, content, has :
    /\ r = Request(Out(operation.path, PathSent(k)), query, content, has)
    /\ Queried(k, query) /\ Bodied(k, content, has)
Stopped(k, r) ==
  /\ r = Q!Failed("not_scalar")
  /\ \E i \in Used(k, "path") \cup Used(k, "query") : ~Q!IsScalar(Reads(definition.bindings[i]))

(* Before the first. *)
LEMMA HoldsEmpty == ASSUME Usable, Depth(operation.path) # 1 PROVE Holds(0, Empty)
<1> DEFINE content == Q!Obj(<<>>)
<1>1. \A target : Used(0, target) = {}
  BY DEF Used
<1>2. PathSent(0) = {} /\ QuerySent(0) = {} /\ BodySent(0) = {}
  BY <1>1 DEF PathSent, QuerySent, BodySent
<1>3. /\ operation.path \in Texts /\ Sound(operation.path) /\ definition.path = operation.path
  BY Zenon DEF Usable
<1>4. Out(operation.path, {}) = operation.path
  <2> DEFINE out == Out(operation.path, {})
  <2>1. operation.path = out \o (IF Depth(operation.path) = 1
                                 THEN <<Open>> \o Within(operation.path) ELSE <<>>)
    BY <1>3, FillNone
  <2>2. operation.path = out \o <<>>
    BY <2>1, Zenon
  <2>3. out \in Texts
    BY <1>3, OutIsText DEF Values
  <2> HIDE DEF out
  <2>4. out \o <<>> = out
    BY <2>3, ConcatEmptySeq DEF Texts
  <2>. QED  BY <2>2, <2>4 DEF out
<1>5. Empty = Request(Out(operation.path, PathSent(0)), <<>>, content, No)
  BY <1>2, <1>3, <1>4, Zenon DEF Empty, Request, No
<1>6. Queried(0, <<>>)
  BY <1>2, EmptySeq DEF Queried, In
<1>7. content.t = "object" /\ DOMAIN content.e = {}
  BY DEF Q!Obj
<1> HIDE DEF content
<1>8. Bodied(0, content, No)
  BY <1>1, <1>2, <1>7 DEF Bodied, No
<1>. QED  BY <1>5, <1>6, <1>8, Zenon DEF Holds

(* A path argument. *)
LEMMA HoldsPath ==
  ASSUME Usable, NEW k \in Nat, k + 1 <= Len(definition.bindings), NEW r, Holds(k, r),
         definition.bindings[k + 1].target = "path", Sends(Reads(definition.bindings[k + 1]))
  PROVE  LET s == Q!Bind(r, definition.bindings[k + 1], supplied)
         IN  Holds(k + 1, s) \/ Stopped(k + 1, s)
<1> DEFINE b == definition.bindings[k + 1]
           n == b.name
           names == PathSent(k)
           out == Out(operation.path, names)
           more == Out(operation.path, names \cup {n})
<1>0. k + 1 \in 1 .. Len(definition.bindings) /\ 1 .. k \subseteq 1 .. Len(definition.bindings)
      /\ \A i \in 1 .. k : i # k + 1
  <2>1. Len(definition.bindings) \in Nat
    BY Zenon DEF Usable
  <2>. QED  BY <2>1
<1>1. PICK query, content, has :
        /\ r = Request(out, query, content, has) /\ Queried(k, query) /\ Bodied(k, content, has)
  BY Zenon DEF Holds
<1>2. PathUsable(b) /\ b.target = "path" /\ Sends(Reads(b))
  BY <1>0, Zenon DEF Usable
<1>3. /\ Used(k + 1, "path") = Used(k, "path") \cup {k + 1}
      /\ Used(k + 1, "query") = Used(k, "query") /\ Used(k + 1, "body") = Used(k, "body")
  BY UsedNext
<1>4. PathSent(k + 1) = names \cup {n}
  BY <1>3 DEF PathSent
<1>5. QuerySent(k + 1) = QuerySent(k) /\ BodySent(k + 1) = BodySent(k)
  BY <1>3 DEF QuerySent, BodySent
<1>6. Queried(k + 1, query) /\ Bodied(k + 1, content, has)
  BY <1>1, <1>3, <1>5 DEF Queried, Bodied
<1>7. n \notin names
  <2>1. \A i \in Used(k, "path") : /\ definition.bindings[i].target = "path"
                                   /\ i \in 1 .. Len(definition.bindings) /\ i # k + 1
    BY <1>0 DEF Used
  <2>2. \A i \in Used(k, "path") : definition.bindings[i].name # n
    BY <1>0, <1>2, <2>1, Zenon DEF Usable
  <2>. QED  BY <2>2 DEF PathSent
<1>8. Values(names \cup {n})
  <2>1. ASSUME NEW i \in Used(k, "path") PROVE supplied.e[definition.bindings[i].name].s \in Texts
    <3>1. /\ i \in 1 .. Len(definition.bindings) /\ definition.bindings[i].target = "path"
          /\ Sends(Reads(definition.bindings[i]))
      BY <1>0 DEF Used
    <3>2. PathUsable(definition.bindings[i])
      BY <3>1, Zenon DEF Usable
    <3>. QED  BY <3>1, <3>2 DEF PathUsable
  <2>2. supplied.e[n].s \in Texts
    BY <1>2 DEF PathUsable
  <2>. QED  BY <2>1, <2>2 DEF Values, PathSent
<1>9. n \in Texts /\ Plain(n) /\ In(n, Found(operation.path)) /\ Reads(b).s = supplied.e[n].s
  BY <1>2 DEF PathUsable
<1>10. operation.path \in Texts /\ Sound(operation.path)
  BY Zenon DEF Usable
<1> HIDE DEF n, names
<1>11. /\ Q!Occurs(Placeholder(n), out)
       /\ Q!Replace(out, Placeholder(n), Q!Quote(Reads(b).s)) = more
  BY <1>7, <1>8, <1>9, <1>10, FillsOne
<1> HIDE DEF b, out, more
<1>12. CASE Q!IsScalar(Reads(b))
  <2>1. Q!Bind(r, b, supplied) = Request(more, query, content, has)
    BY <1>1, <1>2, <1>11, <1>12, BindsPath DEF n
  <2>2. Holds(k + 1, Q!Bind(r, b, supplied))
    BY <1>4, <1>6, <2>1, Zenon DEF Holds, more
  <2>. QED  BY <2>2 DEF b
<1>13. CASE ~Q!IsScalar(Reads(b))
  <2>1. r.kind = "request" /\ r.path = out
    BY <1>1 DEF Request
  <2>2. b.target # "body"
    BY <1>2
  <2>3. Q!Bind(r, b, supplied) = Q!Failed("not_scalar")
    BY <1>2, <1>11, <1>13, <2>1, <2>2, BindStops DEF n
  <2>4. Stopped(k + 1, Q!Bind(r, b, supplied))
    BY <1>3, <1>13, <2>3 DEF Stopped, b
  <2>. QED  BY <2>4 DEF b
<1>. QED  BY <1>12, <1>13

(* A query argument. *)
LEMMA HoldsQuery ==
  ASSUME Usable, NEW k \in Nat, k + 1 <= Len(definition.bindings), NEW r, Holds(k, r),
         definition.bindings[k + 1].target = "query", Sends(Reads(definition.bindings[k + 1]))
  PROVE  LET s == Q!Bind(r, definition.bindings[k + 1], supplied)
         IN  Holds(k + 1, s) \/ Stopped(k + 1, s)
<1> DEFINE b == definition.bindings[k + 1]
           out == Out(operation.path, PathSent(k))
           entry == <<b.name, Reads(b).s>>
<1>0. k + 1 \in 1 .. Len(definition.bindings) /\ 1 .. k \subseteq 1 .. Len(definition.bindings)
      /\ \A i \in 1 .. k : i # k + 1
  <2>1. Len(definition.bindings) \in Nat
    BY Zenon DEF Usable
  <2>. QED  BY <2>1
<1>1. PICK query, content, has :
        /\ r = Request(out, query, content, has) /\ Queried(k, query) /\ Bodied(k, content, has)
  BY Zenon DEF Holds
<1>2. QueryUsable(b) /\ b.target = "query" /\ Sends(Reads(b))
  BY <1>0, Zenon DEF Usable
<1>3. /\ Used(k + 1, "query") = Used(k, "query") \cup {k + 1}
      /\ Used(k + 1, "path") = Used(k, "path") /\ Used(k + 1, "body") = Used(k, "body")
  BY UsedNext
<1>4. QuerySent(k + 1) = QuerySent(k) \cup {entry}
  BY <1>3 DEF QuerySent
<1>5. PathSent(k + 1) = PathSent(k) /\ BodySent(k + 1) = BodySent(k)
  BY <1>3 DEF PathSent, BodySent
<1>6. Bodied(k + 1, content, has)
  BY <1>1, <1>3, <1>5 DEF Bodied
<1>7. \A x \in QuerySent(k) : x[1] # b.name
  <2>1. \A i \in Used(k, "query") : /\ definition.bindings[i].target = "query"
                                    /\ i \in 1 .. Len(definition.bindings) /\ i # k + 1
    BY <1>0 DEF Used
  <2>2. \A i \in Used(k, "query") : definition.bindings[i].name # b.name
    BY <1>0, <1>2, <2>1, Zenon DEF Usable
  <2>. QED  BY <2>2 DEF QuerySent
<1>8. entry \in Texts \X Texts /\ entry[1] = b.name
  BY <1>2 DEF QueryUsable
<1> HIDE DEF b, out, entry
<1>9. Queried(k + 1, Append(query, entry))
  <2> DEFINE longer == Append(query, entry)
  <2>1. query \in Seq(Texts \X Texts) /\ \A x : In(x, query) <=> x \in QuerySent(k)
    BY <1>1 DEF Queried
  <2>2. longer \in Seq(Texts \X Texts)
    BY <1>8, <2>1, AppendProperties
  <2>3. \A x : In(x, longer) <=> In(x, query) \/ entry = x
    BY <1>8, <2>1, InAppend
  <2>4. /\ DOMAIN query = 1 .. Len(query) /\ DOMAIN longer = 1 .. Len(query) + 1
        /\ Len(query) \in Nat
        /\ \A i \in 1 .. Len(query) : longer[i] = query[i]
        /\ longer[Len(query) + 1] = entry
    BY <1>8, <2>1, AppendProperties, LenProperties
  <2> HIDE DEF longer
  <2>5. \A i \in 1 .. Len(query) : query[i][1] # entry[1]
    BY <1>7, <1>8, <2>1, <2>4 DEF In
  <2>6. \A i \in 1 .. Len(query) + 1 : i \in 1 .. Len(query) \/ i = Len(query) + 1
    BY <2>4
  <2>7. \A i, j \in DOMAIN longer : longer[i][1] = longer[j][1] => i = j
    <3>1. \A i, j \in 1 .. Len(query) : query[i][1] = query[j][1] => i = j
      BY <1>1, <2>4 DEF Queried
    <3>. QED  BY <2>4, <2>5, <2>6, <3>1, Zenon
  <2>8. \A x : In(x, longer) <=> x \in QuerySent(k + 1)
    BY <1>4, <2>1, <2>3
  <2>. QED  BY <2>2, <2>7, <2>8 DEF Queried, longer
<1>10. CASE Q!IsScalar(Reads(b))
  <2>1. Q!Bind(r, b, supplied) = Request(out, Append(query, entry), content, has)
    BY <1>1, <1>2, <1>10, BindsQuery DEF entry
  <2>2. Holds(k + 1, Q!Bind(r, b, supplied))
    BY <1>5, <1>6, <1>9, <2>1, Zenon DEF Holds, out
  <2>. QED  BY <2>2 DEF b
<1>11. CASE ~Q!IsScalar(Reads(b))
  <2>1. r.kind = "request"
    BY <1>1 DEF Request
  <2>2. b.target # "body" /\ b.target # "path"
    BY <1>2
  <2>3. Q!Bind(r, b, supplied) = Q!Failed("not_scalar")
    BY <1>2, <1>11, <2>1, <2>2, BindStops
  <2>4. Stopped(k + 1, Q!Bind(r, b, supplied))
    BY <1>3, <1>11, <2>3 DEF Stopped, b
  <2>. QED  BY <2>4 DEF b
<1>. QED  BY <1>10, <1>11

(* A field of the body. *)
LEMMA HoldsBody ==
  ASSUME Usable, NEW k \in Nat, k + 1 <= Len(definition.bindings), NEW r, Holds(k, r),
         definition.bindings[k + 1].target = "body", Sends(Reads(definition.bindings[k + 1]))
  PROVE  Holds(k + 1, Q!Bind(r, definition.bindings[k + 1], supplied))
<1> DEFINE b == definition.bindings[k + 1]
           out == Out(operation.path, PathSent(k))
           f == Field(k + 1)
           value == Reads(b)
<1>0. k + 1 \in 1 .. Len(definition.bindings) /\ 1 .. k \subseteq 1 .. Len(definition.bindings)
      /\ \A i \in 1 .. k : i # k + 1
  <2>1. Len(definition.bindings) \in Nat
    BY Zenon DEF Usable
  <2>. QED  BY <2>1
<1>1. PICK query, content, has :
        /\ r = Request(out, query, content, has) /\ Queried(k, query) /\ Bodied(k, content, has)
  BY Zenon DEF Holds
<1>2. Q!Tokens(b.name) = <<f>> /\ b.target = "body" /\ Sends(Reads(b))
  BY <1>0, Zenon DEF Usable
<1>3. /\ Used(k + 1, "body") = Used(k, "body") \cup {k + 1}
      /\ Used(k + 1, "path") = Used(k, "path") /\ Used(k + 1, "query") = Used(k, "query")
  BY UsedNext
<1>4. BodySent(k + 1) = BodySent(k) \cup {f}
  BY <1>3 DEF BodySent
<1>5. PathSent(k + 1) = PathSent(k) /\ QuerySent(k + 1) = QuerySent(k)
  BY <1>3 DEF PathSent, QuerySent
<1>6. Queried(k + 1, query)
  BY <1>1, <1>5 DEF Queried
<1>7. \A i \in Used(k, "body") : Field(i) # f
  <2>1. \A i \in Used(k, "body") : /\ definition.bindings[i].target = "body"
                                   /\ i \in 1 .. Len(definition.bindings) /\ i # k + 1
    BY <1>0 DEF Used
  <2>. QED  BY <1>0, <1>2, <2>1, Zenon DEF Usable
<1>8. content.t = "object" /\ DOMAIN content.e = BodySent(k)
  BY <1>1 DEF Bodied
<1> DEFINE filled == Q!SetKey(content, f, value)
<1>9. /\ filled.t = "object" /\ DOMAIN filled.e = BodySent(k) \cup {f} /\ filled.e[f] = value
      /\ \A x \in BodySent(k) : x # f => filled.e[x] = content.e[x]
  <2> HIDE DEF value, f
  <2>1. filled = [t |-> "object", s |-> <<>>,
                  e |-> [x \in DOMAIN content.e \cup {f} |-> IF x = f THEN value ELSE content.e[x]]]
    BY Zenon DEF Q!SetKey, Q!Obj
  <2> HIDE DEF filled
  <2>. QED  BY <1>8, <2>1
<1>10. Bodied(k + 1, filled, Yes)
  <2>1. filled.e[Field(k + 1)] = Reads(definition.bindings[k + 1])
    BY <1>9
  <2> HIDE DEF filled, f, value, b
  <2>2. ASSUME NEW i \in Used(k, "body") PROVE filled.e[Field(i)] = Reads(definition.bindings[i])
    <3>1. Field(i) \in BodySent(k) /\ Field(i) # f
      BY <1>7 DEF BodySent
    <3>. QED  BY <1>1, <1>9, <3>1 DEF Bodied
  <2>3. \A i \in Used(k + 1, "body") : filled.e[Field(i)] = Reads(definition.bindings[i])
    BY <1>3, <2>1, <2>2
  <2>4. Yes \in BOOLEAN /\ (Yes <=> BodySent(k + 1) # {})
    BY <1>4 DEF Yes
  <2>. QED  BY <1>4, <1>9, <2>3, <2>4 DEF Bodied
<1>11. Q!WriteTokens(content, <<f>>, value) = filled
  BY <1>8, WriteOne
<1> HIDE DEF b, out, f, value, filled
<1>12. Q!Bind(r, b, supplied) = Request(out, query, filled, Yes)
  BY <1>1, <1>2, <1>11, BindsBody DEF value
<1>13. Holds(k + 1, Q!Bind(r, b, supplied))
  BY <1>5, <1>6, <1>10, <1>12, Zenon DEF Holds, out
<1>. QED  BY <1>13 DEF b

(* Every binding keeps what is built in order. *)
LEMMA BuiltHolds ==
  ASSUME Ready
  PROVE  LET built == Q!Built(definition, supplied)
         IN  \A k \in 0 .. Len(definition.bindings) : Holds(k, built[k]) \/ Stopped(k, built[k])
<1>1. Usable
  BY ReadyUsable
<1>2. Len(definition.bindings) \in Nat
  BY <1>1, Zenon DEF Usable
<1>3. PICK f : BuiltOf(f)
  BY <1>2, BuiltIs
<1>4. /\ Q!Built(definition, supplied) = f /\ f[0] = Empty
      /\ \A i \in 1 .. Len(definition.bindings) :
           f[i] = Q!Bind(f[i - 1], definition.bindings[i], supplied)
  BY <1>3, Zenon DEF BuiltOf
<1> DEFINE Good(k) == Holds(k, f[k]) \/ Stopped(k, f[k])
           S == {k \in Nat : k <= Len(definition.bindings) => Good(k)}
<1>5. 0 \in S
  <2>1. Depth(operation.path) # 1
    BY DEF Ready, Checked, Placed
  <2>2. Holds(0, f[0])
    BY <1>1, <1>4, <2>1, HoldsEmpty
  <2>. QED  BY <2>2
<1>6. ASSUME NEW k \in Nat, k \in S PROVE k + 1 \in S
  <2> SUFFICES ASSUME k + 1 <= Len(definition.bindings) PROVE Good(k + 1)
    OBVIOUS
  <2> DEFINE b == definition.bindings[k + 1]
  <2>1. k <= Len(definition.bindings) /\ k + 1 \in 1 .. Len(definition.bindings) /\ (k + 1) - 1 = k
    BY <1>2
  <2>2. f[k + 1] = Q!Bind(f[k], b, supplied)
    BY <1>4, <2>1
  <2>3. Good(k)
    BY <1>6, <2>1
  <2>4. b.target \in {"path", "query", "body"}
    BY <1>1, <2>1, Zenon DEF Usable
  <2>5. \A target : Used(k, target) \subseteq Used(k + 1, target)
    BY UsedNext
  <2> HIDE DEF S
  <2>6. CASE Stopped(k, f[k])
    <3>1. f[k].kind # "request"
      BY <2>6 DEF Stopped, Q!Failed
    <3>2. f[k + 1] = f[k]
      BY <2>2, <3>1, BindSkips
    <3>3. Stopped(k + 1, f[k])
      BY <2>5, <2>6 DEF Stopped
    <3>. QED  BY <3>2, <3>3
  <2>7. CASE Holds(k, f[k]) /\ ~Sends(Reads(b))
    <3>1. f[k + 1] = f[k]
      BY <2>2, <2>7, BindSkips
    <3>2. \A target : Used(k + 1, target) = Used(k, target)
      BY <2>7, UsedNext
    <3>3. /\ PathSent(k + 1) = PathSent(k) /\ QuerySent(k + 1) = QuerySent(k)
          /\ BodySent(k + 1) = BodySent(k)
      BY <3>2, Zenon DEF PathSent, QuerySent, BodySent
    <3>4. Holds(k + 1, f[k])
      BY <2>7, <3>2, <3>3, Zenon DEF Holds, Queried, Bodied
    <3>. QED  BY <3>1, <3>4
  <2>8. CASE Holds(k, f[k]) /\ Sends(Reads(b))
    <3>1. CASE b.target = "path"
      BY <1>1, <2>2, <2>8, <3>1, HoldsPath
    <3>2. CASE b.target = "query"
      BY <1>1, <2>2, <2>8, <3>2, HoldsQuery
    <3>3. CASE b.target = "body"
      BY <1>1, <2>2, <2>8, <3>3, HoldsBody
    <3>. QED  BY <2>4, <3>1, <3>2, <3>3
  <2>. QED  BY <2>3, <2>6, <2>7, <2>8
<1> HIDE DEF S, Good
<1>7. Nat \subseteq S
  BY <1>5, <1>6, CountUp
<1>8. \A k \in 0 .. Len(definition.bindings) : Good(k)
  BY <1>2, <1>7 DEF S
<1>. QED  BY <1>4, <1>8 DEF Good

(* ------------------------- What has been sent -------------------------- *)

(* Which bindings a tool has, seen from either side. *)
LEMMA ReadyBinds ==
  ASSUME Ready
  PROVE  LET B == definition.bindings
             ps == Params(operation)
             fs == Fields(operation)
         IN  /\ Len(B) \in Nat
             /\ \A i \in 1 .. Len(B) : B[i].target # "body" =>
                  i \in DOMAIN ps /\ BindsParameter(B[i], ps[i])
             /\ \A i \in 1 .. Len(B) : B[i].target = "body" =>
                  \E j \in DOMAIN fs : BindsField(B[i], fs[j])
             /\ \A i \in DOMAIN ps : i \in 1 .. Len(B) /\ BindsParameter(B[i], ps[i])
             /\ \A j \in DOMAIN fs : \E i \in 1 .. Len(B) : BindsField(B[i], fs[j])
             /\ \A i \in DOMAIN ps : /\ ps[i].in \in {"path", "query"}
                                     /\ ps[i].in = "path" => ps[i].required = "yes"
<1> DEFINE B == Bindings(operation)
           ps == Params(operation)
           fs == Fields(operation)
<1>1. Declared(operation) /\ Checked(operation)
  BY DEF Ready
<1>2. definition.bindings = B
  BY DEF Ready, Converted
<1>3. Bound(operation)
  BY <1>1, OperationBound
<1>4. /\ Len(ps) \in Nat /\ Len(fs) \in Nat /\ Len(B) = Len(ps) + Len(fs)
      /\ DOMAIN B = 1 .. Len(ps) + Len(fs) /\ DOMAIN ps = 1 .. Len(ps) /\ DOMAIN fs = 1 .. Len(fs)
      /\ \A i \in 1 .. Len(ps) : BindsParameter(B[i], ps[i])
      /\ \A j \in 1 .. Len(fs) : BindsField(B[Len(ps) + j], fs[j])
  BY <1>3, Zenon DEF Bound
<1>5. \A i \in DOMAIN B : \/ i \in DOMAIN ps /\ BindsParameter(B[i], ps[i])
                          \/ i - Len(ps) \in DOMAIN fs /\ BindsField(B[i], fs[i - Len(ps)])
  BY <1>3, BindingOf
<1>6. \A i \in DOMAIN ps : /\ ps[i].in \in {"path", "query"}
                           /\ ps[i].in = "path" => ps[i].required = "yes"
  <2>1. \A i \in DOMAIN ps : In(ps[i], operation.itemParameters) \/ In(ps[i], operation.parameters)
    BY <1>1, ParamsDeclared
  <2>2. Parsed(operation.itemParameters) /\ Parsed(operation.parameters)
    BY <1>1 DEF Checked
  <2>3. \A list, e : Parsed(list) /\ In(e, list) =>
                       e.in \in {"path", "query"} /\ (e.in = "path" => e.required = "yes")
    BY Zenon DEF Parsed, In
  <2>. QED  BY <2>1, <2>2, <2>3
<1> HIDE DEF B, ps, fs
<1>7. DOMAIN B = 1 .. Len(B) /\ Len(B) \in Nat
  BY <1>4
<1>8. \A i, j : BindsParameter(B[i], ps[j]) /\ j \in DOMAIN ps => B[i].target # "body"
  <2>1. \A j \in DOMAIN ps : ps[j].in # "body"
    BY <1>6
  <2>. QED  BY <2>1, Zenon DEF BindsParameter
<1>9. \A i, j : BindsField(B[i], fs[j]) => B[i].target = "body"
  BY DEF BindsField
<1>10. \A i \in 1 .. Len(B) : B[i].target # "body" => i \in DOMAIN ps /\ BindsParameter(B[i], ps[i])
  BY <1>5, <1>7, <1>9
<1>11. \A i \in 1 .. Len(B) : B[i].target = "body" => \E j \in DOMAIN fs : BindsField(B[i], fs[j])
  BY <1>5, <1>7, <1>8
<1>12. \A i \in DOMAIN ps : i \in 1 .. Len(B) /\ BindsParameter(B[i], ps[i])
  BY <1>4
<1>13. \A j \in DOMAIN fs : \E i \in 1 .. Len(B) : BindsField(B[i], fs[j])
  <2>1. \A j \in DOMAIN fs : Len(ps) + j \in 1 .. Len(B)
    BY <1>4
  <2>. QED  BY <1>4, <2>1
<1>. QED  BY <1>2, <1>6, <1>7, <1>10, <1>11, <1>12, <1>13 DEF ps, fs

(* The parameters of a location that are sent are those that are supplied. *)
LEMMA SentIsSupplied ==
  ASSUME Ready, NEW target \in {"path", "query"}
  PROVE  LET B == definition.bindings
         IN  /\ \A i \in Used(Len(B), target) :
                  \E p \in Q!Supplied(target) :
                    B[i].name = p.name /\ Reads(B[i]) = supplied.e[p.name]
             /\ \A p \in Q!Supplied(target) :
                  \E i \in Used(Len(B), target) :
                    B[i].name = p.name /\ Reads(B[i]) = supplied.e[p.name]
<1> DEFINE B == definition.bindings
           ps == Params(operation)
<1>1. /\ \A i \in 1 .. Len(B) : B[i].target # "body" =>
           i \in DOMAIN ps /\ BindsParameter(B[i], ps[i])
      /\ \A i \in DOMAIN ps : i \in 1 .. Len(B) /\ BindsParameter(B[i], ps[i])
  BY ReadyBinds, Zenon
<1>2. Q!IsArguments(supplied)
  BY DEF Ready
<1>3. \A p : p \in Q!Supplied(target) <=>
               /\ \E i \in DOMAIN ps : p = ps[i]
               /\ p.in = target /\ p.name \in DOMAIN supplied.e /\ supplied.e[p.name].t # "null"
  BY DEF Q!Supplied, Q!ToSet, Params
<1> HIDE DEF ps
<1>4. \A i \in DOMAIN ps :
        /\ Sends(Reads(B[i])) <=> /\ ps[i].name \in DOMAIN supplied.e
                                  /\ supplied.e[ps[i].name].t # "null"
        /\ Sends(Reads(B[i])) => Reads(B[i]) = supplied.e[ps[i].name]
        /\ B[i].target = ps[i].in /\ B[i].name = ps[i].name
  BY <1>1, <1>2, ParameterReads DEF BindsParameter
<1>5. ASSUME NEW i \in Used(Len(B), target)
      PROVE  \E p \in Q!Supplied(target) : B[i].name = p.name /\ Reads(B[i]) = supplied.e[p.name]
  <2>1. i \in 1 .. Len(B) /\ B[i].target = target /\ Sends(Reads(B[i]))
    BY DEF Used
  <2>2. i \in DOMAIN ps
    BY <1>1, <2>1
  <2>3. ps[i] \in Q!Supplied(target)
    BY <1>3, <1>4, <2>1, <2>2
  <2>. QED  BY <1>4, <2>1, <2>2, <2>3
<1>6. ASSUME NEW p \in Q!Supplied(target)
      PROVE  \E i \in Used(Len(B), target) : B[i].name = p.name /\ Reads(B[i]) = supplied.e[p.name]
  <2>1. PICK i \in DOMAIN ps : p = ps[i]
    BY <1>3
  <2>2. Sends(Reads(B[i])) /\ B[i].target = target
    BY <1>3, <1>4, <2>1
  <2>3. i \in Used(Len(B), target)
    BY <1>1, <2>2 DEF Used
  <2>. QED  BY <1>4, <2>1, <2>2, <2>3
<1>. QED  BY <1>5, <1>6

(* The arguments of the path are there, and sent unless they are null.     *)
LEMMA PathSentIs ==
  ASSUME Ready
  PROVE  LET names == PathSent(Len(definition.bindings))
         IN  /\ Values(names)
             /\ \A n : In(n, Found(operation.path)) =>
                  /\ n \in definition.required /\ n \in DOMAIN supplied.e
                  /\ n \in names <=> supplied.e[n].t # "null"
<1> DEFINE B == definition.bindings
           ps == Params(operation)
           names == PathSent(Len(B))
<1>1. \A i \in DOMAIN ps : ps[i].in = "path" => ps[i].required = "yes"
  BY ReadyBinds, Zenon
<1>2. /\ \A i \in Used(Len(B), "path") :
           \E p \in Q!Supplied("path") : B[i].name = p.name /\ Reads(B[i]) = supplied.e[p.name]
      /\ \A p \in Q!Supplied("path") : \E i \in Used(Len(B), "path") : B[i].name = p.name
  <2>1. "path" \in {"path", "query"}
    OBVIOUS
  <2>. QED  BY <2>1, SentIsSupplied
<1>3. \A n : n \in names <=> \E p \in Q!Supplied("path") : n = p.name
  BY <1>2 DEF PathSent
<1>4. \A p : p \in Q!Supplied("path") <=>
               /\ \E i \in DOMAIN ps : p = ps[i]
               /\ p.in = "path" /\ p.name \in DOMAIN supplied.e /\ supplied.e[p.name].t # "null"
  BY DEF Q!Supplied, Q!ToSet, Params
<1>5. \A n \in DOMAIN supplied.e : supplied.e[n].s \in Texts
  BY SuppliedIs DEF Ready
<1>6. Placed(operation.path, ps) /\ definition.required = Q!Required(ps, operation.body)
  BY DEF Ready, Checked, Converted
<1>7. definition.required \subseteq DOMAIN supplied.e
  BY DEF Ready, Q!ValidateArguments
<1> HIDE DEF names
<1>8. Values(names)
  BY <1>3, <1>4, <1>5 DEF Values
<1>9. ASSUME NEW n, In(n, Found(operation.path))
      PROVE  n \in definition.required /\ (n \in names <=> supplied.e[n].t # "null")
  <2>1. PICK i \in DOMAIN ps : ps[i].in = "path" /\ ps[i].name = n
    BY <1>6, <1>9 DEF Placed, PathNames
  <2>2. ps[i].required = "yes" /\ ps[i] \in Q!ToSet(ps)
    BY <1>1, <2>1 DEF Q!ToSet
  <2>3. n \in definition.required
    BY <1>6, <2>1, <2>2 DEF Q!Required
  <2>4. n \in DOMAIN supplied.e
    BY <1>7, <2>3
  <2>5. n \in names => supplied.e[n].t # "null"
    BY <1>3, <1>4
  <2>6. supplied.e[n].t # "null" => n \in names
    BY <1>3, <1>4, <2>1, <2>4
  <2>. QED  BY <2>3, <2>5, <2>6
<1>10. \A n : n \in definition.required => n \in DOMAIN supplied.e
  BY <1>7
<1>. QED  BY <1>8, <1>9, <1>10 DEF names

(* The body that is supplied, if one is, has the fields that the schema    *)
(* declares.                                                               *)
LEMMA BodySupplied ==
  ASSUME Ready
  PROVE  LET content == At(supplied, BodyArgument)
         IN  /\ Q!ReadPointer(supplied, <<Slash>> \o BodyArgument) = content
             /\ content.t = "object" =>
                  /\ BodyArgument \in DOMAIN supplied.e /\ content = supplied.e[BodyArgument]
                  /\ \A m \in DOMAIN content.e : content.e[m].t # "absent"
                  /\ operation.body.shape # "absent" => \A m \in DOMAIN content.e :
                       \E j \in DOMAIN Fields(operation) : Fields(operation)[j].name = m
<1> DEFINE content == At(supplied, BodyArgument)
           schema == definition.properties[BodyArgument]
<1>1. /\ BodyArgument \in Texts /\ Slashless(BodyArgument)
      /\ \A k \in DOMAIN BodyArgument : BodyArgument[k] # Tilde
  BY BodyArgumentIs
<1>2. Q!Tokens(OnePointer(BodyArgument)) = <<BodyArgument>>
  BY <1>1, PointersRead
<1>3. Q!ReadPointer(supplied, <<Slash>> \o BodyArgument) = content
  <2>1. <<Slash>> \o BodyArgument = OnePointer(BodyArgument)
    BY Zenon DEF OnePointer
  <2>. QED  BY <1>2, <2>1, ReadOne, Zenon DEF Q!ReadPointer
<1>4. ASSUME content.t = "object"
      PROVE  /\ BodyArgument \in DOMAIN supplied.e /\ content = supplied.e[BodyArgument]
             /\ \A m \in DOMAIN content.e : content.e[m].t # "absent"
  <2>1. Q!Absent.t = "absent"
    BY DEF Q!Absent
  <2>2. BodyArgument \in DOMAIN supplied.e /\ content = supplied.e[BodyArgument]
    BY <1>4, <2>1 DEF At
  <2>3. \A n \in DOMAIN supplied.e :
          \A m \in DOMAIN supplied.e[n].e : supplied.e[n].e[m].t # "absent"
    BY SuppliedIs DEF Ready
  <2>. QED  BY <2>2, <2>3
<1>5. ASSUME content.t = "object", operation.body.shape # "absent"
      PROVE  \A m \in DOMAIN content.e :
               \E j \in DOMAIN Fields(operation) : Fields(operation)[j].name = m
  <2>1. content = supplied.e[BodyArgument] /\ BodyArgument \in DOMAIN supplied.e
    BY <1>4, <1>5
  <2>2. Q!Accepts(schema, content)
    BY <2>1 DEF Ready, Q!ValidateArguments
  <2>3. Declared(operation) /\ Checked(operation)
        /\ definition.properties = Q!Properties(Params(operation), operation.body)
    BY DEF Ready, Converted
  <2>4. schema = operation.body.schema /\ operation.body.schema.type = "object"
    BY <1>5, <2>3, PropertiesAre DEF Checked
  <2>5. Fields(operation) = schema.fields
    BY <1>5, <2>4 DEF Fields
  <2> HIDE DEF content, schema
  <2>6. DOMAIN content.e \subseteq {f.name : f \in Q!ToSet(schema.fields)}
    BY <1>5, <2>2, <2>4 DEF Q!Accepts
  <2>. QED  BY <2>5, <2>6 DEF Q!ToSet
<1>. QED  BY <1>3, <1>4, <1>5

(* The fields that are sent are those that are supplied, with their values. *)
LEMMA BodySentIs ==
  ASSUME Ready
  PROVE  LET B == definition.bindings
         IN  /\ BodySent(Len(B)) = Q!SuppliedFields
             /\ \A i \in Used(Len(B), "body") : Reads(B[i]) = supplied.e[BodyArgument].e[Field(i)]
<1> DEFINE B == definition.bindings
           fs == Fields(operation)
           content == At(supplied, BodyArgument)
<1>1. /\ \A i \in 1 .. Len(B) : B[i].target = "body" => \E j \in DOMAIN fs : BindsField(B[i], fs[j])
      /\ \A j \in DOMAIN fs : \E i \in 1 .. Len(B) : BindsField(B[i], fs[j])
  BY ReadyBinds, Zenon
<1>2. /\ Q!ReadPointer(supplied, <<Slash>> \o BodyArgument) = content
      /\ content.t = "object" =>
           /\ BodyArgument \in DOMAIN supplied.e /\ content = supplied.e[BodyArgument]
           /\ \A m \in DOMAIN content.e : content.e[m].t # "absent"
           /\ operation.body.shape # "absent" =>
                \A m \in DOMAIN content.e : \E j \in DOMAIN fs : fs[j].name = m
  BY BodySupplied, Zenon
<1>3. Q!SuppliedFields =
        IF operation.body.shape = "absent" \/ content.t # "object" THEN {}
        ELSE {n \in DOMAIN content.e : content.e[n].t # "null"}
  BY <1>2, Zenon DEF Q!SuppliedFields, Slash
<1>4. ASSUME NEW i, NEW f, BindsField(B[i], f)
      PROVE  Reads(B[i]) = At(content, f.name) /\ Field(i) = f.name
  BY <1>4, FieldReads DEF BindsField, Field
<1>5. \A i \in Used(Len(B), "body") :
        /\ i \in 1 .. Len(B) /\ Sends(Reads(B[i]))
        /\ \E j \in DOMAIN fs : BindsField(B[i], fs[j])
  BY <1>1 DEF Used
<1>6. BodySent(Len(B)) = {Field(i) : i \in Used(Len(B), "body")}
  BY DEF BodySent
<1>7. operation.body.shape = "absent" => DOMAIN fs = {}
  BY DEF Fields
<1> HIDE DEF content, fs
<1>8. CASE operation.body.shape = "absent" \/ content.t # "object"
  <2>1. Used(Len(B), "body") = {}
    <3>1. CASE operation.body.shape = "absent"
      BY <1>5, <1>7, <3>1
    <3>2. CASE content.t # "object"
      BY <1>4, <1>5, <3>2, SentOfNone
    <3>. QED  BY <1>8, <3>1, <3>2
  <2>. QED  BY <1>3, <1>6, <1>8, <2>1
<1>9. CASE operation.body.shape # "absent" /\ content.t = "object"
  <2>1. \A n : n \in Q!SuppliedFields <=> n \in DOMAIN content.e /\ content.e[n].t # "null"
    BY <1>3, <1>9
  <2>2. \A x : /\ Sends(At(content, x)) <=> x \in DOMAIN content.e /\ content.e[x].t # "null"
               /\ Sends(At(content, x)) => At(content, x) = content.e[x]
    BY <1>2, <1>9, SentAt
  <2>3. ASSUME NEW i \in Used(Len(B), "body")
        PROVE  Field(i) \in Q!SuppliedFields /\ Reads(B[i]) = content.e[Field(i)]
    <3>1. PICK j \in DOMAIN fs : BindsField(B[i], fs[j])
      BY <1>5
    <3>2. Reads(B[i]) = At(content, fs[j].name) /\ Field(i) = fs[j].name
      BY <1>4, <3>1
    <3>. QED  BY <1>5, <2>1, <2>2, <3>2
  <2>4. ASSUME NEW n \in Q!SuppliedFields PROVE \E i \in Used(Len(B), "body") : Field(i) = n
    <3>1. PICK j \in DOMAIN fs : fs[j].name = n
      BY <1>2, <1>9, <2>1
    <3>2. PICK i \in 1 .. Len(B) : BindsField(B[i], fs[j])
      BY <1>1
    <3>3. Reads(B[i]) = At(content, n) /\ Field(i) = n /\ B[i].target = "body"
      BY <1>4, <3>1, <3>2 DEF BindsField
    <3>4. Sends(Reads(B[i]))
      BY <2>1, <2>2, <3>3
    <3>. QED  BY <3>3, <3>4 DEF Used
  <2>5. BodySent(Len(B)) = Q!SuppliedFields
    BY <1>6, <2>3, <2>4
  <2>. QED  BY <1>2, <1>9, <2>3, <2>5
<1>. QED  BY <1>8, <1>9

(* A text with a brace in it is one that prepare_request refuses.          *)
LEMMA PreparedIs ==
  LET b == Q!Built(definition, supplied)[Len(definition.bindings)]
  IN  Q!PrepareRequest(definition, supplied) =
        IF b.kind = "request" /\ ~Plain(b.path) THEN Q!Failed("unfilled") ELSE b
<1> DEFINE b == Q!Built(definition, supplied)[Len(definition.bindings)]
           braced == Q!ToSet(b.path) \cap {"{", "}"} # {}
<1>1. Q!PrepareRequest(definition, supplied) =
        IF b.kind = "request" /\ braced THEN Q!Failed("unfilled") ELSE b
  BY Zenon DEF Q!PrepareRequest
<1>2. braced <=> ~Plain(b.path)
  <2>1. \A path : Q!ToSet(path) \cap {Open, Close} # {} <=> ~Plain(path)
    BY DEF Q!ToSet, Plain
  <2>. QED  BY <2>1, Zenon DEF Open, Close
<1> HIDE DEF braced, b
<1>3. Q!PrepareRequest(definition, supplied) =
        IF b.kind = "request" /\ ~Plain(b.path) THEN Q!Failed("unfilled") ELSE b
  BY <1>1, <1>2, Zenon
<1>. QED  BY <1>3 DEF b

(* What is prepared holds what the calls before it leave. *)
LEMMA PreparedFaithful ==
  ASSUME Ready, prepared = Q!PrepareRequest(definition, supplied)
  PROVE  Q!RequestFaithful
<1> DEFINE B == definition.bindings
           b == Q!Built(definition, supplied)[Len(B)]
           names == PathSent(Len(B))
<1> SUFFICES ASSUME prepared.kind = "request" PROVE Q!RequestFaithful
  BY Zenon DEF Q!RequestFaithful
<1>1. Q!Failed("unfilled").kind = "unfilled" /\ Q!Failed("not_scalar").kind = "not_scalar"
  BY DEF Q!Failed
<1>2. Q!PrepareRequest(definition, supplied) =
        IF b.kind = "request" /\ ~Plain(b.path) THEN Q!Failed("unfilled") ELSE b
  BY PreparedIs, Zenon
<1>3. prepared = b /\ Plain(b.path)
  <2> HIDE DEF b
  <2>. QED  BY <1>1, <1>2
<1>4. Len(B) \in 0 .. Len(B)
  BY ReadyBinds
<1>5. Holds(Len(B), b)
  <2>1. Holds(Len(B), b) \/ Stopped(Len(B), b)
    BY <1>4, BuiltHolds
  <2>2. b.kind = "request"
    BY <1>3
  <2> HIDE DEF b
  <2>. QED  BY <1>1, <2>1, <2>2 DEF Stopped
<1>6. PICK query, content, has :
        /\ b = Request(Out(operation.path, names), query, content, has)
        /\ Queried(Len(B), query) /\ Bodied(Len(B), content, has)
  BY <1>5, Zenon DEF Holds
<1> HIDE DEF b
<1>7. /\ prepared.path = Out(operation.path, names) /\ prepared.query = query
      /\ prepared.headers = <<>> /\ prepared.body = content /\ prepared.hasBody = has
  BY <1>3, <1>6 DEF Request
<1>8. /\ Values(names)
      /\ \A n : In(n, Found(operation.path)) =>
           /\ n \in DOMAIN supplied.e
           /\ n \in names <=> supplied.e[n].t # "null"
  BY PathSentIs
<1>9. operation.path \in Texts /\ Sound(operation.path)
  BY ReadyUsable, Zenon DEF Usable
<1>10. prepared.path = Q!Filled(operation.path, DOMAIN supplied.e)
  <2>1. \A n : In(n, Found(operation.path)) => n \in names
    BY <1>3, <1>7, <1>8, <1>9, FillPlain
  <2>2. \A n : In(n, Found(operation.path)) => (n \in names <=> n \in DOMAIN supplied.e)
    BY <1>8, <2>1
  <2> HIDE DEF names
  <2>3. Out(operation.path, names) = Out(operation.path, DOMAIN supplied.e)
    BY <1>9, <2>2, FillSame
  <2>4. Q!Filled(operation.path, DOMAIN supplied.e) = Out(operation.path, DOMAIN supplied.e)
    BY Zenon DEF Q!Filled, Out
  <2>. QED  BY <1>7, <2>3, <2>4
<1>11. Q!ToSet(prepared.query) = {<<p.name, supplied.e[p.name].s>> : p \in Q!Supplied("query")}
  <2>1. /\ \A i \in Used(Len(B), "query") : \E p \in Q!Supplied("query") :
             B[i].name = p.name /\ Reads(B[i]) = supplied.e[p.name]
        /\ \A p \in Q!Supplied("query") : \E i \in Used(Len(B), "query") :
             B[i].name = p.name /\ Reads(B[i]) = supplied.e[p.name]
    <3>1. "query" \in {"path", "query"}
      OBVIOUS
    <3>. QED  BY <3>1, SentIsSupplied
  <2>2. QuerySent(Len(B)) = {<<p.name, supplied.e[p.name].s>> : p \in Q!Supplied("query")}
    BY <2>1 DEF QuerySent
  <2>3. \A x : In(x, query) <=> x \in QuerySent(Len(B))
    BY <1>6 DEF Queried
  <2>4. Q!ToSet(query) = QuerySent(Len(B))
    BY <2>3 DEF In, Q!ToSet
  <2>. QED  BY <1>7, <2>2, <2>4
<1>12. \A i, j \in DOMAIN prepared.query : prepared.query[i][1] = prepared.query[j][1] => i = j
  BY <1>6, <1>7 DEF Queried
<1>13. /\ BodySent(Len(B)) = Q!SuppliedFields
       /\ \A i \in Used(Len(B), "body") : Reads(B[i]) = supplied.e[BodyArgument].e[Field(i)]
  BY BodySentIs, Zenon
<1>14. /\ DOMAIN prepared.body.e = Q!SuppliedFields
       /\ prepared.hasBody <=> Q!SuppliedFields # {}
  BY <1>6, <1>7, <1>13 DEF Bodied
<1>15. \A n \in Q!SuppliedFields : prepared.body.e[n] = supplied.e[BodyArgument].e[n]
  <2>1. \A n \in Q!SuppliedFields : \E i \in Used(Len(B), "body") : n = Field(i)
    BY <1>13 DEF BodySent
  <2>2. \A i \in Used(Len(B), "body") : content.e[Field(i)] = Reads(B[i])
    BY <1>6 DEF Bodied
  <2>. QED  BY <1>7, <1>13, <2>1, <2>2
<1>. QED  BY <1>7, <1>10, <1>11, <1>12, <1>14, <1>15, Zenon DEF Q!RequestFaithful

(* And what is refused is refused for a reason. *)
LEMMA PreparedExplained ==
  ASSUME Ready, prepared = Q!PrepareRequest(definition, supplied)
  PROVE  Q!RefusalExplained
<1> DEFINE B == definition.bindings
           b == Q!Built(definition, supplied)[Len(B)]
           names == PathSent(Len(B))
<1>1. /\ Q!Failed("unfilled").kind = "unfilled" /\ Q!Failed("not_scalar").kind = "not_scalar"
  BY DEF Q!Failed
<1>2. Q!PrepareRequest(definition, supplied) =
        IF b.kind = "request" /\ ~Plain(b.path) THEN Q!Failed("unfilled") ELSE b
  BY PreparedIs, Zenon
<1>3. Len(B) \in 0 .. Len(B)
  BY ReadyBinds
<1>4. Holds(Len(B), b) \/ Stopped(Len(B), b)
  BY <1>3, BuiltHolds
<1> HIDE DEF b
<1>5. CASE Stopped(Len(B), b)
  <2>1. b = Q!Failed("not_scalar")
    BY <1>5 DEF Stopped
  <2>2. PICK i \in Used(Len(B), "path") \cup Used(Len(B), "query") : ~Q!IsScalar(Reads(B[i]))
    BY <1>5 DEF Stopped
  <2>3. \A target \in {"path", "query"} : \A k \in Used(Len(B), target) :
          \E p \in Q!Supplied(target) : Reads(B[k]) = supplied.e[p.name]
    BY SentIsSupplied
  <2>4. \E p \in Q!Supplied("path") \cup Q!Supplied("query") : Reads(B[i]) = supplied.e[p.name]
    BY <2>3
  <2>5. \E p \in Q!Supplied("path") \cup Q!Supplied("query") : ~Q!IsScalar(supplied.e[p.name])
    BY <2>2, <2>4, Zenon
  <2>6. prepared.kind = "not_scalar"
    BY <1>1, <1>2, <2>1
  <2>. QED  BY <2>5, <2>6, Zenon DEF Q!RefusalExplained
<1>6. CASE Holds(Len(B), b)
  <2>1. PICK query, content, has :
          b = Request(Out(operation.path, names), query, content, has)
    BY <1>6, Zenon DEF Holds
  <2>2. b.kind = "request" /\ b.path = Out(operation.path, names)
    BY <2>1 DEF Request
  <2>3. CASE Plain(b.path)
    <3>1. prepared.kind = "request"
      BY <1>2, <2>2, <2>3
    <3>. QED  BY <3>1 DEF Q!RefusalExplained
  <2>4. CASE ~Plain(b.path)
    <3>1. /\ Values(names)
          /\ \A n : In(n, Found(operation.path)) =>
               n \in definition.required /\ (n \in names <=> supplied.e[n].t # "null")
      BY PathSentIs
    <3>2. operation.path \in Texts /\ Sound(operation.path)
      BY ReadyUsable, Zenon DEF Usable
    <3>3. \E n : In(n, Found(operation.path)) /\ n \notin names
      BY <2>2, <2>4, <3>1, <3>2, FillPlain
    <3>4. \E n \in definition.required : supplied.e[n].t = "null"
      BY <3>1, <3>3
    <3>5. prepared.kind = "unfilled"
      BY <1>1, <1>2, <2>2, <2>4
    <3>. QED  BY <3>4, <3>5, Zenon DEF Q!RefusalExplained
  <2>. QED  BY <2>3, <2>4
<1>. QED  BY <1>4, <1>5, <1>6

(* --------------------- The steps of a call's life ---------------------- *)

(* A tool is what convert_operation made of the operation; arguments that  *)
(* validate_arguments refuses go no further, and what is prepared is made  *)
(* of those that it lets through.                                          *)
RequestsInv ==
  /\ operation \in SourceOperations
  /\ definition = Q!Pending \/ definition = Q!ConvertOperation(operation)
  /\ \/ supplied = Q!Absent /\ prepared = Q!Pending
     \/ /\ definition.kind = "tool" /\ Q!IsArguments(supplied)
        /\ \/ prepared = Q!Failed("refused")
           \/ /\ Q!ValidateArguments(definition, supplied)
              /\ \/ prepared = Q!Pending
                 \/ prepared = Q!PrepareRequest(definition, supplied)

(* A tool is one that convert_operation found no fault with. *)
LEMMA ToolIsChecked ==
  ASSUME RequestsInv, definition.kind = "tool"
  PROVE  Declared(operation) /\ Checked(operation) /\ Converted(operation, definition)
<1>1. Q!IsOperation(operation)
  <2>1. \A op \in SourceOperations : Q!IsOperation(op)
    BY PerimeterAssumption, Zenon DEF PerimeterAssumption, Q!RequestsAssumption
  <2>. QED  BY <2>1 DEF RequestsInv
<1>2. Declared(operation)
  BY <1>1, OperationDeclared
<1>3. definition = Q!ConvertOperation(operation)
  <2>1. Q!Pending.kind = "pending"
    BY DEF Q!Pending
  <2>. QED  BY <2>1 DEF RequestsInv
<1>. QED  BY <1>2, <1>3, ConvertSound

(* Convert, Validate and Prepare keep it. *)
LEMMA RequestsKeep == ASSUME RequestsInv, [Q!Next]_(Q!vars) PROVE RequestsInv'
<1>1. Q!Pending.kind = "pending" /\ Q!Failed("refused").kind = "refused"
  BY DEF Q!Pending, Q!Failed
<1>2. CASE Q!Convert
  <2>1. /\ definition = Q!Pending /\ definition' = Q!ConvertOperation(operation)
        /\ operation' = operation /\ supplied' = supplied /\ prepared' = prepared
    BY <1>2, Zenon DEF Q!Convert
  <2>2. definition.kind # "tool"
    BY <1>1, <2>1
  <2>. QED  BY <2>1, <2>2, Zenon DEF RequestsInv
<1>3. ASSUME definition.kind = "tool", NEW arguments, NEW large \in BOOLEAN,
             Q!Validate(arguments, large)
      PROVE  RequestsInv'
  <2>1. /\ Q!IsArguments(arguments) /\ supplied' = arguments
        /\ operation' = operation /\ definition' = definition
        /\ prepared' = IF ~large /\ Q!ValidateArguments(definition, arguments) THEN Q!Pending
                       ELSE Q!Failed("refused")
    BY <1>3, Zenon DEF Q!Validate
  <2>. QED  BY <1>3, <2>1, Zenon DEF RequestsInv
<1>4. CASE Q!Prepare
  <2>1. /\ supplied # Q!Absent /\ prepared = Q!Pending
        /\ prepared' = Q!PrepareRequest(definition, supplied)
        /\ operation' = operation /\ definition' = definition /\ supplied' = supplied
    BY <1>4, Zenon DEF Q!Prepare
  <2>2. prepared # Q!Failed("refused")
    BY <1>1, <2>1
  <2>. QED  BY <2>1, <2>2, Zenon DEF RequestsInv
<1>5. CASE UNCHANGED Q!vars
  <2>1. /\ operation' = operation /\ definition' = definition
        /\ supplied' = supplied /\ prepared' = prepared
    BY <1>5, Zenon DEF Q!vars
  <2>. QED  BY <2>1, Zenon DEF RequestsInv
<1>. QED  BY <1>2, <1>3, <1>4, <1>5, Zenon DEF Q!Next

(* And it is what RequestsFaithful is about. *)
LEMMA RequestsFollow ==
  ASSUME RequestsInv
  PROVE  /\ Q!EveryArgumentBoundOnce /\ Q!OperationOverrides
         /\ Q!RequestFaithful /\ Q!RefusalExplained
<1>1. Q!Pending.kind = "pending" /\ Q!Failed("refused").kind = "refused"
  BY DEF Q!Pending, Q!Failed
<1>2. Q!EveryArgumentBoundOnce /\ Q!OperationOverrides
  <2>1. CASE definition.kind = "tool"
    BY <2>1, ToolIsChecked, BoundOnce, OwnCounts
  <2>2. CASE definition.kind # "tool"
    BY <2>2, Zenon DEF Q!EveryArgumentBoundOnce, Q!OperationOverrides
  <2>. QED  BY <2>1, <2>2
<1>3. CASE prepared = Q!Pending \/ prepared = Q!Failed("refused")
  <2>1. prepared.kind \in {"pending", "refused"}
    BY <1>1, <1>3
  <2>2. prepared.kind # "request"
    BY <2>1
  <2>3. Q!RequestFaithful
    BY <2>2, Zenon DEF Q!RequestFaithful
  <2>4. prepared.kind \in {"pending", "refused", "request"}
    BY <2>1
  <2>5. Q!RefusalExplained
    BY <2>4, Zenon DEF Q!RefusalExplained
  <2>. QED  BY <1>2, <2>3, <2>5
<1>4. CASE prepared # Q!Pending /\ prepared # Q!Failed("refused")
  <2>1. /\ definition.kind = "tool" /\ Q!IsArguments(supplied)
        /\ Q!ValidateArguments(definition, supplied)
        /\ prepared = Q!PrepareRequest(definition, supplied)
    BY <1>4, Zenon DEF RequestsInv
  <2>2. Ready
    BY <2>1, ToolIsChecked DEF Ready
  <2>. QED  BY <1>2, <2>1, <2>2, PreparedFaithful, PreparedExplained
<1>. QED  BY <1>3, <1>4

(* The inductive invariant of requests holds. *)
LEMMA RequestsAlways ==
  Q!Spec => [](Q!EveryArgumentBoundOnce /\ Q!OperationOverrides
                 /\ Q!RequestFaithful /\ Q!RefusalExplained)
<1>1. Q!Init => RequestsInv
  BY Zenon DEF Q!Init, RequestsInv
<1>2. RequestsInv /\ [Q!Next]_(Q!vars) => RequestsInv'
  BY RequestsKeep
<1>3. RequestsInv => Q!EveryArgumentBoundOnce /\ Q!OperationOverrides
                       /\ Q!RequestFaithful /\ Q!RefusalExplained
  BY RequestsFollow
<1>. QED  BY <1>1, <1>2, <1>3, PTL DEF Q!Spec

(* Which part a behaviour follows does not change. *)
LEMMA PartStays == [PerimeterNext]_perimeterVars => part' = part
BY Zenon DEF PerimeterNext, perimeterVars

(* For every document and every call: convert_operation binds every        *)
(* argument once, by the operation's own declaration; prepare_request puts *)
(* each supplied argument in its own place with its own value and nothing  *)
(* else anywhere, and refuses a valid call only for a value that is not    *)
(* scalar or a null in the path.                                           *)
THEOREM RequestsAreFaithful == PerimeterSpec => []RequestsFaithful
<1>1. PerimeterInit /\ part = "prepare" => Q!Init
  BY Zenon DEF PerimeterInit
<1>2. [PerimeterNext]_perimeterVars /\ part = "prepare" => [Q!Next]_(Q!vars)
  BY Zenon DEF PerimeterNext, perimeterVars, requestVars, Q!vars
<1>3. part = "prepare" /\ part' = part => (part = "prepare")'
  OBVIOUS
<1>4. ~(part = "prepare") /\ part' = part => (~(part = "prepare"))'
  OBVIOUS
<1>5. /\ Q!EveryArgumentBoundOnce /\ Q!OperationOverrides
           /\ Q!RequestFaithful /\ Q!RefusalExplained => RequestsFaithful
      /\ ~(part = "prepare") => RequestsFaithful
  BY Zenon DEF RequestsFaithful
<1>6. Q!Spec => [](Q!EveryArgumentBoundOnce /\ Q!OperationOverrides
                     /\ Q!RequestFaithful /\ Q!RefusalExplained)
  BY RequestsAlways
<1>. QED  BY <1>1, <1>2, <1>3, <1>4, <1>5, <1>6, PartStays, PTL DEF PerimeterSpec, Q!Spec
=============================================================================
