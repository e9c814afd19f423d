------------------------------ MODULE Transport ------------------------------
(***************************************************************************)
(* One governed call on the wire: HttpxTransport.send and the checks that  *)
(* ToolExecutor.execute makes on what it returns                           *)
(* (toollayer_policy/executor.py).                                         *)
(*                                                                         *)
(* The upstream decides everything it can: the status, whether it declares *)
(* a length and whether that is true, how many bytes each read yields, and *)
(* whether the body ends, stalls or breaks off.  httpx is modelled by what *)
(* the code relies on: iter_bytes yields nonempty pieces of at most the    *)
(* chunk size, and every wait is ended by a timeout.  Bytes are counted as *)
(* iter_bytes yields them, which is after it decompresses.                 *)
(***************************************************************************)
EXTENDS Integers

CONSTANTS
  MaxResponseBytes,   \* limits.max_response_bytes
  ChunkBytes,         \* _CHUNK_BYTES
  MaxDeclared         \* bound: the largest Content-Length an upstream declares

ASSUME LimitsAssumption ==
  /\ MaxResponseBytes \in Nat \ {0}
  /\ ChunkBytes \in Nat \ {0}
  /\ MaxDeclared \in Nat

VARIABLES
  pc,          \* "ready", "sent", "reading", "returned", "done"
  status,      \* the kind of status code: "ok", "redirect", "error", or "none"
  declared,    \* Content-Length, or -1 if it is absent or not a number
  collected,   \* len(collected)
  body,        \* the length of what send returned
  verdict,     \* what execute did
  arrived,     \* history: body bytes that iter_bytes has yielded
  ended,       \* history: the upstream finished its body
  calls        \* history: requests that left this process

vars == <<pc, status, declared, collected, body, verdict, arrived, ended, calls>>

Statuses == {"ok", "redirect", "error"}

Verdicts ==
  {"none", "succeeded", "upstream_error", "redirect_not_allowed", "response_too_large",
   "upstream_timeout", "upstream_unavailable"}

(* Mutant: the ceiling is the limit itself. *)
Ceiling_AtLimit == MaxResponseBytes

(* One byte past the limit is enough to detect the overrun. *)
Ceiling == MaxResponseBytes + 1

Init ==
  /\ pc = "ready"
  /\ status = "none"
  /\ declared = -1
  /\ collected = 0
  /\ body = 0
  /\ verdict = "none"
  /\ arrived = 0
  /\ ended = FALSE
  /\ calls = 0

(* client.stream opens the connection and sends the request. *)
Send ==
  /\ pc = "ready"
  /\ pc' = "sent"
  /\ calls' = calls + 1
  /\ UNCHANGED <<status, declared, collected, body, verdict, arrived, ended>>

(* Mutant: a declared length at the limit is refused too. *)
DeclaredLengthExceeds_AtLimit(length) == length >= MaxResponseBytes

(* _declared_length_exceeds *)
DeclaredLengthExceeds(length) == length > MaxResponseBytes

(* The response's status and headers. *)
Respond(code, length) ==
  /\ pc = "sent"
  /\ status' = code
  /\ declared' = length
  /\ IF DeclaredLengthExceeds(length)
     THEN pc' = "done" /\ verdict' = "response_too_large"
     ELSE pc' = "reading" /\ UNCHANGED verdict
  /\ UNCHANGED <<collected, body, arrived, ended, calls>>

(* Mutant: the length is only looked at when the body has ended. *)
Read_Unbounded(n) ==
  /\ pc = "reading"
  /\ arrived < MaxResponseBytes + 2 * ChunkBytes
  /\ arrived' = arrived + n
  /\ collected' = collected + n
  /\ UNCHANGED <<pc, status, declared, body, verdict, ended, calls>>

(* Mutant: what is past the ceiling is dropped, and the loop goes on. *)
Read_GoesOn(n) ==
  /\ pc = "reading"
  /\ collected' = IF collected + n >= Ceiling THEN 0 ELSE collected + n
  /\ arrived' = collected'
  /\ UNCHANGED <<pc, status, declared, body, verdict, ended, calls>>

(* One turn of the loop: a piece of n bytes.  At the ceiling the rest is   *)
(* cut off, and send returns with the body still open.                     *)
Read(n) ==
  /\ pc = "reading"
  /\ arrived' = arrived + n
  /\ IF collected + n >= Ceiling
     THEN pc' = "returned" /\ collected' = Ceiling /\ body' = Ceiling
     ELSE collected' = collected + n /\ UNCHANGED <<pc, body>>
  /\ UNCHANGED <<status, declared, verdict, ended, calls>>

(* The body is over, and send returns all of it. *)
EndOfBody ==
  /\ pc = "reading"
  /\ pc' = "returned"
  /\ body' = collected
  /\ ended' = TRUE
  /\ UNCHANGED <<status, declared, collected, verdict, arrived, calls>>

(* Mutant: what failed is sent again. *)
Break_Retries(kind) ==
  /\ pc \in {"sent", "reading"}
  /\ calls < 2
  /\ pc' = "ready"
  /\ UNCHANGED <<status, declared, collected, body, verdict, arrived, ended, calls>>

(* httpx raises, while connecting, waiting or reading; retries are off. *)
Break(kind) ==
  /\ pc \in {"sent", "reading"}
  /\ pc' = "done"
  /\ verdict' = kind
  /\ UNCHANGED <<status, declared, collected, body, arrived, ended, calls>>

(* What execute makes of what send returned. *)
Judgement ==
  IF status = "redirect" THEN "redirect_not_allowed"
  ELSE IF body > MaxResponseBytes THEN "response_too_large"
  ELSE IF status = "ok" THEN "succeeded" ELSE "upstream_error"

Judge ==
  /\ pc = "returned"
  /\ pc' = "done"
  /\ verdict' = Judgement
  /\ UNCHANGED <<status, declared, collected, body, arrived, ended, calls>>

Next ==
  \/ Send
  \/ \E code \in Statuses, length \in -1..MaxDeclared : Respond(code, length)
  \/ \E n \in 1..ChunkBytes : Read(n)
  \/ EndOfBody
  \/ \E kind \in {"upstream_timeout", "upstream_unavailable"} : Break(kind)
  \/ Judge

Spec == Init /\ [][Next]_vars

(* The code runs on, and every wait of httpx ends in bytes, in the end of  *)
(* the body or in a timeout.                                               *)
FairSpec == Spec /\ WF_vars(Next)

-----------------------------------------------------------------------------
(* Every variable holds a value of its kind. *)
TypeOK ==
  /\ pc \in {"ready", "sent", "reading", "returned", "done"}
  /\ status \in Statuses \cup {"none"}
  /\ declared \in -1..MaxDeclared
  /\ collected \in Nat
  /\ body \in Nat
  /\ verdict \in Verdicts
  /\ arrived \in Nat
  /\ ended \in BOOLEAN
  /\ calls \in Nat

(* "Nothing beyond that is ever collected, so the peak ... is the limit    *)
(* plus one chunk" (executor.py): the upstream never makes the loop take   *)
(* more, whatever it declared.                                             *)
IntakeBounded ==
  /\ arrived <= MaxResponseBytes + ChunkBytes
  /\ collected <= Ceiling

(* A result is the whole body and nothing but the body: what was cut off   *)
(* at the ceiling is never passed on as if it were complete.               *)
ResultsComplete ==
  verdict \in {"succeeded", "upstream_error"} =>
    /\ ended
    /\ body = arrived
    /\ body <= MaxResponseBytes

(* Content-Length "can only ever make the runtime refuse earlier": a body  *)
(* is refused for its size only if it is, or claims to be, over the limit. *)
RefusedForCause ==
  verdict = "response_too_large" =>
    arrived > MaxResponseBytes \/ declared > MaxResponseBytes

(* "a retry would repeat a call that may have already had an effect        *)
(* upstream" (executor.py): one call leaves the process, whatever fails.   *)
SentOnce == calls <= 1 /\ (verdict # "none" => calls = 1)

(* How the counters relate while the body is read, and what was returned.  *)
Progress ==
  /\ calls = IF pc = "ready" THEN 0 ELSE 1
  /\ pc # "done" => verdict = "none"
  /\ pc \in {"ready", "sent"} => arrived = 0 /\ collected = 0 /\ ~ended
  /\ pc = "reading" =>
       arrived = collected /\ collected <= MaxResponseBytes /\ ~ended
  /\ pc \in {"reading", "returned"} => status \in Statuses
  /\ pc = "returned" =>
       \/ ended /\ body = arrived /\ body <= MaxResponseBytes
       \/ ~ended /\ body = Ceiling /\ arrived > MaxResponseBytes

(* The inductive invariant behind the four properties above. *)
IInv ==
  /\ TypeOK
  /\ IntakeBounded
  /\ ResultsComplete
  /\ RefusedForCause
  /\ Progress

(* "a slow or enormous upstream response would otherwise hold a runtime    *)
(* worker open indefinitely" (executor.py): every call ends, even on a     *)
(* body that never does, because each read makes progress to the ceiling.  *)
Terminates == pc = "sent" ~> pc = "done"
=============================================================================
