------------------------------ MODULE Identity ------------------------------
(***************************************************************************)
(* How the runtime establishes who is calling: CallerAuthenticator, with   *)
(* the host application that issues tokens by its own clock.               *)
(*                                                                         *)
(* A token is its three segments.  A signature names the key pair that     *)
(* made it and what it was made over, and verifies for that pair and for   *)
(* exactly those segments.  Clocks count ticks, Second of them to a        *)
(* second: claims carry whole seconds, the comparison uses the fraction.   *)
(***************************************************************************)
EXTENDS Integers, Sequences, FiniteSets, SequencesExt

CONSTANTS Ring,               \* trusted keys, records [id, pair], one per identifier
          Issuer, Audience,   \* what this runtime is configured to accept
          Skew, Lifetime,     \* in seconds
          Second, MaxTime,    \* ticks per second, and the last tick of the host's clock
          MaxIssue,           \* the last tick at which a token is issued
          HostKeys,           \* keys that tokens are signed with, trusted and not
          Claims,             \* the claims that issuers put their names to, without times
          Assertions          \* identity headers a request may carry, records [sub, roles]

IdentityAssumption ==
    /\ Skew \in Nat /\ Lifetime \in Nat \ {0} /\ Second \in Nat \ {0} /\ MaxTime \in Nat /\ MaxIssue \in Nat
    /\ \A k, l \in Ring : k.id = l.id => k = l
    /\ \A k \in Ring : k.id # ""
    /\ Ring # {}

Absent == -1                  \* a numeric claim that is missing or not a number

VARIABLES mode,       \* caller_auth_mode of this process
          clock,      \* the host application's clock
          offset,     \* how far the runtime's clock is from it
          issued,     \* the tokens issued so far
          answer      \* the request just made and what identify made of it

vars == <<mode, clock, offset, issued, answer>>

Now == clock + offset

-----------------------------------------------------------------------------
(* The segments of a token; "ok" stands for one that decodes to an object. *)
Header(alg, kid) == [shape |-> "ok", alg |-> alg, kid |-> kid]

Payload(claims, exp, nbf) ==
    [shape |-> "ok", iss |-> claims.iss, aud |-> claims.aud, sub |-> claims.sub,
     roles |-> claims.roles, listed |-> claims.listed, exp |-> exp, nbf |-> nbf]

Signed(key, header, payload) ==
    [form |-> "compact", header |-> header, payload |-> payload,
     signature |-> [shape |-> "ok", pair |-> key.pair, over |-> <<header, payload>>]]

(* issue_caller_token: whole seconds, an expiry and no nbf.                *)
IssueCallerToken(key, claims, now) ==
    Signed(key, Header("EdDSA", key.id),
           Payload(claims, (now \div Second) + Lifetime, Absent))

-----------------------------------------------------------------------------
Find(id) == {k \in Ring : k.id = id}

Verify(t) == \E k \in Find(t.header.kid) :
                t.signature.pair = k.pair /\ t.signature.over = <<t.header, t.payload>>

(* One string, or an array with the expected one in it; a claim of another *)
(* type is the empty set.                                                  *)
AudienceMatches(aud) == Audience \in aud

Expired(exp) == Now > (exp + Skew) * Second

NotYet(nbf) == nbf # Absent /\ Now + Skew * Second < nbf * Second

Check(fails, why) == [fails |-> fails, why |-> why]

ShapeChecks(t) ==
    <<Check(t.form = "oversized", "too_large"),
      Check(t.form # "compact", "not_compact"),
      Check(t.header.shape = "garbled", "malformed"),
      Check(t.header.shape = "list", "header_not_object")>>

SignatureChecks(t) ==
    <<Check(t.header.alg # "EdDSA", "algorithm"),
      Check(t.header.kid = "", "no_key"),
      Check(Find(t.header.kid) = {}, "untrusted"),
      Check(t.signature.shape = "garbled", "signature_malformed"),
      Check(~Verify(t), "signature_invalid")>>

ClaimChecks(t) ==
    <<Check(t.payload.shape = "garbled", "payload_malformed"),
      Check(t.payload.shape = "list", "payload_not_object"),
      Check(t.payload.iss # Issuer, "issuer"),
      Check(~AudienceMatches(t.payload.aud), "audience"),
      Check(t.payload.exp = Absent, "no_expiry"),
      Check(Expired(t.payload.exp), "expired"),
      Check(NotYet(t.payload.nbf), "not_yet"),
      Check(t.payload.sub = "", "no_subject"),
      Check(~t.payload.listed, "roles")>>

(* Mutant: the claims are looked at before the signature. *)
Checks_ClaimsFirst(t) == ShapeChecks(t) \o ClaimChecks(t) \o SignatureChecks(t)

(* _verified_claims and then _from_token, in the order of the code.        *)
Checks(t) == ShapeChecks(t) \o SignatureChecks(t) \o ClaimChecks(t)

Verdict(t) ==
    LET failing == {i \in DOMAIN Checks(t) : Checks(t)[i].fails}
    IN IF failing = {} THEN "accepted" ELSE Checks(t)[Min(failing)].why

Refused(why) == [outcome |-> why, sub |-> "", roles |-> {}]
Anonymous == [outcome |-> "none", sub |-> "", roles |-> {}]
Identified(sub, roles) == [outcome |-> "accepted", sub |-> sub, roles |-> roles \ {""}]

(* identify: tokens and assertions are sets with at most one member.       *)
Identify(tokens, asserted) ==
    IF mode = "verified_token"
    THEN IF asserted # {} THEN Refused("asserted")
         ELSE IF tokens = {} THEN Refused("no_token")
         ELSE LET t == CHOOSE t \in tokens : TRUE
              IN IF Verdict(t) = "accepted"
                 THEN Identified(t.payload.sub, t.payload.roles) ELSE Refused(Verdict(t))
    ELSE IF asserted = {} THEN Anonymous
         ELSE LET a == CHOOSE a \in asserted : TRUE
              IN Identified(IF a.sub = "" THEN "anonymous" ELSE a.sub, a.roles)

-----------------------------------------------------------------------------
NoRequest == [tokens |-> {}, asserted |-> {}, at |-> 0, identity |-> Anonymous]

Init ==
    /\ mode \in {"verified_token", "asserted_header"}
    /\ clock = 0
    /\ offset \in -(Skew * Second) .. Skew * Second
    /\ issued = {}
    /\ answer = NoRequest

Tick ==
    /\ clock < MaxTime
    /\ clock' = clock + 1
    /\ answer' = NoRequest
    /\ UNCHANGED <<mode, offset, issued>>

Record(token) == [token |-> token, at |-> clock]

Issue(key, claims) ==
    /\ issued' = issued \cup {Record(IssueCallerToken(key, claims, clock))}
    /\ answer' = NoRequest
    /\ UNCHANGED <<mode, clock, offset>>

(* Another identity provider: it may add nbf and may forget the expiry.    *)
IssueElsewhere(key, claims) ==
    /\ \E exp \in {Absent, (clock \div Second) + Lifetime} :
          issued' = issued \cup {Record(Signed(key, Header("EdDSA", key.id),
                                               Payload(claims, exp, clock \div Second)))}
    /\ answer' = NoRequest
    /\ UNCHANGED <<mode, clock, offset>>

(* What may arrive in the place of a token: one segment garbled or of      *)
(* another type, or changed after it was signed.                           *)
Alterations(t) ==
    {t, [t EXCEPT !.form = "oversized"], [t EXCEPT !.form = "two segments"],
     [t EXCEPT !.header.alg = "none"], [t EXCEPT !.header.kid = ""],
     [t EXCEPT !.signature.shape = "garbled"],
     [t EXCEPT !.payload.sub = "somebody else"], [t EXCEPT !.payload.exp = @ + Lifetime]}
    \cup {[t EXCEPT !.header.shape = s] : s \in {"garbled", "list"}}
    \cup {[t EXCEPT !.payload.shape = s] : s \in {"garbled", "list"}}
    \cup {Signed(k, [t.header EXCEPT !.kid = k.id], [t.payload EXCEPT !.shape = s]) :
             k \in HostKeys, s \in {"garbled", "list"}}

(* One request at a time; identify keeps nothing from one to the next.     *)
Request(tokens, asserted) ==
    /\ answer = NoRequest
    /\ answer' = [tokens |-> tokens, asserted |-> asserted, at |-> clock,
                  identity |-> Identify(tokens, asserted)]
    /\ UNCHANGED <<mode, clock, offset, issued>>

Asserted == {{}} \cup {{a} : a \in Assertions}

Next ==
    \/ Tick
    \/ issued = {} /\ clock <= MaxIssue /\ \E k \in HostKeys, c \in Claims : Issue(k, c) \/ IssueElsewhere(k, c)
    \/ \E asserted \in Asserted : Request({}, asserted)
    \/ \E i \in issued :
          \/ \E t \in Alterations(i.token) : Request({t}, {})
          \/ \E asserted \in Asserted : Request({i.token}, asserted)

Spec == Init /\ [][Next]_vars

-----------------------------------------------------------------------------
(***************************************************************************)
(* When identity is verified, a caller is who a token signed by a trusted  *)
(* key says, with exactly those claims as they were signed, meant for this *)
(* runtime and carrying an expiry: whatever was altered on the way and     *)
(* whatever headers came along ("no branch that returns an identity        *)
(* without having checked a signature", identity.py:73).                   *)
(***************************************************************************)
IdentityProven ==
    mode = "verified_token" /\ answer.identity.outcome = "accepted" =>
        \E t \in answer.tokens, k \in Ring :
            /\ t.signature.pair = k.pair /\ t.signature.over[2] = t.payload
            /\ t.payload.iss = Issuer /\ Audience \in t.payload.aud
            /\ t.payload.exp # Absent
            /\ answer.identity.sub = t.payload.sub
            /\ answer.identity.roles \subseteq t.payload.roles

(* The requests that carry a token as it was issued, and nothing else.     *)
Plain(i) == answer.tokens = {i.token} /\ answer.asserted = {}

(* A token that this runtime's configuration is meant to accept.           *)
ForThisRuntime(t) ==
    /\ \E k \in Ring : t.header.kid = k.id /\ t.signature.pair = k.pair
    /\ t.payload.iss = Issuer /\ Audience \in t.payload.aud
    /\ t.payload.sub # "" /\ t.payload.listed /\ t.payload.exp # Absent

(***************************************************************************)
(* By the host's clock, and for every difference of the clocks up to the   *)
(* allowance, a token is good from the moment it is issued for all of its  *)
(* lifetime but the fraction of a second that int() takes off, and is no   *)
(* longer good once the allowance has run out on both sides.               *)
(***************************************************************************)
LifetimeHonoured ==
    mode = "verified_token" =>
        \A i \in issued :
            Plain(i) /\ ForThisRuntime(i.token) =>
                /\ answer.at <= i.at + Lifetime * Second - (Second - 1)
                       => answer.identity.outcome = "accepted"
                /\ answer.at > i.at + (Lifetime + 2 * Skew) * Second
                       => answer.identity.outcome = "expired"

(***************************************************************************)
(* No refusal tells what a token claims unless a trusted key signed it     *)
(* ("the signature is checked before any claim is read", identity.py:126). *)
(***************************************************************************)
SignatureFirst ==
    \A t \in answer.tokens :
        (\E i \in DOMAIN ClaimChecks(t) : answer.identity.outcome = ClaimChecks(t)[i].why) =>
            \E k \in Ring : t.signature.pair = k.pair /\ t.signature.over = <<t.header, t.payload>>

(* CallerAuthenticator keeps its three promises.                           *)
CallersProven == IdentityProven /\ LifetimeHonoured /\ SignatureFirst

(***************************************************************************)
(* The identity headers make no difference when identity is verified       *)
(* ("Assertion headers are ignored entirely in this mode",                 *)
(* identity.py:13).                                                        *)
(***************************************************************************)
AssertionsIgnored ==
    mode = "verified_token" => answer.identity.outcome # "asserted"
=============================================================================
