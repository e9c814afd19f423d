----------------------------- MODULE MCIdentity -----------------------------
(* Identity for TLC: a trusted key, an unknown one, and one that goes by   *)
(* the trusted identifier with another pair; claims with one thing each    *)
(* that the runtime has to refuse.                                         *)
EXTENDS Integers

Trusted == [id |-> "k1", pair |-> "p1"]
MCRing == {Trusted}
MCHostKeys == {Trusted, [id |-> "k1", pair |-> "p2"], [id |-> "k2", pair |-> "p2"]}

Good == [iss |-> "host", aud |-> {"runtime"}, sub |-> "ada", roles |-> {"agent", ""},
         listed |-> TRUE]
MCClaims ==
  {Good, [Good EXCEPT !.aud = {"runtime", "other"}], [Good EXCEPT !.aud = {"other"}],
   [Good EXCEPT !.iss = "elsewhere"], [Good EXCEPT !.sub = ""],
   [Good EXCEPT !.listed = FALSE]}

MCAssertions == {[sub |-> "ada", roles |-> {"admin", ""}], [sub |-> "", roles |-> {}]}
=============================================================================
