------------------------------ MODULE MCNaming ------------------------------
(* Naming for TLC: every identifier of up to four characters of each kind, *)
(* and paths of up to three segments.                                      *)
EXTENDS Integers, Sequences, SequencesExt

Identifiers == BoundedSeq({"a", "A", "1", "-"}, 4) \ {<<>>}

MCCharacters == {"a", "v", "A", "B", "1", "-", "/", "{", "}"}
MCUpper == {"A", "B"}
MCDigits == {"1"}
MCSeparators == {"-", "_", "/", "{", "}"}
MCLowerOf == [c \in MCUpper |-> IF c = "A" THEN "a" ELSE "b"]

Parts == {<<"v", "1">>, <<"v", "a">>, <<"{", "A", "a", "}">>, <<"-">>, <<"{", "}">>, <<"a", "-", "B">>}

MCSources ==
  {[id |-> i, verb |-> "get", path |-> <<"/">>] : i \in Identifiers}
   \cup {[id |-> <<>>, verb |-> "get", path |-> <<"/">> \o FlattenSeq([i \in DOMAIN p |-> p[i] \o <<"/">>])] :
           p \in BoundedSeq(Parts, 3)}
=============================================================================
