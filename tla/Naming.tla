------------------------------- MODULE Naming -------------------------------
(***************************************************************************)
(* Tool names (toollayer_openapi/naming.py).  A text is a sequence of      *)
(* characters.  The ten characters of a digest are one character here, as  *)
(* are a verb and the words "by" and "root".  A character is a letter of   *)
(* lower case unless it is one of the others.                              *)
(***************************************************************************)
EXTENDS Integers, Sequences, SequencesExt, TLC

CONSTANTS
  Sources,              \* the operations to name: [id |-> text or <<>>, verb, path]
  Characters,           \* the characters that identifiers and paths are made of
  Upper, Digits,        \* the letters of upper case, the digits
  LowerOf,              \* the letter of lower case for each one of upper case
  Separators,           \* what is neither a letter nor a digit
  MaxToolNameLength     \* MAX_TOOL_NAME_LENGTH

VARIABLES source, name

vars == <<source, name>>

Underscore == "_"

IsLower(c) == c \notin Upper \cup Digits \cup Separators

Lower(c) == IF c \in Upper THEN LowerOf[c] ELSE c

(* Where _CAMEL_BOUNDARY or _ACRONYM_BOUNDARY puts a separator before i. *)
Boundary(text, i) ==
  /\ i > 1
  /\ text[i] \in Upper
  /\ \/ IsLower(text[i - 1]) \/ text[i - 1] \in Digits
     \/ text[i - 1] \in Upper /\ i < Len(text) /\ IsLower(text[i + 1])

(* A run of separators becomes one, and none at the start. *)
Separated(text) ==
  IF text = <<>> \/ text[Len(text)] = Underscore THEN text ELSE Append(text, Underscore)

(* rstrip("_"): no text here has two separators in a row. *)
StripRight(text) ==
  IF text # <<>> /\ text[Len(text)] = Underscore THEN SubSeq(text, 1, Len(text) - 1) ELSE text

(* What the ith character adds to what came of those before it. *)
Spaced(before, text, i) ==
  IF text[i] \in Separators THEN Separated(before)
  ELSE Append(IF Boundary(text, i) THEN Separated(before) ELSE before, Lower(text[i]))

(* _snake_case *)
SnakeCase(text) ==
  LET run[i \in 0 .. Len(text)] == IF i = 0 THEN <<>> ELSE Spaced(run[i - 1], text, i)
  IN  StripRight(run[Len(text)])

(* The digest of a candidate. *)
Digest(candidate) == ToString(candidate)

(* Mutant: a long name is cut off. *)
Bounded_Truncates(candidate) ==
  IF Len(candidate) <= MaxToolNameLength THEN candidate
  ELSE StripRight(SubSeq(candidate, 1, MaxToolNameLength))

(* _bounded *)
Bounded(candidate) ==
  IF Len(candidate) <= MaxToolNameLength THEN candidate
  ELSE StripRight(SubSeq(candidate, 1, MaxToolNameLength - 2)) \o <<Underscore, Digest(candidate)>>

Candidate(text) ==
  LET candidate == SnakeCase(text)
  IN  IF candidate # <<>> /\ candidate[1] \in Digits THEN <<"o", "p", Underscore>> \o candidate ELSE candidate

(* normalize_tool_name, where the empty name stands for its ValueError. *)
NormalizeToolName(text) == Bounded(Candidate(text))

(* The segments of a path; only the last one may be empty. *)
AddToSegments(segments, c) ==
  CASE c # "/" -> [segments EXCEPT ![Len(segments)] = Append(@, c)]
    [] c = "/" /\ segments[Len(segments)] = <<>> -> segments
    [] OTHER -> Append(segments, <<>>)

Segments(path) ==
  LET run[i \in 0 .. Len(path)] ==
        IF i = 0 THEN <<<<>>>> ELSE AddToSegments(run[i - 1], path[i])
  IN  run[Len(path)]

(* v\d+[a-z0-9]*, of the first segment, in either case. *)
VersionLike(segment) ==
  /\ Len(segment) > 1
  /\ Lower(segment[1]) = "v"
  /\ segment[2] \in Digits
  /\ \A i \in DOMAIN segment : segment[i] \notin Separators

Placeholder(segment) == segment[1] = "{" /\ segment[Len(segment)] = "}"

(* What a segment adds to the name. *)
AddToName(before, segments, i) ==
  LET segment == segments[i]
      word == SnakeCase(segment)
  IN  IF word = <<>> \/ (i = 1 /\ VersionLike(segment)) THEN before
      ELSE before \o (IF Placeholder(segment) THEN <<Underscore, "by", Underscore>> ELSE <<Underscore>>) \o word

Derived(verb, segments) ==
  LET run[i \in 0 .. Len(segments)] ==
        IF i = 0 THEN <<verb>> ELSE AddToName(run[i - 1], segments, i)
  IN  run[Len(segments)]

(* derive_tool_name, before the limit. *)
DeriveName(verb, path) ==
  LET derived == Derived(verb, Segments(path))
  IN  IF derived = <<verb>> THEN <<verb, Underscore, "root">> ELSE derived

(* The name of an operation, before and after the limit. *)
FullName(s) == IF s.id # <<>> THEN Candidate(s.id) ELSE DeriveName(s.verb, s.path)

NameOf(s) == Bounded(FullName(s))

FullNames == {FullName(s) : s \in Sources}

(* The characters that the name of an identifier is made of. *)
Alphabet == {Lower(c) : c \in Characters} \cup {"o", "p", Underscore}

(* SHA-256 tells the names of a document apart, and no identifier spells   *)
(* the digest of another name.                                             *)
NamingAssumption ==
  /\ MaxToolNameLength \in Nat /\ MaxToolNameLength > 2
  /\ {Underscore, "/", "{", "}"} \subseteq Separators
  /\ (Upper \cup Digits) \cap Separators = {} /\ Upper \cap Digits = {}
  /\ \A c \in {LowerOf[u] : u \in Upper} \cup {"o", "p", "by", "root"} : IsLower(c)
  /\ \A s \in Sources :
       s.id \in Seq(Characters) /\ s.path \in Seq(Characters) /\ IsLower(s.verb)
  /\ \A full \in FullNames : IsLower(Digest(full)) /\ Digest(full) \notin Alphabet
  /\ \A full, other \in FullNames : Digest(full) = Digest(other) => full = other

Init ==
  /\ source \in Sources
  /\ name = <<>>

Derive ==
  /\ name = <<>>
  /\ name' = NameOf(source)
  /\ UNCHANGED source

Next == Derive

Spec == Init /\ [][Next]_vars

-----------------------------------------------------------------------------

(* A name is one that the contract admits (TOOL_NAME_PATTERN and its       *)
(* length), whatever the identifier is made of: ToolDefinition would raise *)
(* on any other, and fail the whole document.                              *)
NamesAdmitted ==
  name # <<>> =>
    /\ IsLower(name[1])
    /\ \A i \in DOMAIN name : IsLower(name[i]) \/ name[i] \in Digits \cup {Underscore}
    /\ Len(name) <= MaxToolNameLength

(* Shortening a name does not bring two of them together: two identifiers  *)
(* have one name only if they read the same before it (_bounded).          *)
ShorteningKeepsDistinct ==
  source.id # <<>> /\ name # <<>> =>
    \A other \in Sources :
      other.id # <<>> /\ NormalizeToolName(other.id) = name => Candidate(other.id) = Candidate(source.id)

(* A tool name is stable: naming what was named changes nothing, so a      *)
(* document that uses the derived name as its operationId keeps it.        *)
NamingStable == name # <<>> => NormalizeToolName(name) = name
=============================================================================
