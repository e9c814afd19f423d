------------------------------ MODULE Provider ------------------------------
(***************************************************************************)
(* The deterministic provider (toollayer_mock_llm): which tool it selects  *)
(* for a request and which arguments it proposes.                          *)
(*                                                                         *)
(* A request is a sequence of items: a word, a number, an identifier in    *)
(* lower case with hyphens ("kebab": prefix and rest) or one in capitals   *)
(* ("upper": prefix and number).  Words are strings.  A number has its     *)
(* digits (number, as _INTEGER finds them, and -1 for none) and the value  *)
(* that a reader takes it for (meant: "-5" has the digits 5 and means -5). *)
(* Scores count half points.                                               *)
(*                                                                         *)
(* An argument is told by the leaves of its schema, each with the path of  *)
(* names to it: <<>> for the one leaf of an argument that is no object.  A *)
(* leaf has the constraints that the converter keeps: minimum and maximum, *)
(* which the provider reads, and the exclusive bounds and the pattern (the *)
(* prefixes of the identifiers that match), which it does not.             *)
(***************************************************************************)
EXTENDS Integers, Sequences, FiniteSets, SequencesExt

CONSTANTS
  Requests,        \* the requests
  ToolLists,       \* sequences of tools, those the caller may see
  Stopwords,       \* _STOPWORDS and the single characters
  ShortWords,      \* the words of two characters
  MutationVerbs,   \* _MUTATION_VERBS
  Synonyms,        \* function from the first word of a tool name to its verbs
  Aliases          \* _ENTITY_ALIASES: an entity's prefixes with its own, sorted

VARIABLES request, tools, selection, proposal

vars == <<request, tools, selection, proposal>>

Listed(s) == Len(s) \in Nat /\ DOMAIN s = 1 .. Len(s)

(* Tools are told apart by their names, which rank sorts. *)
ProviderAssumption ==
  /\ \A r \in Requests : Listed(r)
  /\ \A e \in DOMAIN Aliases : Listed(Aliases[e])
  /\ \A list \in ToolLists :
       /\ Listed(list) /\ Len(list) > 0
       /\ \A i \in DOMAIN list : list[i].rank \in Nat
       /\ \A i, j \in DOMAIN list : list[i].rank = list[j].rank => list[i] = list[j]
       /\ \A i \in DOMAIN list : \A a \in list[i].arguments : \A l \in a.leaves : Listed(l.enum)

Threshold == 4     \* _SELECTION_THRESHOLD

-----------------------------------------------------------------------------
(* _TOKEN.findall of the request in lower case: an identifier is two       *)
(* tokens, and one in capitals has its prefix in lower case.               *)
TokensOf(item) ==
  IF item.kind \in {"kebab", "upper"} THEN <<item.prefix, item.rest>> ELSE <<item.word>>

Tokens(r) == FlattenSeq([i \in DOMAIN r |-> TokensOf(r[i])])

(* _content_words *)
ContentWords(r) == ToSet(Tokens(r)) \ Stopwords

EffectVerbs(tool) ==
  LET head == tool.name[1]
  IN IF head \in DOMAIN Synonyms THEN Synonyms[head] ELSE {head}

Penalty(words, tool) ==
  IF tool.effect # "read" THEN (IF words \cap EffectVerbs(tool) = {} THEN 6 ELSE 0)
  ELSE IF words \cap MutationVerbs # {} THEN 8 ELSE 0

(* _score *)
Score(words, tool) ==
  4 * Cardinality(words \cap ToSet(tool.name)) + 3 * Cardinality(words \cap tool.tags)
    + 2 * Cardinality(words \cap UNION {ToSet(a.name) : a \in tool.arguments})
    + Cardinality(words \cap (tool.description \ Stopwords)) - Penalty(words, tool)

(* Mutant: equal scores stay in the order of the list. *)
Before_ScoreOnly(words, list, i, j) ==
  \/ Score(words, list[i]) > Score(words, list[j])
  \/ Score(words, list[i]) = Score(words, list[j]) /\ i <= j

(* The order of the sort: the score, then the name.                        *)
Before(words, list, i, j) ==
  \/ Score(words, list[i]) > Score(words, list[j])
  \/ Score(words, list[i]) = Score(words, list[j]) /\ list[i].rank <= list[j].rank

(* select_tool: <<>> for None.  The runtime passes at least one tool.      *)
SelectTool(r, list) ==
  LET words == ContentWords(r)
      best == CHOOSE i \in DOMAIN list : \A j \in DOMAIN list : Before(words, list, i, j)
  IN IF words = {} \/ Score(words, list[best]) < Threshold THEN <<>> ELSE <<list[best]>>

-----------------------------------------------------------------------------
(* _mentions *)
Mentions(r, candidate) ==
  \E i \in 1 .. Len(Tokens(r)) - Len(candidate) + 1 :
    SubSeq(Tokens(r), i, i + Len(candidate) - 1) = candidate

InRange(leaf, n) ==
  (\A m \in ToSet(leaf.minimum) : n >= m) /\ (\A m \in ToSet(leaf.maximum) : n <= m)

(* A loop that returns at the first place which will do. *)
First(places) == CHOOSE i \in places : \A j \in places : i <= j

SortedPrefixes(entity) == IF entity \in DOMAIN Aliases THEN Aliases[entity] ELSE <<entity>>
EntityPrefixes(entity) == ToSet(SortedPrefixes(entity))

(* Strategy 3: a describing word within two tokens of a prefix, for the    *)
(* first prefix, the first place and the first offset that has one.        *)
Offsets == <<-1, 1, -2, 2>>

Describing(tokens, prefix, i) ==
  {o \in 1 .. 4 : /\ i + Offsets[o] \in DOMAIN tokens
                  /\ tokens[i + Offsets[o]] \notin Stopwords \cup ShortWords \cup {prefix}}

Places(tokens, prefix) ==
  {i \in DOMAIN tokens : tokens[i] = prefix /\ Describing(tokens, prefix, i) # {}}

Described(tokens, prefixes) ==
  LET usable == {k \in DOMAIN prefixes : Places(tokens, prefixes[k]) # {}}
      prefix == prefixes[First(usable)]
      i == First(Places(tokens, prefix))
      o == First(Describing(tokens, prefix, i))
  IN IF usable = {} THEN <<>> ELSE <<[prefix |-> prefix, rest |-> tokens[i + Offsets[o]]]>>

(* _extract_identifier *)
Identifier(r, entity) ==
  LET named == {i \in DOMAIN r : r[i].kind \in {"kebab", "upper"}
                                   /\ r[i].prefix \in EntityPrefixes(entity)}
      bare == {i \in DOMAIN r : r[i].kind = "upper"}
      id(i) == [prefix |-> r[i].prefix, rest |-> r[i].rest]
  IN IF named # {} THEN <<id(First(named))>>
     ELSE IF bare # {} /\ EntityPrefixes(entity) \cap ToSet(Tokens(r)) # {} THEN <<id(First(bare))>>
     ELSE Described(Tokens(r), SortedPrefixes(entity))

(* The words that turn a flag on. *)
FlagWords(name) == ToSet(name) \ {"only", "is", "has", "include"}

(* _extract of what is no object, with <<>> for None.  _INTEGER finds the  *)
(* number inside an identifier too.  What is found is wrapped in a record, *)
(* so that values of any type can be compared.                             *)
Extract(r, leaf) ==
  CASE leaf.type = "enum" ->
         LET said == {i \in DOMAIN leaf.enum : Mentions(r, leaf.enum[i])}
         IN IF said = {} THEN <<>> ELSE <<[choice |-> leaf.enum[First(said)]]>>
    [] leaf.type = "boolean" ->
         IF FlagWords(leaf.name) # {} /\ FlagWords(leaf.name) \subseteq ContentWords(r)
         THEN <<[flag |-> TRUE]>> ELSE <<>>
    [] leaf.type = "integer" ->
         LET usable == {i \in DOMAIN r : r[i].number >= 0 /\ InRange(leaf, r[i].number)}
         IN IF usable = {} THEN <<>> ELSE <<[number |-> r[First(usable)].number]>>
    [] leaf.type = "string" ->
         \* A longer entity name has underscores, which no token has.
         IF Len(leaf.name) # 2 \/ leaf.name[2] # "id" THEN <<>>
         ELSE LET id == Identifier(r, leaf.name[1])
              IN IF id = <<>> THEN <<>> ELSE <<[id |-> id[1]]>>
    [] OTHER -> <<>>

(* _extract, _extract_object: an object without a leaf is None. *)
Found(r, a) ==
  {[path |-> l.path, value |-> Extract(r, l)[1]] : l \in {k \in a.leaves : Extract(r, k) # <<>>}}

(* generate_arguments *)
Proposal(r, tool) ==
  LET arguments == {[name |-> a.name, leaves |-> Found(r, a)] :
                      a \in {b \in tool.arguments : Found(r, b) # {}}}
  IN [arguments |-> arguments,
      missing |-> {a.name : a \in {b \in tool.arguments : b.required}}
                     \ {p.name : p \in arguments}]

Init ==
  /\ request \in Requests
  /\ tools \in ToolLists
  /\ selection = <<>>
  /\ proposal = <<>>

Select ==
  /\ selection = <<>>
  /\ selection' = SelectTool(request, tools)
  /\ UNCHANGED <<request, tools, proposal>>

Propose ==
  /\ selection # <<>> /\ proposal = <<>>
  /\ proposal' = <<Proposal(request, selection[1])>>
  /\ UNCHANGED <<request, tools, selection>>

Next == Select \/ Propose

Spec == Init /\ [][Next]_vars

-----------------------------------------------------------------------------
(***************************************************************************)
(* The tool that is selected does not depend on the order in which the     *)
(* snapshot lists the tools: any list of the same tools gives the same.    *)
(***************************************************************************)
SelectionStable ==
  \A list \in ToolLists :
    ToSet(list) = ToSet(tools) => SelectTool(request, list) = SelectTool(request, tools)

(* An identifier of the request, or two words of it that are near.        *)
Spoken(id) ==
  \/ \E x \in ToSet(request) :
       x.kind \in {"kebab", "upper"} /\ x.prefix = id.prefix /\ x.rest = id.rest
  \/ \E i, j \in DOMAIN Tokens(request) :
       /\ j - i \in {-2, -1, 1, 2}
       /\ Tokens(request)[i] = id.prefix /\ Tokens(request)[j] = id.rest

Grounded(leaf, v) ==
  CASE leaf.type = "enum" -> v.choice \in ToSet(leaf.enum) /\ Mentions(request, v.choice)
    [] leaf.type = "boolean" -> FlagWords(leaf.name) \subseteq ToSet(Tokens(request))
    [] leaf.type = "integer" ->
         /\ v.number \in {x.number : x \in ToSet(request)}
         /\ \A m \in ToSet(leaf.minimum) : v.number >= m
         /\ \A m \in ToSet(leaf.maximum) : v.number <= m
    [] leaf.type = "string" -> Spoken(v.id)
    [] OTHER -> FALSE

(***************************************************************************)
(* A proposal is made of what the request says: a number whose digits it   *)
(* contains and that lies between minimum and maximum, a choice that it    *)
(* mentions, a flag whose words it has, an identifier of its own words.    *)
(* Nothing is proposed that the tool does not declare, and exactly the     *)
(* required arguments that are not proposed are reported missing ("the     *)
(* provider never invents an argument", provider.py:270).  That the schema *)
(* accepts what is proposed is not claimed: see ProposalsConform.          *)
(***************************************************************************)
ProposalGrounded ==
  proposal # <<>> =>
    /\ \A p \in proposal[1].arguments : \E a \in selection[1].arguments :
         /\ p.name = a.name
         /\ \A v \in p.leaves : \E l \in a.leaves : l.path = v.path /\ Grounded(l, v.value)
    /\ proposal[1].missing =
         {a.name : a \in {b \in selection[1].arguments : b.required}}
           \ {p.name : p \in proposal[1].arguments}

(* What a leaf accepts of the values that the provider makes.              *)
Accepts(leaf, v) ==
  CASE leaf.type = "enum" -> v.choice \in ToSet(leaf.enum)
    [] leaf.type = "integer" ->
         /\ InRange(leaf, v.number)
         /\ \A m \in ToSet(leaf.exclusiveMinimum) : v.number > m
         /\ \A m \in ToSet(leaf.exclusiveMaximum) : v.number < m
    [] leaf.type = "string" -> \A prefixes \in ToSet(leaf.pattern) : v.id.prefix \in prefixes
    [] OTHER -> TRUE

(***************************************************************************)
(* The schema of an argument accepts what is proposed for it ("using the   *)
(* tool's own schema as the guide", provider.py:268).                      *)
(***************************************************************************)
ProposalsConform ==
  proposal # <<>> =>
    \A p \in proposal[1].arguments : \A a \in selection[1].arguments : p.name = a.name =>
      \A v \in p.leaves : \A l \in a.leaves : l.path = v.path => Accepts(l, v.value)

(***************************************************************************)
(* A number is proposed for what the request means by it ("a fabricated    *)
(* ticket id is worse than a question", provider.py:272).                  *)
(***************************************************************************)
NumbersMeant ==
  proposal # <<>> =>
    \A p \in proposal[1].arguments : \A v \in p.leaves :
      "number" \in DOMAIN v.value => v.value.number \in {x.meant : x \in ToSet(request)}

(***************************************************************************)
(* A request for a change does not select a tool that only reads ("Their   *)
(* presence makes a read-only tool the wrong answer even when it is the    *)
(* closest textual match", provider.py:108).                               *)
(***************************************************************************)
ChangesNeverRead ==
  selection # <<>> /\ ContentWords(request) \cap MutationVerbs # {} => selection[1].effect # "read"

(***************************************************************************)
(* A tool with an effect is selected only for a request that asks for the  *)
(* effect ("An effect-bearing tool needs positive evidence, not merely the *)
(* absence of a better match", provider.py:250).                           *)
(***************************************************************************)
EffectsAskedFor ==
  selection # <<>> /\ selection[1].effect # "read" =>
    ToSet(Tokens(request)) \cap EffectVerbs(selection[1]) # {}

(***************************************************************************)
(* A request that names two entities by two identifiers does not give both *)
(* arguments the same one (provider.py:439).                               *)
(***************************************************************************)
IdentifiersDistinct ==
  proposal # <<>> /\ Cardinality({x \in ToSet(request) : x.kind \in {"kebab", "upper"}}) > 1 =>
    \A p, q \in proposal[1].arguments :
      {v.value : v \in p.leaves} = {v.value : v \in q.leaves} => p.name = q.name
=============================================================================
