----------------------------- MODULE MCProvider -----------------------------
(* Provider for TLC: three tools of the demonstration in every order, and  *)
(* every request of up to three of the items that matter to them.          *)
EXTENDS Integers, Sequences, SequencesExt

Item(kind, word, prefix, rest, number) ==
  [kind |-> kind, word |-> word, prefix |-> prefix, rest |-> rest, number |-> number,
   meant |-> number]
Word(w) == Item("word", w, "", "", -1)
Minus(text, digits) == [Item("word", text, "", "", digits) EXCEPT !.meant = -digits]
Kebab(prefix, rest) == Item("kebab", "", prefix, rest, -1)
Capitals(prefix, rest, number) == Item("upper", "", prefix, rest, number)

Leaf(path, name, type) ==
  [path |-> path, name |-> name, type |-> type, enum |-> <<>>, minimum |-> <<>>, maximum |-> <<>>,
   exclusiveMinimum |-> <<>>, exclusiveMaximum |-> <<>>, pattern |-> <<>>]
Argument(name, required, leaf) == [name |-> name, required |-> required, leaves |-> {leaf}]
Identifier(name) == Argument(name, TRUE, Leaf(<<>>, name, "string"))
TicketId == Argument(<<"ticket", "id">>, TRUE,
                     [Leaf(<<>>, <<"ticket", "id">>, "string") EXCEPT !.pattern = <<{"tkt"}>>])

ListTickets ==
  [name |-> <<"list", "tickets">>, rank |-> 3, tags |-> {"tickets"}, effect |-> "read",
   description |-> {"the", "open", "tickets"},
   arguments |-> {Argument(<<"limit">>, FALSE, [Leaf(<<>>, <<"limit">>, "integer") EXCEPT
                                                  !.minimum = <<1>>, !.maximum = <<50>>,
                                                  !.exclusiveMinimum = <<5>>]),
                  Argument(<<"status">>, FALSE, [Leaf(<<>>, <<"status">>, "enum") EXCEPT
                                                   !.enum = <<<<"in", "progress">>, <<"open">>>>]),
                  Argument(<<"unassigned", "only">>, FALSE,
                           Leaf(<<>>, <<"unassigned", "only">>, "boolean"))}]
AssignTicket ==
  [name |-> <<"assign", "ticket">>, rank |-> 1, tags |-> {"tickets"}, effect |-> "write",
   description |-> {"ticket", "agent"},
   arguments |-> {TicketId,
                  Argument(<<"body">>, TRUE,
                           Leaf(<<<<"assignee", "id">>>>, <<"assignee", "id">>, "string"))}]
ReassignTicket ==
  [AssignTicket EXCEPT !.name = <<"reassign", "ticket">>, !.rank = 4,
     !.arguments = {TicketId, Identifier(<<"assignee", "id">>)}]
ListTeams ==
  [ListTickets EXCEPT !.name = <<"list", "teams">>, !.rank = 2, !.tags = {"tickets"},
     !.arguments = {Identifier(<<"team", "id">>)}]

MCStopwords == {"the", "to", "is", "in", "5", "7"}
MCShortWords == {"is", "to", "in", "40", "70"}
MCMutationVerbs == {"assign", "reassign", "close"}
MCSynonyms == [h \in {"assign"} |-> {"assign", "hand", "reassign"}]
MCAliases == [e \in {"assignee"} |-> <<"agent", "assignee", "owner">>]

MCToolLists == SetToSeqs({ListTickets, AssignTicket}) \cup SetToSeqs({ListTickets, ListTeams})
                 \cup SetToSeqs({AssignTicket, ReassignTicket, ListTeams})

Vocabulary ==
  {Word("list"), Word("tickets"), Word("ticket"), Word("assign"), Word("the"), Word("agent"),
   Word("in"), Word("progress"), Word("unassigned"), Capitals("tkt", "70", 70), Capitals("agt", "5", 5),
   Kebab("agent", "bao")}
MCRequests == UNION {[1 .. n -> Vocabulary] : n \in 1 .. 3}
MCLongRequests ==
  {<<Word("list"), Word("tickets"), Minus("5", 5)>>,
   <<Word("list"), Word("tickets"), Minus("7", 7), Item("word", "40", "", "", 40)>>,
   <<Word("close"), Word("list"), Word("tickets")>>,
   <<Word("ticket"), Word("tickets"), Word("agent"), Word("body")>>,
   <<Word("reassign"), Word("ticket"), Capitals("tkt", "70", 70), Word("agent"), Capitals("agt", "5", 5)>>}
=============================================================================
