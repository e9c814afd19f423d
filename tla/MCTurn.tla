------------------------------- MODULE MCTurn -------------------------------
(* Turn for TLC: two revisions between which one tool is restricted, one   *)
(* loses its restriction, one is withdrawn, and two are added to which no  *)
(* call may go.                                                            *)
EXTENDS Turn, TLC

Open == [mode |-> "public", roles |-> {}, confirm |-> FALSE, method |-> TRUE,
         reachable |-> TRUE]
Staff == [Open EXCEPT !.mode = "restricted", !.roles = {"staff"}]

MCCatalog ==
  <<[list |-> Open, cancel |-> [Staff EXCEPT !.confirm = TRUE], export |-> Open],
    [list |-> Staff, cancel |-> [Open EXCEPT !.confirm = TRUE],
     ship |-> [Open EXCEPT !.reachable = FALSE], purge |-> [Open EXCEPT !.method = FALSE]]>>

Symmetry == Permutations(Requests)
=============================================================================
