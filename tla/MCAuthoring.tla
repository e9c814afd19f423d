----------------------------- MODULE MCAuthoring -----------------------------
(* Authoring for TLC.  The first document has an operation with a          *)
(* generated description and no server; the second renames the operation   *)
(* and is ready as it is.                                                  *)
EXTENDS Authoring, TLC

MCAnalysis ==
  [first |-> [operations |-> {"list", "get"}, placeholders |-> {"get"}, base |-> "missing"],
   second |-> [operations |-> {"list"}, placeholders |-> {}, base |-> "present"]]

Keep(op) ==
  [op |-> op, selection |-> "keep", description |-> "keep", origin |-> "keep",
   access |-> "keep", roles |-> "keep"]

(* A base URL and a description, an exclusion, a restriction, a policy     *)
(* that is refused, an empty text, and another version.                    *)
Completed ==
  [updates |-> <<[Keep("get") EXCEPT !.description = "text"]>>, version |-> 0, base |-> "present"]
Excluded ==
  [updates |-> <<[Keep("list") EXCEPT !.selection = "excluded"]>>, version |-> 0, base |-> "keep"]
Restricted ==
  [updates |-> <<Keep("list"), [Keep("list") EXCEPT !.access = "restricted", !.roles = "some"]>>,
   version |-> 0, base |-> "keep"]
Roleless ==
  [updates |-> <<[Keep("list") EXCEPT !.roles = "some"]>>, version |-> 0, base |-> "keep"]
Blank ==
  [updates |-> <<[Keep("list") EXCEPT !.description = "blank"]>>, version |-> 0, base |-> "keep"]
Renumbered == [updates |-> <<>>, version |-> 2, base |-> "keep"]

MCEdits == {Completed, Excluded, Restricted, Roleless, Blank, Renumbered}

(* The ones that matter when requests overlap. *)
FewEdits == {Completed, Roleless, Renumbered}

Symmetry == Permutations(Clients) \cup Permutations(Connectors)
=============================================================================
