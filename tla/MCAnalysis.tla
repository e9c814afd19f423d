----------------------------- MODULE MCAnalysis -----------------------------
(* Analysis for TLC: two paths with two methods each, of every kind, and a *)
(* third path behind them, so that the limit of three is met within a      *)
(* path, between two, or not at all.                                       *)
EXTENDS Integers

None == [shape |-> "absent", ref |-> "ok", outcome |-> "tool", name |-> "list", warnings |-> {}]
List == [None EXCEPT !.shape = "object"]

Ops ==
  {None, List, [List EXCEPT !.name = "get", !.warnings = {"operation_deprecated"}],
   [List EXCEPT !.outcome = "unsupported"], [None EXCEPT !.shape = "other"],
   [List EXCEPT !.ref = "broken"]}

PathItem(path, get, post, others) ==
  [path |-> path, kind |-> "item", root |-> "object", ops |-> [get |-> get, post |-> post], others |-> others]

Document(paths, override, server) == [paths |-> paths, override |-> override, server |-> server]

Last3 == PathItem(3, List, None, TRUE)

MCMethods == <<"get", "post">>

MCDocuments ==
  {Document(<<PathItem(2, a, b, FALSE), Last3, PathItem(1, c, d, FALSE)>>, "absent", "usable") :
     a, b, c, d \in Ops}
   \cup {Document(<<[Last3 EXCEPT !.kind = k], PathItem(1, List, None, FALSE)>>, o, s) :
           k \in {"invalid_path", "invalid_path_item"},
           o \in {"absent", "usable", "unusable", "unparsable"},
           s \in {"absent", "usable", "unusable", "unparsable", "variables", "malformed"}}
   \cup {Document(<<Last3, [PathItem(1, List, None, FALSE) EXCEPT !.root = r]>>, "usable", "absent") :
           r \in {"other", "broken"}}
   \cup {Document(<<>>, "absent", "absent"),
         Document(<<PathItem(1, [List EXCEPT !.outcome = "crash"], List, FALSE)>>, "usable", "absent")}
=============================================================================
