----------------------------- MODULE MCSnapshots -----------------------------
(* Snapshots for TLC: three artifacts of two connectors, and the selection *)
(* lists that tell the cases of create_snapshot apart.                     *)
EXTENDS Snapshots

a1 == [connector |-> "orders", version |-> 1]
a2 == [connector |-> "orders", version |-> 2]
b1 == [connector |-> "tickets", version |-> 1]

MCArtifacts == {a1, a2, b1}

(* One pin, two connectors, and a repeated connector that must be refused. *)
MCSelections == {<<a1>>, <<a2, b1>>, <<a1, a2>>}
=============================================================================
