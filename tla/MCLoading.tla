------------------------------ MODULE MCLoading ------------------------------
(* Loading for TLC: documents up to one level deeper than the parsers go.  *)
EXTENDS Integers, Sequences, SequencesExt

Leaf(kind) == [kind |-> kind, keys |-> "plain", kids |-> <<>>]
Object(keys, kids) == [kind |-> "object", keys |-> keys, kids |-> kids]
Array(kids) == [kind |-> "array", keys |-> "plain", kids |-> kids]
Pairs(kids) == Array([i \in DOMAIN kids |-> [Array(<<Leaf("value"), kids[i]>>) EXCEPT !.kind = "pair"]])
Set(keys, kids) == [kind |-> "set", keys |-> keys, kids |-> kids]

Leaves == {Leaf("value"), Leaf("constant"), Leaf("overflow")}

Level1 == Leaves \cup {Array(s) : s \in BoundedSeq(Leaves, 2)}
            \cup {Object(k, <<Leaf("value")>>) : k \in {"plain", "duplicate", "number"}}
Level2 == {Object("plain", s) : s \in BoundedSeq(Level1, 2)} \cup {Array(<<n>>) : n \in Level1}
DeepRoots ==
  {Object("plain", <<Array(<<n>>)>>) : n \in {Array(<<Leaf("value")>>), Array(<<Array(<<Leaf("value")>>)>>)}}
Roots == Level2 \cup {Object("plain", <<n, Leaf("value")>>) : n \in Level2} \cup DeepRoots

RECURSIVE Nodes(_)
Nodes(root) ==
  {<<<<>>, root>>}
    \cup UNION {{<<<<i>> \o n[1], n[2]>> : n \in Nodes(root.kids[i])} : i \in DOMAIN root.kids}

Flat(node) == [kind |-> node.kind, keys |-> node.keys, width |-> Len(node.kids)]

(* The tree of a nested document. *)
TreeOf(root) ==
  LET nodes == Nodes(root)
  IN  [p \in {n[1] : n \in nodes} |-> Flat((CHOOSE n \in nodes : n[1] = p)[2])]

(* A text without aliases nests as deep as its tree. *)
Upload(format, root) ==
  LET tree == TreeOf(root)
  IN  [bytes |-> "ok", format |-> format, wellFormed |-> TRUE, tree |-> tree,
       nesting |-> Max({Len(p) : p \in DOMAIN tree}), version |-> "3.x", paths |-> TRUE]
Plain == Upload("json", Object("plain", <<Leaf("value")>>))

(* What YAML alone has: what the walk does not enter may be too wide, too  *)
(* deep, full of odd numbers or keys, or unreadable.                       *)
Opaques ==
  LET inside == {Leaf("value"), Leaf("constant"), Leaf("illtyped"), Array(<<Leaf("value")>>),
                 Array(<<Array(<<Leaf("value")>>)>>), Object("number", <<Leaf("value")>>), Object("duplicate", <<Leaf("value")>>)}
  IN  {Pairs(s) : s \in BoundedSeq(inside, 2)}
        \cup {Set(k, s) : k \in {"plain", "structure"}, s \in BoundedSeq(inside, 2)}
        \cup {Set("plain", [i \in 1 .. 6 |-> Leaf("value")]), Leaf("illtyped")}

(* JSON has no keys but strings; a file that starts with a bracket is JSON. *)
MCUploads ==
  {u \in {Upload(f, r) : f \in {"json", "yaml"}, r \in Roots} :
     u.format = "json" => \A p \in DOMAIN u.tree : u.tree[p].keys # "number"}
   \cup {[Plain EXCEPT !.bytes = b] : b \in {"empty", "too_large", "bom", "not_utf8"}}
   \cup {[Upload("yaml", Object("plain", <<o>>)) EXCEPT !.nesting = n] : o \in Opaques, n \in 2 .. 4}
   \cup {[Upload("yaml", r) EXCEPT !.nesting = 2] : r \in DeepRoots}
   \cup {Upload("yaml", Object("plain", <<o, n>>)) : o \in Opaques, n \in Leaves}
   \cup {Upload("yaml", Object(k, <<Leaf("value")>>)) : k \in {"merge", "structure"}}
   \cup {[Plain EXCEPT !.wellFormed = FALSE], [Plain EXCEPT !.version = "other"],
         [Plain EXCEPT !.paths = FALSE]}
=============================================================================
