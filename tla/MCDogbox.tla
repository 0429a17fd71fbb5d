------------------------------ MODULE MCDogbox ------------------------------
(***************************************************************************)
(* Two trees for Dogbox, in pieces of two bytes: the second is the first   *)
(* with one file changed and a directory less.  They have a piece in       *)
(* common, and the file of the first is a prefix of that of the second.    *)
(***************************************************************************)
EXTENDS Dogbox

a == [kind |-> "byte", value |-> 0]
b == [kind |-> "byte", value |-> 1]
MCByte == {a, b}

File(content) == [type |-> "regular_file", content |-> content, link |-> FALSE]
Folder(directory) == [type |-> "directory", directory |-> directory, link |-> FALSE]

Before ==
  [d \in {"root", "sub"} |->
     IF d = "root" THEN [n \in {"f", "sub"} |-> IF n = "f" THEN File(<<a, b, b>>) ELSE Folder("sub")]
                   ELSE [n \in {"g"} |-> File(<<b, b>>)]]

After == [d \in {"root"} |-> [n \in {"f"} |-> File(<<a, b, b, a>>)]]

MCTrees == {Before, After}
MCPath == {<<>>, <<"f">>, <<"sub">>, <<"sub", "g">>}
=============================================================================
