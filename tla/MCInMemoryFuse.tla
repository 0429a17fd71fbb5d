--------------------------- MODULE MCInMemoryFuse ---------------------------
(***************************************************************************)
(* An input directory for InMemoryFuse: a file, a directory with a file,   *)
(* and something that is neither.  Between two requests, or in the middle  *)
(* of the scan, the file grows or shrinks, and the other comes or goes.    *)
(***************************************************************************)
EXTENDS InMemoryFuse

CONSTANTS x, y

Folder == [type |-> "directory"]
File(content) == [type |-> "regular_file", content |-> content]

MCNames == <<"d", "f", "g", "p">>

Directory(f, g) ==
  [path \in {<<>>, <<"d">>, <<"f">>, <<"p">>} \cup {<<"d", "g">> : c \in g} |->
     CASE path \in {<<>>, <<"d">>} -> Folder
       [] path = <<"p">> -> [type |-> "fifo"]
       [] path = <<"f">> -> File(f)
       [] OTHER -> File(The(g))]

MCDisks ==
  { Directory(<<x, x>>, {<<y>>}), Directory(<<y>>, {}) }

MCPath == { <<>>, <<"f">>, <<"d">>, <<"d", "g">>, <<"p">> }
=============================================================================
