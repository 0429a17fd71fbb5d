---------------------------- MODULE MCTreeImport ----------------------------
(***************************************************************************)
(* Small trees for TreeImport, in pieces of two bytes.                     *)
(***************************************************************************)
EXTENDS TreeImport

a == [kind |-> "byte", value |-> 0]
b == [kind |-> "byte", value |-> 1]
MCByte == {a, b}

File(content) == [type |-> "regular_file", content |-> content, link |-> FALSE]
Folder(directory) == [type |-> "directory", directory |-> directory, link |-> FALSE]
Other == [type |-> "other", link |-> FALSE]
Linked(entry) == [entry EXCEPT !.link = TRUE]

\* Two files that share a piece, one of them below a directory that holds an
\* empty directory too; an empty file would have the same blob as that.
Nested ==
  [d \in {"root", "sub", "empty"} |->
     CASE d = "root" -> [n \in {"f", "sub"} |->
                           IF n = "f" THEN File(<<a, b, b, b, a>>) ELSE Folder("sub")]
       [] d = "sub" -> [n \in {"g", "empty"} |->
                          IF n = "g" THEN File(<<b, b, a, a>>) ELSE Folder("empty")]
       [] d = "empty" -> <<>>]

\* The same file with an edited piece, an empty file, an entry that is skipped
\* and a link to a file.
Edited ==
  [d \in {"root"} |->
     [n \in {"f", "g", "fifo", "link"} |->
        CASE n = "f" -> File(<<a, a, b, b, a>>)
          [] n = "g" -> File(<<>>)
          [] n = "fifo" -> Other
          [] n = "link" -> Linked(File(<<b>>))]]

\* A directory with a link to itself.
Cyclic ==
  [d \in {"root"} |->
     [n \in {"f", "self"} |->
        IF n = "f" THEN File(<<a, a, b>>) ELSE Linked(Folder("root"))]]

MCTrees == {Nested, Edited, Cyclic}
=============================================================================
