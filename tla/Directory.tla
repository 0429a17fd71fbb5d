----------------------------- MODULE Directory -----------------------------
(***************************************************************************)
(* Directory blobs (trees/directory.h and .cpp) and the search in them     *)
(* (fuse_adaptor/operations.cpp).  A directory blob is the sequence of its *)
(* entries.  A path is the sequence of its names.  std::optional is a set  *)
(* of at most one element.                                                 *)
(***************************************************************************)
EXTENDS RegularFile

\* find_entry: the first entry with the name.
FindEntry(content, name) ==
  LET named == {i \in DOMAIN content : content[i].name = name}
  IN  {content[i] : i \in {i \in named : \A j \in named : i <= j}}

RootEntry(root) == [type |-> "directory", hash_code |-> root, regular_file_size |-> 0]

\* The local struct directory_entry of operations.cpp.
FoundEntry(entry) ==
  [type |-> entry.type, hash_code |-> entry.hash_code,
   regular_file_size |-> entry.size]

\* A directory blob that had to be searched is not stored: the code throws.
Unreadable == [type |-> "unreadable"]

\* What a name leads to from one directory entry.
Below(table, above, name) ==
  IF above.type = "regular_file"
  THEN {}
  ELSE IF above.type = "directory" /\ Stored(table, above.hash_code)
  THEN {FoundEntry(entry) : entry \in FindEntry(table[above.hash_code], name)}
  ELSE {Unreadable}

\* resolve_path: {} if there is nothing by that path, {Unreadable} if it
\* throws, else the entry.
ResolvePath(table, root, path) ==
  LET found[i \in 0 .. Len(path)] ==
        IF i = 0
        THEN {RootEntry(root)}
        ELSE UNION {Below(table, above, path[i]) : above \in found[i - 1]}
  IN  found[Len(path)]

\* directory_entry_to_stat.  A directory is given no size.
Stat(entry) ==
  IF entry.type = "regular_file"
  THEN [mode |-> "S_IFREG", st_size |-> entry.regular_file_size]
  ELSE [mode |-> "S_IFDIR", st_size |-> 0]

\* What adaptor_readdir hands to the filler, in this order.
Listing(content) ==
  [i \in DOMAIN content |->
     [name |-> content[i].name, stat |-> Stat(FoundEntry(content[i]))]]
=============================================================================
