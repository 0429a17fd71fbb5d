--------------------------- MODULE MCFuseAdaptor ---------------------------
(***************************************************************************)
(* Two imported directories for FuseAdaptor, in pieces of two bytes.  The  *)
(* first has files with and without a remainder, one below a subdirectory, *)
(* an empty file, and two files with a piece in common; the second has no  *)
(* entries.                                                                *)
(***************************************************************************)
EXTENDS FuseAdaptor

CONSTANTS a, b

MCByte == {a, b}

Long == <<a, b, b, b, a>>
Even == <<b, b, a, a>>

FileBlobs(content) == {FileIndex(content)} \cup {PieceOf(content, i) : i \in PiecesOf(content)}

FileEntry(name, content) ==
  DirectoryEntry("regular_file", name, Sha256(FileIndex(content)), Len(content))

Sub == << FileEntry("even", Even) >>
Root == << FileEntry("long", Long),
           DirectoryEntry("directory", "sub", Sha256(Sub), 0),
           FileEntry("empty", <<>>) >>

Table(blobs) == [hash_code \in {Sha256(blob) : blob \in blobs} |-> hash_code.of]

File(content) == [type |-> "regular_file", content |-> content]
Folder(names) == [type |-> "directory", names |-> names]

MCImported ==
  { [root  |-> Sha256(Root),
     table |-> Table({Root, Sub} \cup UNION {FileBlobs(c) : c \in {Long, Even, <<>>}}),
     tree  |-> [path \in {<<>>, <<"long">>, <<"sub">>, <<"sub", "even">>, <<"empty">>} |->
                  CASE path = <<>> -> Folder(<<"long", "sub", "empty">>)
                    [] path = <<"long">> -> File(Long)
                    [] path = <<"sub">> -> Folder(<<"even">>)
                    [] path = <<"sub", "even">> -> File(Even)
                    [] path = <<"empty">> -> File(<<>>)]],
    [root  |-> Sha256(<<>>),
     table |-> Table({<<>>}),
     tree  |-> [path \in {<<>>} |-> Folder(<<>>)]] }

\* Everything there is, and what is missing: in the root, and below a file.
MCPath ==
  { <<>>, <<"long">>, <<"sub">>, <<"sub", "even">>, <<"empty">>,
    <<"even">>, <<"long", "even">> }

=============================================================================
