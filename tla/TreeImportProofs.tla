-------------------------- MODULE TreeImportProofs --------------------------
(***************************************************************************)
(* Theorems about TreeImport, for any trees, any length of the pieces, and *)
(* any number of imports and links.                                        *)
(***************************************************************************)
EXTENDS TreeImport, DogboxLemmas, FiniteSetTheorems

-----------------------------------------------------------------------------
(***************************************************************************)
(* What is on the stack, and what of it is stored already.  Whatever an    *)
(* entry or an index is about to mention is in the table.                  *)
(***************************************************************************)

Name == {""} \cup UNION {UNION {DOMAIN t[d] : d \in DOMAIN t} : t \in Trees}

Entry(hash_codes) ==
  [kind : {"entry"}, type : {"regular_file", "directory"}, name : Name,
   hash_code : hash_codes, size : Nat]

Call(hash_codes) ==
  [directory : DOMAIN tree, name : Name, links : 0 .. MaxLinks, todo : SUBSET Name,
   encoded : Seq(Entry(hash_codes))]

File == [name : Name, content : Seq(Byte), todo : SUBSET Nat]

FileInv(f) ==
  /\ f \in File
  /\ f.todo \subseteq PiecesOf(f.content)
  /\ \A i \in PiecesOf(f.content) \ f.todo : Stored(table, Sha256(PieceOf(f.content, i)))

StackInv ==
  /\ tree \in Trees
  /\ stack \in Seq(Call(DOMAIN table))
  /\ \A i \in DOMAIN stack : stack[i].todo \subseteq DOMAIN tree[stack[i].directory]
  /\ importing = {} \/ \E f : importing = {f} /\ FileInv(f) /\ stack # <<>>
  /\ imports \in 0 .. MaxImports
  /\ \A r \in roots : r.tree \in Trees
  /\ failed \in BOOLEAN

LEMMA StackTyped == StackInv => TypeOK
  <1> SUFFICES ASSUME StackInv PROVE TypeOK
    OBVIOUS
  <1>1. Cardinality(importing) <= 1
    <2>1. CASE importing = {}
      BY <2>1, FS_EmptySet
    <2>2. CASE \E f : importing = {f}
      BY <2>2, FS_Singleton
    <2> QED
      BY <2>1, <2>2 DEF StackInv
  <1>2. ASSUME NEW i \in DOMAIN stack
        PROVE  /\ stack[i].todo \subseteq DOMAIN tree[stack[i].directory]
               /\ stack[i].links \in 0 .. MaxLinks
               /\ \A j \in DOMAIN stack[i].encoded : stack[i].encoded[j].kind = "entry"
    <2>1. stack[i] \in Call(DOMAIN table)
      BY DEF StackInv
    <2>2. stack[i].encoded \in Seq(Entry(DOMAIN table))
      BY <2>1 DEF Call
    <2>3. \A j \in DOMAIN stack[i].encoded : stack[i].encoded[j] \in Entry(DOMAIN table)
      BY <2>2
    <2> QED
      BY <2>1, <2>3 DEF StackInv, Call, Entry
  <1> QED
    BY <1>1, <1>2 DEF StackInv, TypeOK

LEMMA InitStack == Init => StackInv
  <1> SUFFICES ASSUME Init PROVE StackInv
    OBVIOUS
  <1>1. stack = <<>> /\ importing = {} /\ roots = {} /\ imports = 0 /\ tree \in Trees
        /\ failed = FALSE
    BY DEF Init
  <1>2. stack \in Seq(Call(DOMAIN table)) /\ DOMAIN stack = {}
    BY <1>1
  <1>3. imports \in 0 .. MaxImports
    BY <1>1, BoundsAssumption
  <1>4. failed \in BOOLEAN
    BY <1>1
  <1>5. \A r \in roots : r.tree \in Trees
    BY <1>1
  <1> QED
    BY <1>1, <1>2, <1>3, <1>4, <1>5 DEF StackInv

-----------------------------------------------------------------------------
(* The operations on the stack. *)

LEMMA CallsGrow ==
  ASSUME NEW T, NEW U, T \subseteq U
  PROVE  Call(T) \subseteq Call(U) /\ Seq(Call(T)) \subseteq Seq(Call(U))
  <1>1. Entry(T) \subseteq Entry(U)
    BY DEF Entry
  <1>2. Seq(Entry(T)) \subseteq Seq(Entry(U))
    BY <1>1
  <1>3. Call(T) \subseteq Call(U)
    BY <1>2 DEF Call
  <1> QED
    BY <1>3

\* encode_entry adds one entry to the innermost call.
LEMMA EncodeCall ==
  ASSUME NEW T, NEW frames \in Seq(Call(T)), frames # <<>>, NEW entry \in Entry(T)
  PROVE  /\ Encode(frames, entry) \in Seq(Call(T))
         /\ Len(Encode(frames, entry)) = Len(frames)
         /\ \A i \in 1 .. Len(frames) :
              /\ Encode(frames, entry)[i].directory = frames[i].directory
              /\ Encode(frames, entry)[i].todo = frames[i].todo
              /\ Encode(frames, entry)[i].name = frames[i].name
              /\ Encode(frames, entry)[i].encoded =
                   IF i = Len(frames) THEN Append(frames[i].encoded, entry)
                   ELSE frames[i].encoded
  <1> DEFINE n == Len(frames)
             last == [frames[n] EXCEPT !.encoded = Append(@, entry)]
  <1>1. n \in Nat \ {0} /\ n \in 1 .. n /\ frames[n] \in Call(T)
    OBVIOUS
  <1>2. frames[n].encoded \in Seq(Entry(T))
    BY <1>1 DEF Call
  <1>3. Append(frames[n].encoded, entry) \in Seq(Entry(T))
    BY <1>2
  <1>4. /\ last \in Call(T)
        /\ last.directory = frames[n].directory
        /\ last.todo = frames[n].todo
        /\ last.name = frames[n].name
        /\ last.encoded = Append(frames[n].encoded, entry)
    BY <1>1, <1>3 DEF Call
  <1>5. Encode(frames, entry) = [frames EXCEPT ![n] = last]
    BY DEF Encode
  <1> HIDE DEF last
  <1>6. /\ [frames EXCEPT ![n] = last] \in Seq(Call(T))
        /\ Len([frames EXCEPT ![n] = last]) = n
        /\ \A i \in 1 .. n : [frames EXCEPT ![n] = last][i] = IF i = n THEN last ELSE frames[i]
    BY <1>1, <1>4, ExceptSeq
  <1> QED
    BY <1>4, <1>5, <1>6

\* The iterator goes on to the next entry.
LEMMA AdvanceCall ==
  ASSUME NEW T, stack \in Seq(Call(T)), stack # <<>>, NEW name
  PROVE  /\ Advance(name) \in Seq(Call(T))
         /\ Len(Advance(name)) = Len(stack)
         /\ \A i \in 1 .. Len(stack) :
              /\ Advance(name)[i].directory = stack[i].directory
              /\ Advance(name)[i].todo =
                   IF i = Len(stack) THEN stack[i].todo \ {name} ELSE stack[i].todo
              /\ Advance(name)[i].name = stack[i].name
              /\ Advance(name)[i].encoded = stack[i].encoded
  <1> DEFINE n == Len(stack)
             last == [stack[n] EXCEPT !.todo = @ \ {name}]
  <1>1. n \in Nat \ {0} /\ n \in 1 .. n /\ stack[n] \in Call(T)
    OBVIOUS
  <1>2. /\ last \in Call(T)
        /\ last.directory = stack[n].directory
        /\ last.todo = stack[n].todo \ {name}
        /\ last.name = stack[n].name
        /\ last.encoded = stack[n].encoded
    BY <1>1 DEF Call
  <1>3. Advance(name) = [stack EXCEPT ![n] = last]
    BY DEF Advance
  <1> HIDE DEF last
  <1>4. /\ [stack EXCEPT ![n] = last] \in Seq(Call(T))
        /\ Len([stack EXCEPT ![n] = last]) = n
        /\ \A i \in 1 .. n : [stack EXCEPT ![n] = last][i] = IF i = n THEN last ELSE stack[i]
    BY <1>1, <1>2, ExceptSeq
  <1> QED
    BY <1>2, <1>3, <1>4

-----------------------------------------------------------------------------
(* One lemma for each action. *)

\* At most one row is stored, after everything that it mentions.
StoreStep ==
  \/ table' = table
  \/ \E content : References(content) \subseteq DOMAIN table /\ table' = StoreBlob(table, content)

\* What a step has to leave behind when it does not change the tree.
LEMMA StackNext ==
  ASSUME tree \in Trees, tree' = tree,
         stack' \in Seq(Call(DOMAIN table')),
         \A i \in DOMAIN stack' : stack'[i].todo \subseteq DOMAIN tree[stack'[i].directory],
         importing' = {} \/ \E f : importing' = {f} /\ FileInv(f)' /\ stack' # <<>>,
         imports' \in 0 .. MaxImports,
         \A r \in roots' : r.tree \in Trees,
         failed' \in BOOLEAN
  PROVE  StackInv'
  <1>1. Call(DOMAIN table)' = Call(DOMAIN table')
    BY DEF Call, Entry
  <1> QED
    BY <1>1 DEF StackInv

\* What is stored stays stored.
LEMMA FileInvStays ==
  ASSUME NEW f, FileInv(f), DOMAIN table \subseteq DOMAIN table'
  PROVE  FileInv(f)'
  BY DEF FileInv, Stored, File, PiecesOf, Name

LEMMA NamesOfTree ==
  ASSUME tree \in Trees, NEW d \in DOMAIN tree
  PROVE  DOMAIN tree[d] \subseteq Name
  <1>1. DOMAIN tree[d] \in {DOMAIN tree[e] : e \in DOMAIN tree}
    OBVIOUS
  <1>2. DOMAIN tree[d] \subseteq UNION {DOMAIN tree[e] : e \in DOMAIN tree}
    BY <1>1
  <1>3. UNION {DOMAIN tree[e] : e \in DOMAIN tree}
          \in {UNION {DOMAIN t[e] : e \in DOMAIN t} : t \in Trees}
    OBVIOUS
  <1> QED
    BY <1>2, <1>3 DEF Name

LEMMA FrameIsCall ==
  ASSUME NEW T, tree \in Trees, NEW d \in DOMAIN tree, NEW name \in Name,
         NEW links \in 0 .. MaxLinks
  PROVE  Frame(d, name, links) \in Call(T)
  BY NamesOfTree DEF Frame, Call

LEMMA StartStep == StackInv /\ Start => StackInv' /\ StoreStep
  <1> SUFFICES ASSUME StackInv, Start PROVE StackInv' /\ StoreStep
    OBVIOUS
  <1> DEFINE frame == Frame(RootDir, "", 0)
  <1>1. tree \in Trees /\ RootDir \in DOMAIN tree
    BY TreesAssumption DEF StackInv
  <1>2. frame \in Call(DOMAIN table)
    <2>1. 0 \in 0 .. MaxLinks /\ "" \in Name
      BY BoundsAssumption DEF Name
    <2> QED
      BY <1>1, <2>1, FrameIsCall
  <1>3. frame.todo = DOMAIN tree[frame.directory]
    BY DEF Frame
  <1>4. stack' = <<frame>> /\ table' = table /\ importing' = {}
    BY DEF Start, Idle, Running, StackInv
  <1> HIDE DEF frame
  <1>5. stack' \in Seq(Call(DOMAIN table')) /\ DOMAIN stack' = {1} /\ stack'[1] = frame
    BY <1>2, <1>4
  <1>6. \A i \in DOMAIN stack' : stack'[i].todo \subseteq DOMAIN tree[stack'[i].directory]
    BY <1>3, <1>5
  <1>7. imports' \in 0 .. MaxImports
    <2>1. imports \in 0 .. MaxImports /\ imports < MaxImports /\ imports' = imports + 1
      BY DEF Start, StackInv
    <2> QED
      BY <2>1, BoundsAssumption
  <1> QED
    BY <1>1, <1>4, <1>5, <1>6, <1>7, StackNext DEF Start, StackInv, StoreStep

LEMMA AbandonStep == StackInv /\ Abandon => StackInv' /\ StoreStep
  <1> SUFFICES ASSUME StackInv, Abandon PROVE StackInv' /\ StoreStep
    OBVIOUS
  <1>1. stack' \in Seq(Call(DOMAIN table')) /\ DOMAIN stack' = {}
    BY DEF Abandon
  <1>2. failed' \in BOOLEAN
    BY DEF Abandon
  <1> QED
    BY <1>1, <1>2, StackNext DEF Abandon, StackInv, StoreStep

LEMMA ChangeTreeStep == StackInv /\ ChangeTree => StackInv' /\ StoreStep
  <1> SUFFICES ASSUME StackInv, ChangeTree PROVE StackInv' /\ StoreStep
    OBVIOUS
  <1>1. stack = <<>> /\ stack' = <<>> /\ importing' = {}
    BY DEF ChangeTree, Idle, Running, StackInv
  <1>2. (stack \in Seq(Call(DOMAIN table)))' /\ DOMAIN stack' = {}
    BY <1>1
  <1>3. tree' \in Trees /\ table' = table
    BY DEF ChangeTree
  <1>4. /\ imports' \in 0 .. MaxImports
        /\ \A r \in roots' : r.tree \in Trees
        /\ failed' \in BOOLEAN
    BY DEF ChangeTree, StackInv
  <1> QED
    BY <1>1, <1>2, <1>3, <1>4 DEF StackInv, StoreStep

\* What NextEntry has to do with the entry of a name.
LEMMA EntryOfTree ==
  ASSUME tree \in Trees, NEW d \in DOMAIN tree, NEW name \in DOMAIN tree[d]
  PROVE  /\ name \in Name
         /\ tree[d][name].type \in {"regular_file", "directory", "other"}
         /\ tree[d][name].type = "regular_file" => tree[d][name].content \in Seq(Byte)
         /\ tree[d][name].type = "directory" => tree[d][name].directory \in DOMAIN tree
  BY TreesAssumption, NamesOfTree

\* The innermost call.
LEMMA TopIsCall ==
  ASSUME StackInv, Running
  PROVE  /\ Top \in Call(DOMAIN table)
         /\ Len(stack) \in Nat \ {0}
         /\ Len(stack) \in DOMAIN stack
         /\ Top.directory \in DOMAIN tree
         /\ Top.todo \subseteq DOMAIN tree[Top.directory]
         /\ Top.links \in 0 .. MaxLinks
         /\ Top.name \in Name
         /\ Top.encoded \in Seq(Entry(DOMAIN table))
  <1>1. stack \in Seq(Call(DOMAIN table)) /\ stack # <<>>
    BY DEF StackInv, Running
  <1>2. Len(stack) \in Nat \ {0} /\ Len(stack) \in DOMAIN stack /\ Top \in Call(DOMAIN table)
    BY <1>1 DEF Top
  <1> QED
    BY <1>2 DEF StackInv, Top, Call

LEMMA NextEntryStep ==
  ASSUME StackInv, NEW name, NextEntry(name)
  PROVE  StackInv' /\ StoreStep
  <1> DEFINE entry == tree[Top.directory][name]
             links == Top.links + (IF entry.link THEN 1 ELSE 0)
             called == Advance(name)
             n == Len(stack)
             file == [name |-> name, content |-> entry.content,
                      todo |-> 0 .. NumberOfPieces(Len(entry.content)) - 1]
  <1>1. Running /\ name \in Top.todo
    BY DEF NextEntry
  <1>2. CASE links > MaxLinks
    BY <1>2, AbandonStep DEF NextEntry
  <1>3. CASE ~ (links > MaxLinks)
    <2>1. /\ stack' = IF entry.type = "directory"
                      THEN Append(called, Frame(entry.directory, name, links)) ELSE called
          /\ importing' = IF entry.type = "regular_file" THEN {file} ELSE {}
          /\ UNCHANGED <<tree, table, imports, roots, failed>>
      BY <1>3 DEF NextEntry
    <2>2. /\ name \in DOMAIN tree[Top.directory] /\ name \in Name /\ tree \in Trees
          /\ entry.type \in {"regular_file", "directory", "other"}
          /\ entry.type = "regular_file" => entry.content \in Seq(Byte)
          /\ entry.type = "directory" => entry.directory \in DOMAIN tree
      BY <1>1, TopIsCall, EntryOfTree DEF StackInv
    <2>3. links \in 0 .. MaxLinks
      BY <1>1, <1>3, TopIsCall, BoundsAssumption
    <2>4. /\ called \in Seq(Call(DOMAIN table)) /\ called # <<>>
          /\ DOMAIN called = 1 .. n /\ Len(called) = n /\ n \in Nat
          /\ \A i \in 1 .. n : called[i].todo \subseteq DOMAIN tree[called[i].directory]
      <3>1. stack \in Seq(Call(DOMAIN table)) /\ stack # <<>> /\ DOMAIN stack = 1 .. n
        BY <1>1 DEF Running, StackInv
      <3>2. /\ called \in Seq(Call(DOMAIN table)) /\ Len(called) = n
            /\ \A i \in 1 .. n :
                 /\ called[i].directory = stack[i].directory
                 /\ called[i].todo = IF i = n THEN stack[i].todo \ {name} ELSE stack[i].todo
        BY <3>1, AdvanceCall, ZenonT(40)
      <3>3. \A i \in 1 .. n : stack[i].todo \subseteq DOMAIN tree[stack[i].directory]
        BY <3>1 DEF StackInv
      <3>4. n \in Nat \ {0}
        BY <3>1
      <3> HIDE DEF called, n
      <3>5. called # <<>> /\ DOMAIN called = 1 .. n
        BY <3>2, <3>4
      <3>6. \A i \in 1 .. n : called[i].todo \subseteq DOMAIN tree[called[i].directory]
        BY <3>2, <3>3
      <3> QED
        BY <3>2, <3>4, <3>5, <3>6
    <2> HIDE DEF called, links, entry
    <2>5. CASE entry.type = "directory"
      <3> DEFINE frame == Frame(entry.directory, name, links)
      <3>1. frame \in Call(DOMAIN table) /\ frame.todo = DOMAIN tree[frame.directory]
        BY <2>2, <2>3, <2>5, FrameIsCall DEF Frame
      <3> HIDE DEF frame
      <3>2. /\ Append(called, frame) \in Seq(Call(DOMAIN table))
            /\ DOMAIN Append(called, frame) = 1 .. n + 1
            /\ \A i \in 1 .. n : Append(called, frame)[i] = called[i]
            /\ Append(called, frame)[n + 1] = frame
        BY <2>4, <3>1
      <3>3. \A i \in DOMAIN stack' : stack'[i].todo \subseteq DOMAIN tree[stack'[i].directory]
        <4>1. stack' = Append(called, frame)
          BY <2>1, <2>5 DEF frame
        <4> QED
          BY <2>4, <3>1, <3>2, <4>1
      <3> QED
        BY <2>1, <2>2, <2>5, <3>2, <3>3, StackNext DEF StackInv, StoreStep, frame
    <2>6. CASE entry.type = "regular_file"
      <3>1. PICK f : f = file
        OBVIOUS
      <3>2. FileInv(f)'
        <4>1. NumberOfPieces(Len(entry.content)) \in Nat
          BY <2>2, <2>6, FileParts
        <4>2. f \in File /\ f.todo = PiecesOf(f.content)
          BY <2>2, <2>6, <3>1, <4>1 DEF File, PiecesOf
        <4> QED
          BY <4>2 DEF FileInv
      <3>3. importing' = {f} /\ stack' = called
        BY <2>1, <2>6, <3>1
      <3> HIDE DEF file
      <3>4. \A i \in DOMAIN stack' : stack'[i].todo \subseteq DOMAIN tree[stack'[i].directory]
        BY <2>4, <3>3
      <3>5. stack' \in Seq(Call(DOMAIN table'))
        BY <2>1, <2>4, <3>3
      <3>6. imports' \in 0 .. MaxImports /\ (\A r \in roots' : r.tree \in Trees) /\ failed' \in BOOLEAN
        BY <2>1 DEF StackInv
      <3>7. StackInv'
        BY <2>1, <2>2, <2>4, <3>2, <3>3, <3>4, <3>5, <3>6, StackNext
      <3> QED
        BY <2>1, <3>7 DEF StoreStep
    <2>7. CASE entry.type = "other"
      <3>1. importing' = {} /\ stack' = called
        BY <2>1, <2>7
      <3> QED
        BY <2>1, <2>2, <2>4, <3>1, StackNext DEF StackInv, StoreStep
    <2> QED
      BY <2>2, <2>5, <2>6, <2>7
  <1> QED
    BY <1>2, <1>3

\* A step that stores a row and leaves the calls as they are.
LEMMA RowStep ==
  ASSUME StackInv, NEW content, table' = StoreBlob(table, content)
  PROVE  /\ DOMAIN table \subseteq DOMAIN table'
         /\ Sha256(content) \in DOMAIN table'
         /\ stack \in Seq(Call(DOMAIN table'))
  <1>1. DOMAIN table \subseteq DOMAIN table' /\ Sha256(content) \in DOMAIN table'
    BY StoredBlob
  <1> QED
    BY <1>1, CallsGrow DEF StackInv

LEMMA StorePieceStep == StackInv /\ StorePiece => StackInv' /\ StoreStep
  <1> SUFFICES ASSUME StackInv, StorePiece PROVE StackInv' /\ StoreStep
    OBVIOUS
  <1>1. PICK f \in importing : \E i \in f.todo :
          /\ table' = StoreBlob(table, PieceOf(f.content, i))
          /\ importing' = {[f EXCEPT !.todo = @ \ {i}]}
          /\ UNCHANGED <<tree, stack, imports, roots, failed>>
    BY DEF StorePiece
  <1>2. PICK i \in f.todo :
          /\ table' = StoreBlob(table, PieceOf(f.content, i))
          /\ importing' = {[f EXCEPT !.todo = @ \ {i}]}
          /\ UNCHANGED <<tree, stack, imports, roots, failed>>
    BY <1>1
  <1>3. FileInv(f) /\ stack # <<>>
    BY DEF StackInv
  <1>4. f \in File /\ i \in PiecesOf(f.content) /\ f.content \in Seq(Byte)
    BY <1>2, <1>3 DEF FileInv, File
  <1>5. References(PieceOf(f.content, i)) \subseteq DOMAIN table
    BY <1>4, PieceMentionsNothing
  <1>6. /\ DOMAIN table \subseteq DOMAIN table'
        /\ Sha256(PieceOf(f.content, i)) \in DOMAIN table'
        /\ stack \in Seq(Call(DOMAIN table'))
    BY <1>2, RowStep
  <1> DEFINE g == [f EXCEPT !.todo = @ \ {i}]
  <1>7. g \in File /\ g.content = f.content /\ g.todo = f.todo \ {i}
    BY <1>4 DEF File
  <1>8. FileInv(g)'
    <2>1. g.todo \subseteq PiecesOf(g.content)
      BY <1>3, <1>7 DEF FileInv
    <2>2. \A j \in PiecesOf(g.content) \ g.todo : Sha256(PieceOf(g.content, j)) \in DOMAIN table'
      <3>1. \A j \in PiecesOf(f.content) \ f.todo : Sha256(PieceOf(f.content, j)) \in DOMAIN table
        BY <1>3 DEF FileInv, Stored
      <3> QED
        BY <1>6, <1>7, <3>1
    <2> HIDE DEF g
    <2> QED
      BY <1>7, <2>1, <2>2 DEF FileInv, Stored
  <1>9. importing' = {g} /\ stack' = stack
    BY <1>2
  <1> HIDE DEF g
  <1>10. StackInv'
    BY <1>2, <1>3, <1>6, <1>8, <1>9, StackNext DEF StackInv
  <1> QED
    BY <1>2, <1>5, <1>10 DEF StoreStep

LEMMA FinishFileStep == StackInv /\ FinishFile => StackInv' /\ StoreStep
  <1> SUFFICES ASSUME StackInv, FinishFile PROVE StackInv' /\ StoreStep
    OBVIOUS
  <1>1. PICK f \in importing :
          /\ AllStored(f)
          /\ table' = StoreBlob(table, FileIndex(f.content))
          /\ stack' = Encode(stack, DirectoryEntry("regular_file", f.name,
                               Sha256(FileIndex(f.content)), Len(f.content)))
          /\ importing' = {}
          /\ UNCHANGED <<tree, imports, roots, failed>>
    BY DEF FinishFile
  <1> DEFINE entry == DirectoryEntry("regular_file", f.name, Sha256(FileIndex(f.content)),
                                     Len(f.content))
  <1>2. FileInv(f) /\ stack # <<>>
    BY DEF StackInv
  <1>3. f \in File /\ f.content \in Seq(Byte) /\ f.name \in Name /\ f.todo = {}
    BY <1>1, <1>2 DEF FileInv, File, AllStored
  <1>4. \A i \in PiecesOf(f.content) : Sha256(PieceOf(f.content, i)) \in DOMAIN table
    BY <1>2, <1>3 DEF FileInv, Stored
  <1>5. References(FileIndex(f.content)) \subseteq DOMAIN table
    BY <1>3, <1>4, IndexMentionsPieces
  <1>6. /\ DOMAIN table \subseteq DOMAIN table'
        /\ Sha256(FileIndex(f.content)) \in DOMAIN table'
        /\ stack \in Seq(Call(DOMAIN table'))
    BY <1>1, RowStep
  <1>7. entry \in Entry(DOMAIN table')
    BY <1>3, <1>6 DEF DirectoryEntry, Entry
  <1> HIDE DEF entry
  <1>8. /\ stack' \in Seq(Call(DOMAIN table'))
        /\ \A i \in DOMAIN stack' : stack'[i].todo \subseteq DOMAIN tree[stack'[i].directory]
    <2>1. stack' = Encode(stack, entry)
      BY <1>1 DEF entry
    <2>2. /\ stack' \in Seq(Call(DOMAIN table'))
          /\ Len(stack') = Len(stack)
          /\ \A i \in 1 .. Len(stack) : /\ stack'[i].directory = stack[i].directory
                                        /\ stack'[i].todo = stack[i].todo
      BY <1>2, <1>6, <1>7, <2>1, EncodeCall
    <2>3. DOMAIN stack' = 1 .. Len(stack) /\ DOMAIN stack = 1 .. Len(stack)
      BY <1>6, <2>2
    <2> QED
      BY <2>2, <2>3 DEF StackInv
  <1>9. StackInv'
    BY <1>1, <1>8, StackNext DEF StackInv
  <1> QED
    BY <1>1, <1>5, <1>9 DEF StoreStep

LEMMA FinishDirectoryStep == StackInv /\ FinishDirectory => StackInv' /\ StoreStep
  <1> SUFFICES ASSUME StackInv, FinishDirectory PROVE StackInv' /\ StoreStep
    OBVIOUS
  <1> DEFINE n == Len(stack)
             callers == Callers(stack)
  <1>1. Running /\ importing' = {} /\ UNCHANGED <<tree, imports, failed>>
    BY DEF FinishDirectory
  <1>2. PICK content : content = Top.encoded
    OBVIOUS
  <1>3. content \in Seq(Entry(DOMAIN table)) /\ table' = StoreBlob(table, content)
    BY <1>1, <1>2, TopIsCall DEF FinishDirectory
  <1>4. References(content) \subseteq DOMAIN table
    <2>1. \A i \in DOMAIN content : content[i] \in Entry(DOMAIN table)
      BY <1>3
    <2>2. \A i \in DOMAIN content : content[i].kind = "entry" /\ content[i].hash_code \in DOMAIN table
      BY <2>1 DEF Entry
    <2> QED
      BY <2>2, EntriesMention
  <1>5. /\ DOMAIN table \subseteq DOMAIN table'
        /\ Sha256(content) \in DOMAIN table'
        /\ stack \in Seq(Call(DOMAIN table'))
    BY <1>3, RowStep
  <1>6. imports' \in 0 .. MaxImports /\ failed' \in BOOLEAN /\ tree \in Trees /\ tree' = tree
    BY <1>1 DEF StackInv
  <1>7. CASE n = 1
    <2>1. stack' = <<>> /\ roots' = roots \cup {[tree |-> tree, root |-> Sha256(content)]}
      BY <1>2, <1>7 DEF FinishDirectory
    <2>2. stack' \in Seq(Call(DOMAIN table')) /\ DOMAIN stack' = {}
      BY <2>1
    <2>3. \A r \in roots' : r.tree \in Trees
      BY <1>6, <2>1 DEF StackInv
    <2>4. StackInv'
      BY <1>1, <1>6, <2>2, <2>3, StackNext
    <2> QED
      BY <1>3, <1>4, <2>4 DEF StoreStep
  <1>8. CASE n # 1
    <2> DEFINE entry == DirectoryEntry("directory", Top.name, Sha256(content), 0)
    <2>1. stack' = Encode(callers, entry) /\ roots' = roots
      BY <1>2, <1>8 DEF FinishDirectory
    <2>2. entry \in Entry(DOMAIN table')
      BY <1>1, <1>5, TopIsCall DEF DirectoryEntry, Entry
    <2>3. n \in Nat \ {0, 1}
      BY <1>1, <1>8, TopIsCall
    <2>4. /\ callers \in Seq(Call(DOMAIN table'))
          /\ Len(callers) = n - 1
          /\ \A i \in 1 .. n - 1 : callers[i] = stack[i]
      <3> HIDE DEF n
      <3>1. n = Len(stack)
        BY DEF n
      <3> QED
        BY <1>5, <2>3, <3>1 DEF Callers
    <2> HIDE DEF entry, n, callers
    <2>5. /\ stack' \in Seq(Call(DOMAIN table'))
          /\ Len(stack') = n - 1
          /\ \A i \in 1 .. n - 1 : /\ stack'[i].directory = callers[i].directory
                                   /\ stack'[i].todo = callers[i].todo
      <3>1. callers # <<>>
        BY <2>3, <2>4
      <3> QED
        BY <2>1, <2>2, <2>4, <3>1, EncodeCall
    <2>6. DOMAIN stack' = 1 .. n - 1 /\ \A i \in 1 .. n - 1 : i \in DOMAIN stack
      BY <1>5, <2>3, <2>5 DEF n
    <2>7. \A i \in DOMAIN stack' : stack'[i].todo \subseteq DOMAIN tree[stack'[i].directory]
      <3>1. \A i \in DOMAIN stack : stack[i].todo \subseteq DOMAIN tree[stack[i].directory]
        BY DEF StackInv
      <3> QED
        BY <2>4, <2>5, <2>6, <3>1
    <2>8. \A r \in roots' : r.tree \in Trees
      BY <2>1 DEF StackInv
    <2>9. StackInv'
      BY <1>1, <1>6, <2>5, <2>7, <2>8, StackNext
    <2> QED
      BY <1>3, <1>4, <2>9 DEF StoreStep
  <1> QED
    BY <1>7, <1>8

LEMMA NextStack == StackInv /\ [Next]_vars => StackInv' /\ StoreStep
  <1> SUFFICES ASSUME StackInv, [Next]_vars PROVE StackInv' /\ StoreStep
    OBVIOUS
  <1>1. CASE Start
    BY <1>1, StartStep
  <1>2. CASE ImportStep
    BY <1>2, NextEntryStep, StorePieceStep, FinishFileStep, FinishDirectoryStep DEF ImportStep
  <1>3. CASE ImportFails
    BY <1>3, AbandonStep DEF ImportFails
  <1>4. CASE ChangeTree
    BY <1>4, ChangeTreeStep
  <1>5. CASE UNCHANGED vars
    <2>1. UNCHANGED <<tree, table, stack, importing, imports, roots, failed>>
      BY <1>5 DEF vars
    <2>2. StackInv'
      BY <2>1 DEF StackInv, Call, Entry, FileInv, File, Stored
    <2> QED
      BY <2>1, <2>2 DEF StoreStep
  <1> QED
    BY <1>1, <1>2, <1>3, <1>4, <1>5 DEF Next, Finished

LEMMA StackInvHolds == Spec => []StackInv
  BY InitStack, NextStack, PTL DEF Spec

\* The variables have their types (import.cpp:25 to 66).
THEOREM TypesHold == Spec => []TypeOK
  BY StackInvHolds, StackTyped, PTL

-----------------------------------------------------------------------------
(* Writers of the table keep the promise of ClosedStore. *)

\* A row that is stored after everything it mentions is a step of ClosedStore,
\* or it was there already.
LEMMA StoreStepIsPut == StoreStep => [Store!Next]_table
  <1> SUFFICES ASSUME NEW content, References(content) \subseteq DOMAIN table,
                      table' = StoreBlob(table, content), table' # table
               PROVE  Store!Next
    BY DEF StoreStep
  <1> DEFINE h == Sha256(content)
  <1>1. h \notin DOMAIN table /\ table' = InsertRow(table, content)
    BY DEF StoreBlob, Stored
  <1>2. /\ DOMAIN table' = DOMAIN table \cup {h}
        /\ table'[h] = content
        /\ \A g \in DOMAIN table : table'[g] = table[g]
    BY <1>1 DEF InsertRow
  <1>3. h = Sha256(table'[h]) /\ References(table'[h]) \subseteq DOMAIN table
    BY <1>2
  <1> HIDE DEF h
  <1>4. Store!Put(h)
    BY <1>2, <1>3 DEF Store!Put, Store!Sha256, Store!References, Sha256, References
  <1> QED
    BY <1>2, <1>4 DEF Store!Next

\* An import stores a row only after everything that the row mentions, and it
\* changes none: a reader can follow a digest at any moment, also of an import
\* that failed (import.cpp:25 to 66 and 138 to 148).
THEOREM ImportsKeepStoreClosed == Spec => StoreSpec
  <1>1. Init => Store!Init
    BY DEF Init, Store!Init, EmptyTable, Store!EmptyTable
  <1>2. StackInv /\ [Next]_vars => [Store!Next]_table
    BY NextStack, StoreStepIsPut
  <1> QED
    BY <1>1, <1>2, StackInvHolds, PTL DEF Spec, StoreSpec, Store!Spec

-----------------------------------------------------------------------------
(* What a reader gets from ClosedStore, whoever writes. *)

Readable == ContentAddressed(table) /\ Closed(table)

LEMMA PutKeepsReadable ==
  ASSUME Readable, NEW hash_code, Store!Put(hash_code)
  PROVE  Readable'
  <1>1. /\ DOMAIN table' = DOMAIN table \cup {hash_code}
        /\ \A h \in DOMAIN table : table'[h] = table[h]
        /\ hash_code = Sha256(table'[hash_code])
        /\ References(table'[hash_code]) \subseteq DOMAIN table
    BY DEF Store!Put, Store!Sha256, Store!References, Sha256, References
  <1>2. ASSUME NEW h \in DOMAIN table'
        PROVE  h = Sha256(table'[h]) /\ References(table'[h]) \subseteq DOMAIN table'
    <2>1. CASE h \in DOMAIN table
      BY <1>1, <2>1 DEF Readable, ContentAddressed, Closed
    <2>2. CASE h = hash_code
      BY <1>1, <2>2
    <2> QED
      BY <1>1, <1>2, <2>1, <2>2
  <1> QED
    BY <1>2 DEF Readable, ContentAddressed, Closed

\* Every row is stored under its own digest, and whatever a row mentions is
\* stored: load_blob finds each digest that a loaded blob leads to, at any
\* moment (blob_storage.cpp:103, read_file.cpp:32 and 39, operations.cpp:67).
THEOREM StoreIsReadable == StoreSpec => []Readable
  <1>1. Store!Init => Readable
    BY DEF Store!Init, Store!EmptyTable, Readable, ContentAddressed, Closed
  <1>2. Readable /\ [Store!Next]_table => Readable'
    <2> SUFFICES ASSUME Readable, [Store!Next]_table PROVE Readable'
      OBVIOUS
    <2>1. CASE Store!Next
      BY <2>1, PutKeepsReadable DEF Store!Next
    <2>2. CASE UNCHANGED table
      BY <2>2 DEF Readable, ContentAddressed, Closed
    <2> QED
      BY <2>1, <2>2
  <1> QED
    BY <1>1, <1>2, PTL DEF StoreSpec, Store!Spec

-----------------------------------------------------------------------------
(***************************************************************************)
(* Paths on the disk.                                                      *)
(***************************************************************************)

RootOnDisk == [type |-> "directory", directory |-> RootDir, link |-> FALSE]

\* What one more name leads to.
WalkBelow(t, found, name) ==
  UNION {{t[d.directory][n] : n \in {name} \cap DOMAIN t[d.directory]} :
           d \in {e \in found : e.type = "directory"}}

\* What the first i names of a path lead to.
IsWalk(found, t, path, n) ==
  found = [i \in 0 .. n |-> IF i = 0 THEN {RootOnDisk} ELSE WalkBelow(t, found[i - 1], path[i])]

OnDisk(t) == {RootOnDisk} \cup UNION {{t[d][n] : n \in DOMAIN t[d]} : d \in DOMAIN t}

LEMMA WalkSteps ==
  ASSUME NEW t, NEW path, NEW n \in Nat, NEW found
  PROVE  IsWalk(found, t, path, n) =>
           /\ found[0] = {RootOnDisk}
           /\ \A i \in 1 .. n : found[i] = WalkBelow(t, found[i - 1], path[i])
  <1> SUFFICES ASSUME IsWalk(found, t, path, n)
               PROVE  /\ found[0] = {RootOnDisk}
                      /\ \A i \in 1 .. n : found[i] = WalkBelow(t, found[i - 1], path[i])
    OBVIOUS
  <1>1. 0 \in 0 .. n /\ \A i \in 1 .. n : i \in 0 .. n /\ i # 0
    OBVIOUS
  <1>2. \A i \in 0 .. n : found[i] = IF i = 0 THEN {RootOnDisk}
                                     ELSE WalkBelow(t, found[i - 1], path[i])
    BY DEF IsWalk
  <1> QED
    BY <1>1, <1>2

\* A directory entry leads to a directory of the tree.
Leads(t, e) == e.type = "directory" => e.directory \in DOMAIN t

LEMMA OnDiskLeads ==
  ASSUME NEW t \in Trees, NEW e \in OnDisk(t)
  PROVE  Leads(t, e) /\ e.type \in {"regular_file", "directory", "other"}
  <1>1. CASE e = RootOnDisk
    BY <1>1, TreesAssumption DEF RootOnDisk, Leads
  <1>2. CASE e # RootOnDisk
    <2>1. PICK d \in DOMAIN t : e \in {t[d][n] : n \in DOMAIN t[d]}
      BY <1>2 DEF OnDisk
    <2>2. PICK n \in DOMAIN t[d] : e = t[d][n]
      BY <2>1
    <2> QED
      BY <2>2, TreesAssumption DEF Leads
  <1> QED
    BY <1>1, <1>2

LEMMA WalkStaysOnDisk ==
  ASSUME NEW t \in Trees, NEW found \in SUBSET OnDisk(t), NEW name
  PROVE  WalkBelow(t, found, name) \in SUBSET OnDisk(t)
  <1>1. ASSUME NEW d \in found, d.type = "directory"
        PROVE  {t[d.directory][n] : n \in {name} \cap DOMAIN t[d.directory]} \subseteq OnDisk(t)
    <2>1. d.directory \in DOMAIN t
      BY <1>1, OnDiskLeads DEF Leads
    <2>2. {t[d.directory][n] : n \in DOMAIN t[d.directory]} \subseteq OnDisk(t)
      BY <2>1 DEF OnDisk
    <2> QED
      BY <2>2
  <1> QED
    BY <1>1 DEF WalkBelow

LEMMA WalkExists ==
  ASSUME NEW t \in Trees, NEW path, NEW n \in Nat
  PROVE  \E found : IsWalk(found, t, path, n)
  <1> DEFINE U == SUBSET OnDisk(t)
             base == {RootOnDisk}
             step == [x \in Nat \X U |-> WalkBelow(t, x[2], path[x[1]])]
  <1>1. base \in U
    BY DEF OnDisk
  <1>2. step \in [Nat \X U -> U]
    BY WalkStaysOnDisk
  <1> HIDE DEF U
  <1>3. \A i \in Nat, x \in U : step[<<i, x>>] = WalkBelow(t, x, path[i])
    OBVIOUS
  <1> HIDE DEF base, step
  <1>4. PICK f \in [0 .. n -> U] : IsRecursive(f, base, step, n)
    BY <1>1, <1>2, RecursionExists
  <1>5. \A i \in 0 .. n : i # 0 => step[<<i, f[i - 1]>>] = WalkBelow(t, f[i - 1], path[i])
    <2> SUFFICES ASSUME NEW i \in 0 .. n, i # 0
                 PROVE  step[<<i, f[i - 1]>>] = WalkBelow(t, f[i - 1], path[i])
      OBVIOUS
    <2>1. i \in Nat /\ i - 1 \in 0 .. n
      OBVIOUS
    <2> QED
      BY <1>3, <2>1
  <1>6. IsWalk(f, t, path, n)
    BY <1>4, <1>5 DEF IsRecursive, IsWalk, base
  <1> QED
    BY <1>6

\* What is at the end of a path.
AtEnd(found) == {e \in found : e.type # "other"}

LEMMA WalkedPath ==
  ASSUME NEW t \in Trees, NEW path, Len(path) \in Nat
  PROVE  \E found : IsWalk(found, t, path, Len(path)) /\ Walk(t, path) = AtEnd(found[Len(path)])
  <1> DEFINE walk == CHOOSE found : IsWalk(found, t, path, Len(path))
  <1>1. IsWalk(walk, t, path, Len(path))
    BY WalkExists
  <1>2. Walk(t, path) = AtEnd(walk[Len(path)])
    BY DEF Walk, WalkBelow, IsWalk, AtEnd, RootOnDisk
  <1> QED
    BY <1>1, <1>2

\* The names that can be followed from the end of a path.
LEMMA WalkOneMore ==
  ASSUME NEW t \in Trees, NEW S, NEW path \in Seq(S), NEW found,
         IsWalk(found, t, path, Len(path)), NEW name
  PROVE  Walk(t, Append(path, name)) = AtEnd(WalkBelow(t, found[Len(path)], name))
  <1> DEFINE longer == Append(path, name)
  <1>1. PICK n \in Nat : n = Len(path)
    OBVIOUS
  <1>2. Len(longer) = n + 1 /\ longer[n + 1] = name /\ \A i \in 1 .. n : longer[i] = path[i]
    BY <1>1
  <1> HIDE DEF longer
  <1>3. IsWalk(found, t, path, n)
    BY <1>1
  <1>4. PICK more : IsWalk(more, t, longer, n + 1) /\ Walk(t, longer) = AtEnd(more[n + 1])
    <2>1. Len(longer) \in Nat
      BY <1>2
    <2>2. PICK more : IsWalk(more, t, longer, Len(longer)) /\ Walk(t, longer) = AtEnd(more[Len(longer)])
      BY <2>1, WalkedPath
    <2> QED
      BY <1>2, <2>2
  <1>5. /\ more[0] = {RootOnDisk}
        /\ \A i \in 1 .. n + 1 : more[i] = WalkBelow(t, more[i - 1], longer[i])
    <2>1. \A i \in 0 .. n + 1 : more[i] = IF i = 0 THEN {RootOnDisk}
                                          ELSE WalkBelow(t, more[i - 1], longer[i])
      BY <1>4 DEF IsWalk
    <2>2. 0 \in 0 .. n + 1 /\ \A i \in 1 .. n + 1 : i \in 0 .. n + 1 /\ i # 0
      OBVIOUS
    <2> QED
      BY <2>1, <2>2
  <1>6. /\ found[0] = {RootOnDisk}
        /\ \A i \in 1 .. n : found[i] = WalkBelow(t, found[i - 1], path[i])
    <2>1. \A i \in 0 .. n : found[i] = IF i = 0 THEN {RootOnDisk}
                                       ELSE WalkBelow(t, found[i - 1], path[i])
      BY <1>3 DEF IsWalk
    <2>2. 0 \in 0 .. n /\ \A i \in 1 .. n : i \in 0 .. n /\ i # 0
      OBVIOUS
    <2> QED
      BY <2>1, <2>2
  <1> DEFINE Bad == {i \in 0 .. n : more[i] # found[i]}
  <1>7. Bad = {}
    <2> SUFFICES ASSUME Bad # {} PROVE FALSE
      OBVIOUS
    <2>1. Bad \subseteq Nat
      OBVIOUS
    <2>2. PICK i \in Bad : \A j \in Bad : i <= j
      <3> HIDE DEF Bad
      <3> QED
        BY <2>1, LeastNumber
    <2>3. i \in 0 .. n /\ more[i] # found[i] /\ i # 0
      BY <1>5, <1>6
    <2>4. i \in 1 .. n /\ i \in 1 .. n + 1 /\ i - 1 \in 0 .. n /\ ~ (i <= i - 1)
      BY <1>1, <2>3
    <2>5. more[i - 1] = found[i - 1]
      BY <2>2, <2>4
    <2>6. more[i] = WalkBelow(t, more[i - 1], longer[i]) /\ found[i] = WalkBelow(t, found[i - 1], path[i])
          /\ longer[i] = path[i]
      BY <1>2, <1>5, <1>6, <2>4
    <2> QED
      BY <2>3, <2>5, <2>6
  <1>8. n \in 0 .. n /\ n + 1 \in 1 .. n + 1 /\ (n + 1) - 1 = n
    OBVIOUS
  <1>9. more[n] = found[n] /\ more[n + 1] = WalkBelow(t, more[n], name)
    BY <1>2, <1>5, <1>7, <1>8
  <1> QED
    BY <1>1, <1>4, <1>9 DEF longer

-----------------------------------------------------------------------------
(***************************************************************************)
(* What it means that a digest stands for a directory of a tree: there is  *)
(* a set of pairs of digests and directories with this one in it, and the  *)
(* entries of the blob of each pair are those of the directory, and lead   *)
(* to stored files and to pairs of the set.                                *)
(***************************************************************************)

\* The entry of a blob stands for the entry of a directory.
Matches(rows, same, entry, e) ==
  /\ entry.type = e.type
  /\ e.type = "regular_file" =>
       /\ entry.size = Len(e.content)
       /\ entry.hash_code = Sha256(FileIndex(e.content))
       /\ FileStored(rows, e.content)
  /\ e.type = "directory" =>
       /\ entry.size = 0
       /\ <<entry.hash_code, e.directory>> \in same

\* The names of a directory that are imported.
Present(t, d) == {name \in DOMAIN t[d] : t[d][name].type # "other"}

\* A blob has one entry for each of some names of a directory.
Lists(rows, t, same, content, d, names) ==
  /\ content \in Seq(Entry(DOMAIN rows))
  /\ \A i \in DOMAIN content : content[i].name \in names
  /\ \A name \in names : \E i \in DOMAIN content : content[i].name = name
  /\ \A i, j \in DOMAIN content : content[i].name = content[j].name => i = j
  /\ \A i \in DOMAIN content : Matches(rows, same, content[i], t[d][content[i].name])

Consistent(rows, t, same) ==
  \A h \in DOMAIN rows, d \in DOMAIN t :
    <<h, d>> \in same => Lists(rows, t, same, rows[h], d, Present(t, d))

Same(rows, t) ==
  {p \in (DOMAIN rows) \X DOMAIN t :
     \E same \in SUBSET ((DOMAIN rows) \X DOMAIN t) : p \in same /\ Consistent(rows, t, same)}

\* More rows, and more pairs.
LEMMA MatchesGrows ==
  ASSUME NEW rows, NEW more, Grows(rows, more), NEW same, NEW larger, same \subseteq larger,
         NEW entry, NEW e, Matches(rows, same, entry, e)
  PROVE  Matches(more, larger, entry, e)
  BY DEF Matches, FileStored, Stored, Grows

LEMMA ListsGrows ==
  ASSUME NEW rows, NEW more, Grows(rows, more), NEW same, NEW larger, same \subseteq larger,
         NEW t, NEW content, NEW d, NEW names, Lists(rows, t, same, content, d, names)
  PROVE  Lists(more, t, larger, content, d, names)
  <1>1. Entry(DOMAIN rows) \subseteq Entry(DOMAIN more)
    BY DEF Entry, Grows
  <1>2. content \in Seq(Entry(DOMAIN more))
    BY <1>1 DEF Lists
  <1>3. \A i \in DOMAIN content : Matches(more, larger, content[i], t[d][content[i].name])
    BY MatchesGrows DEF Lists
  <1> QED
    BY <1>2, <1>3 DEF Lists

\* The union of all consistent sets is consistent.
LEMMA SameIsConsistent ==
  ASSUME NEW rows, NEW t
  PROVE  Consistent(rows, t, Same(rows, t)) /\ Same(rows, t) \in SUBSET ((DOMAIN rows) \X DOMAIN t)
  <1>1. ASSUME NEW h \in DOMAIN rows, NEW d \in DOMAIN t, <<h, d>> \in Same(rows, t)
        PROVE  Lists(rows, t, Same(rows, t), rows[h], d, Present(t, d))
    <2>1. PICK same \in SUBSET ((DOMAIN rows) \X DOMAIN t) :
            <<h, d>> \in same /\ Consistent(rows, t, same)
      BY <1>1 DEF Same
    <2>2. same \subseteq Same(rows, t)
      BY <2>1 DEF Same
    <2>3. Lists(rows, t, same, rows[h], d, Present(t, d))
      BY <2>1 DEF Consistent
    <2> QED
      BY <2>2, <2>3, GrowsItself, ListsGrows
  <1>2. Same(rows, t) \in SUBSET ((DOMAIN rows) \X DOMAIN t)
    BY DEF Same
  <1> QED
    BY <1>1, <1>2 DEF Consistent

\* Another directory whose entries are known.
LEMMA SameGetsOne ==
  ASSUME NEW rows, NEW t, NEW h \in DOMAIN rows, NEW d \in DOMAIN t,
         Lists(rows, t, Same(rows, t), rows[h], d, Present(t, d))
  PROVE  <<h, d>> \in Same(rows, t)
  <1> DEFINE larger == Same(rows, t) \cup {<<h, d>>}
  <1>1. larger \in SUBSET ((DOMAIN rows) \X DOMAIN t)
    <2>1. Same(rows, t) \in SUBSET ((DOMAIN rows) \X DOMAIN t)
      BY SameIsConsistent
    <2>2. <<h, d>> \in (DOMAIN rows) \X DOMAIN t
      OBVIOUS
    <2> QED
      BY <2>1, <2>2
  <1>2. ASSUME NEW g \in DOMAIN rows, NEW c \in DOMAIN t, <<g, c>> \in larger
        PROVE  Lists(rows, t, Same(rows, t), rows[g], c, Present(t, c))
    <2>1. CASE <<g, c>> \in Same(rows, t)
      BY <2>1, SameIsConsistent DEF Consistent
    <2>2. CASE <<g, c>> = <<h, d>>
      <3>1. g = h /\ c = d
        BY <2>2
      <3> QED
        BY <3>1
    <2> QED
      BY <1>2, <2>1, <2>2
  <1>3. Same(rows, t) \subseteq larger /\ <<h, d>> \in larger
    OBVIOUS
  <1> HIDE DEF larger
  <1>4. Consistent(rows, t, larger)
    BY <1>2, <1>3, GrowsItself, ListsGrows DEF Consistent
  <1> QED
    BY <1>1, <1>3, <1>4 DEF Same

LEMMA SameGrows ==
  ASSUME NEW rows, NEW more, Grows(rows, more), NEW t
  PROVE  Same(rows, t) \subseteq Same(more, t)
  <1> DEFINE same == Same(rows, t)
  <1>1. same \in SUBSET ((DOMAIN rows) \X DOMAIN t) /\ Consistent(rows, t, same)
    BY SameIsConsistent
  <1> HIDE DEF same
  <1>2. same \in SUBSET ((DOMAIN more) \X DOMAIN t)
    <2>1. DOMAIN rows \subseteq DOMAIN more
      BY DEF Grows
    <2>2. ((DOMAIN rows) \X DOMAIN t) \subseteq ((DOMAIN more) \X DOMAIN t)
      BY <2>1
    <2> QED
      BY <1>1, <2>2
  <1>3. ASSUME NEW h \in DOMAIN more, NEW d \in DOMAIN t, <<h, d>> \in same
        PROVE  Lists(more, t, same, more[h], d, Present(t, d))
    <2>1. h \in DOMAIN rows /\ more[h] = rows[h]
      <3>1. <<h, d>> \in (DOMAIN rows) \X DOMAIN t
        BY <1>1, <1>3
      <3>2. h \in DOMAIN rows
        BY <3>1
      <3> QED
        BY <3>2 DEF Grows
    <2>2. Lists(rows, t, same, rows[h], d, Present(t, d))
      BY <1>1, <1>3, <2>1 DEF Consistent
    <2> QED
      BY <2>1, <2>2, ListsGrows
  <1>4. Consistent(more, t, same)
    BY <1>3 DEF Consistent
  <1>5. \A p \in same : p \in Same(more, t)
    BY <1>2, <1>4 DEF Same
  <1> QED
    BY <1>5 DEF same

-----------------------------------------------------------------------------
(***************************************************************************)
(* A call has encoded the entries it has been through, but for those that  *)
(* are pending: the one that is imported at the moment, if any.            *)
(***************************************************************************)

CallOK(rows, t, call, pending) ==
  /\ call.directory \in DOMAIN t
  /\ pending \subseteq Present(t, call.directory) \ call.todo
  /\ Lists(rows, t, Same(rows, t), call.encoded, call.directory,
           Present(t, call.directory) \ (call.todo \cup pending))

LEMMA CallOKGrows ==
  ASSUME NEW rows, NEW more, Grows(rows, more), NEW t, NEW call, NEW pending,
         CallOK(rows, t, call, pending)
  PROVE  CallOK(more, t, call, pending)
  BY SameGrows, ListsGrows DEF CallOK

\* Only these parts of a call matter.
LEMMA CallOKParts ==
  ASSUME NEW rows, NEW t, NEW call, NEW pending, CallOK(rows, t, call, pending), NEW other,
         other.directory = call.directory, other.todo = call.todo, other.encoded = call.encoded
  PROVE  CallOK(rows, t, other, pending)
  BY DEF CallOK

\* A new call.
LEMMA CallBegins ==
  ASSUME NEW rows, NEW t, NEW call, call.directory \in DOMAIN t,
         call.todo = DOMAIN t[call.directory], call.encoded = <<>>
  PROVE  CallOK(rows, t, call, {})
  <1>1. Present(t, call.directory) \ (call.todo \cup {}) = {}
    BY DEF Present
  <1>2. <<>> \in Seq(Entry(DOMAIN rows)) /\ DOMAIN <<>> = {}
    OBVIOUS
  <1> QED
    BY <1>1, <1>2 DEF CallOK, Lists

\* The iterator goes on to a name.
LEMMA CallAdvances ==
  ASSUME NEW rows, NEW t, NEW call, CallOK(rows, t, call, {}), NEW name \in call.todo,
         name \in DOMAIN t[call.directory], NEW other,
         other.directory = call.directory, other.todo = call.todo \ {name},
         other.encoded = call.encoded
  PROVE  CallOK(rows, t, other,
                IF t[call.directory][name].type = "other" THEN {} ELSE {name})
  <1> DEFINE d == call.directory
             pending == IF t[d][name].type = "other" THEN {} ELSE {name}
  <1>1. pending \subseteq Present(t, d) \ other.todo
    BY DEF Present
  <1>2. Present(t, d) \ (other.todo \cup pending) = Present(t, d) \ (call.todo \cup {})
    BY DEF Present
  <1> HIDE DEF d, pending
  <1>3. CallOK(rows, t, other, pending)
    BY <1>1, <1>2 DEF CallOK, d
  <1> QED
    BY <1>3 DEF pending, d

\* The entry of the pending name is encoded.
LEMMA CallEncodes ==
  ASSUME NEW rows, NEW t, NEW call, NEW name, CallOK(rows, t, call, {name}),
         NEW entry \in Entry(DOMAIN rows), entry.name = name,
         Matches(rows, Same(rows, t), entry, t[call.directory][name]), NEW other,
         other.directory = call.directory, other.todo = call.todo,
         other.encoded = Append(call.encoded, entry)
  PROVE  CallOK(rows, t, other, {})
  <1> DEFINE d == call.directory
             old == Present(t, d) \ (call.todo \cup {name})
             new == Present(t, d) \ (call.todo \cup {})
             content == call.encoded
             more == Append(content, entry)
  <1>1. new = old \cup {name} /\ name \notin old /\ d \in DOMAIN t
    BY DEF CallOK
  <1>2. Lists(rows, t, Same(rows, t), content, d, old)
    BY DEF CallOK
  <1>3. Matches(rows, Same(rows, t), entry, t[d][entry.name])
    OBVIOUS
  <1>4. other.encoded = more /\ other.directory = d /\ other.todo = call.todo
    OBVIOUS
  <1>5. content \in Seq(Entry(DOMAIN rows))
    BY <1>2 DEF Lists
  <1>6. PICK n \in Nat : n = Len(content)
    BY <1>5
  <1>7. /\ DOMAIN content = 1 .. n /\ DOMAIN more = 1 .. n + 1
        /\ more \in Seq(Entry(DOMAIN rows))
        /\ more[n + 1] = entry
        /\ \A i \in 1 .. n : more[i] = content[i]
    BY <1>5, <1>6
  <1> HIDE DEF d, old, new, content, more
  <1>8. \A i \in 1 .. n : content[i].name \in old
    BY <1>2, <1>7 DEF Lists
  <1>9. \A i \in DOMAIN more : more[i].name \in new
    BY <1>1, <1>7, <1>8
  <1>10. \A m \in new : \E i \in DOMAIN more : more[i].name = m
    <2> SUFFICES ASSUME NEW m \in new PROVE \E i \in DOMAIN more : more[i].name = m
      OBVIOUS
    <2>1. CASE m = name
      <3>1. n + 1 \in DOMAIN more /\ more[n + 1].name = m
        BY <1>7, <2>1
      <3> QED
        BY <3>1
    <2>2. CASE m \in old
      <3>1. PICK i \in 1 .. n : content[i].name = m
        BY <1>2, <1>7, <2>2 DEF Lists
      <3>2. i \in DOMAIN more /\ more[i] = content[i]
        BY <1>7
      <3> QED
        BY <3>1, <3>2
    <2> QED
      BY <1>1, <2>1, <2>2
  <1>11. \A i, j \in DOMAIN more : more[i].name = more[j].name => i = j
    <2> SUFFICES ASSUME NEW i \in 1 .. n + 1, NEW j \in 1 .. n + 1, more[i].name = more[j].name
                 PROVE  i = j
      BY <1>7
    <2>1. CASE i \in 1 .. n /\ j \in 1 .. n
      BY <1>2, <1>7, <2>1, SMTT(30) DEF Lists
    <2>2. CASE i = n + 1 \/ j = n + 1
      <3>1. \A k \in 1 .. n : more[k].name # name
        BY <1>1, <1>7, <1>8
      <3>2. more[n + 1].name = name
        BY <1>7
      <3> QED
        BY <2>2, <3>1, <3>2
    <2> QED
      BY <2>1, <2>2
  <1>12. \A i \in DOMAIN more : Matches(rows, Same(rows, t), more[i], t[d][more[i].name])
    <2> SUFFICES ASSUME NEW i \in 1 .. n + 1
                 PROVE  Matches(rows, Same(rows, t), more[i], t[d][more[i].name])
      BY <1>7
    <2>1. CASE i \in 1 .. n
      BY <1>2, <1>7, <2>1 DEF Lists
    <2>2. CASE i = n + 1
      BY <1>3, <1>7, <2>2
    <2> QED
      BY <2>1, <2>2
  <1>13. Lists(rows, t, Same(rows, t), more, d, new)
    BY <1>7, <1>9, <1>10, <1>11, <1>12 DEF Lists
  <1> QED
    BY <1>1, <1>4, <1>13 DEF CallOK, new

\* The blob of a directory that has been gone through is stored.
LEMMA CallEnds ==
  ASSUME NEW rows, NEW t, NEW call, CallOK(rows, t, call, {}), call.todo = {},
         NEW more, Grows(rows, more), Sha256(call.encoded) \in DOMAIN more,
         ContentAddressed(more)
  PROVE  <<Sha256(call.encoded), call.directory>> \in Same(more, t)
  <1> DEFINE h == Sha256(call.encoded)
             d == call.directory
  <1>1. CallOK(more, t, call, {})
    BY CallOKGrows
  <1>2. more[h] = call.encoded
    BY DigestsDiffer DEF ContentAddressed
  <1>3. Present(t, d) \ (call.todo \cup {}) = Present(t, d)
    OBVIOUS
  <1>4. Lists(more, t, Same(more, t), more[h], d, Present(t, d)) /\ d \in DOMAIN t
    BY <1>1, <1>2, <1>3 DEF CallOK
  <1> HIDE DEF d
  <1>5. h \in DOMAIN more
    OBVIOUS
  <1> HIDE DEF h
  <1>6. <<h, d>> \in Same(more, t)
    BY <1>4, <1>5, SameGetsOne
  <1> QED
    BY <1>6 DEF h, d

-----------------------------------------------------------------------------
(* The invariant: it holds for every call, and for the returned digests. *)

Pending(frames, files, i) ==
  IF i < Len(frames) THEN {frames[i + 1].name} ELSE {f.name : f \in files}

CallsOK(rows, t, frames, files) ==
  \A i \in 1 .. Len(frames) : CallOK(rows, t, frames[i], Pending(frames, files, i))

\* A call is about the directory that its caller is at.
CallsLinked(t, frames) ==
  \A i \in 1 .. Len(frames) - 1 :
    /\ t[frames[i].directory][frames[i + 1].name].type = "directory"
    /\ t[frames[i].directory][frames[i + 1].name].directory = frames[i + 1].directory

\* The file is the one that the innermost call is at.
FilesLinked(t, frames, files) ==
  \A f \in files :
    /\ t[frames[Len(frames)].directory][f.name].type = "regular_file"
    /\ t[frames[Len(frames)].directory][f.name].content = f.content

StackOK(rows, t, frames, files) ==
  /\ frames # <<>> => frames[1].directory = RootDir
  /\ CallsOK(rows, t, frames, files)
  /\ CallsLinked(t, frames)
  /\ FilesLinked(t, frames, files)

RootsOK(rows, results) == \A r \in results : <<r.root, RootDir>> \in Same(rows, r.tree)

PathInv ==
  /\ ContentAddressed(table)
  /\ StackOK(table, tree, stack, importing)
  /\ RootsOK(table, roots)

LEMMA EmptyStackOK ==
  ASSUME NEW rows, NEW t
  PROVE  StackOK(rows, t, <<>>, {})
  BY DEF StackOK, CallsOK, CallsLinked, FilesLinked

LEMMA InitPath == Init => PathInv
  <1> SUFFICES ASSUME Init PROVE PathInv
    OBVIOUS
  <1>1. table = EmptyTable /\ stack = <<>> /\ importing = {} /\ roots = {}
    BY DEF Init
  <1>2. ContentAddressed(table) /\ RootsOK(table, roots)
    BY <1>1 DEF EmptyTable, ContentAddressed, RootsOK
  <1> QED
    BY <1>1, <1>2, EmptyStackOK DEF PathInv

LEMMA RootsOKGrows ==
  ASSUME NEW rows, NEW more, Grows(rows, more), NEW results, RootsOK(rows, results)
  PROVE  RootsOK(more, results)
  BY SameGrows DEF RootsOK

LEMMA StoredGrows ==
  ASSUME NEW rows, NEW content
  PROVE  Grows(rows, StoreBlob(rows, content))
  BY StoredBlob DEF Grows

LEMMA StartPath == StackInv /\ PathInv /\ Start => PathInv'
  <1> SUFFICES ASSUME StackInv, PathInv, Start PROVE PathInv'
    OBVIOUS
  <1>1. PICK frame : frame = Frame(RootDir, "", 0)
    OBVIOUS
  <1>2. /\ frame.directory = RootDir /\ frame.todo = DOMAIN tree[RootDir]
        /\ frame.encoded = <<>>
    BY <1>1 DEF Frame
  <1>3. RootDir \in DOMAIN tree
    BY TreesAssumption DEF StackInv
  <1>4. CallOK(table, tree, frame, {})
    BY <1>2, <1>3, CallBegins
  <1>5. stack' = <<frame>> /\ importing' = {} /\ UNCHANGED <<table, tree, roots>>
    BY <1>1 DEF Start, Idle, Running, StackInv
  <1>6. Len(<<frame>>) = 1 /\ <<frame>>[1] = frame /\ Pending(<<frame>>, {}, 1) = {}
    BY DEF Pending
  <1>7. StackOK(table, tree, <<frame>>, {})
    BY <1>2, <1>4, <1>6 DEF StackOK, CallsOK, CallsLinked, FilesLinked
  <1>8. StackOK(table', tree', stack', importing')
    BY <1>5, <1>7
  <1> QED
    BY <1>5, <1>8 DEF PathInv

LEMMA AbandonPath == StackInv /\ PathInv /\ Abandon => PathInv'
  <1> SUFFICES ASSUME StackInv, PathInv, Abandon PROVE PathInv'
    OBVIOUS
  <1>1. stack' = <<>> /\ importing' = {} /\ UNCHANGED <<table, tree, roots>>
    BY DEF Abandon
  <1>2. StackOK(table', tree', stack', importing')
    BY <1>1, EmptyStackOK
  <1> QED
    BY <1>1, <1>2 DEF PathInv

LEMMA ChangeTreePath == StackInv /\ PathInv /\ ChangeTree => PathInv'
  <1> SUFFICES ASSUME StackInv, PathInv, ChangeTree PROVE PathInv'
    OBVIOUS
  <1>1. stack' = <<>> /\ importing' = {} /\ UNCHANGED <<table, roots>>
    BY DEF ChangeTree, Idle, Running, StackInv
  <1>2. StackOK(table', tree', stack', importing')
    BY <1>1, EmptyStackOK
  <1> QED
    BY <1>1, <1>2 DEF PathInv

\* The iterator has gone on to a name: what is known of the calls.
LEMMA AdvancedCalls ==
  ASSUME StackInv, PathInv, Running, importing = {}, NEW name \in Top.todo
  PROVE  LET called == Advance(name)
             e == tree[Top.directory][name]
         IN  /\ Len(called) = Len(stack) /\ called \in Seq(Call(DOMAIN table))
             /\ called[1].directory = RootDir
             /\ called[Len(stack)].directory = Top.directory
             /\ \A i \in 1 .. Len(stack) - 1 :
                  CallOK(table, tree, called[i], {called[i + 1].name})
             /\ CallOK(table, tree, called[Len(stack)], IF e.type = "other" THEN {} ELSE {name})
             /\ CallsLinked(tree, called)
  <1> DEFINE called == Advance(name)
             n == Len(stack)
             e == tree[Top.directory][name]
  <1>1. stack \in Seq(Call(DOMAIN table)) /\ stack # <<>> /\ n \in Nat \ {0} /\ Top = stack[n]
    BY DEF StackInv, Running, Top
  <1>2. /\ called \in Seq(Call(DOMAIN table))
        /\ Len(called) = n
        /\ \A i \in 1 .. n :
             /\ called[i].directory = stack[i].directory
             /\ called[i].todo = IF i = n THEN stack[i].todo \ {name} ELSE stack[i].todo
             /\ called[i].name = stack[i].name
             /\ called[i].encoded = stack[i].encoded
    BY <1>1, AdvanceCall
  <1>3. \A i \in 1 .. n : CallOK(table, tree, stack[i], Pending(stack, importing, i))
    BY DEF PathInv, StackOK, CallsOK
  <1>4. /\ stack[1].directory = RootDir
        /\ \A i \in 1 .. n - 1 :
             /\ tree[stack[i].directory][stack[i + 1].name].type = "directory"
             /\ tree[stack[i].directory][stack[i + 1].name].directory = stack[i + 1].directory
    BY <1>1 DEF PathInv, StackOK, CallsLinked
  <1>5. name \in stack[n].todo /\ name \in DOMAIN tree[stack[n].directory]
    BY <1>1, TopIsCall
  <1>6. Pending(stack, importing, n) = {}
    BY DEF Pending
  <1>7. \A i \in 1 .. n - 1 : Pending(stack, importing, i) = {stack[i + 1].name}
    BY DEF Pending
  <1> HIDE DEF called, n, e
  <1>8. \A i \in 1 .. n - 1 : i \in 1 .. n /\ i + 1 \in 1 .. n /\ i # n
    BY <1>1
  <1>9. ASSUME NEW i \in 1 .. n - 1
        PROVE  CallOK(table, tree, called[i], {called[i + 1].name})
    <2>1. CallOK(table, tree, stack[i], {stack[i + 1].name})
      BY <1>3, <1>7, <1>8
    <2>2. /\ called[i].directory = stack[i].directory /\ called[i].todo = stack[i].todo
          /\ called[i].encoded = stack[i].encoded /\ called[i + 1].name = stack[i + 1].name
      BY <1>2, <1>8
    <2> QED
      BY <2>1, <2>2, CallOKParts
  <1>10. CallOK(table, tree, called[n], IF e.type = "other" THEN {} ELSE {name})
    <2>1. n \in 1 .. n
      BY <1>1
    <2>2. /\ called[n].directory = stack[n].directory /\ called[n].todo = stack[n].todo \ {name}
          /\ called[n].encoded = stack[n].encoded
      BY <1>2, <2>1
    <2>3. CallOK(table, tree, stack[n], {})
      BY <1>3, <1>6, <2>1
    <2>4. e = tree[stack[n].directory][name]
      BY <1>1 DEF e
    <2> QED
      BY <1>5, <2>2, <2>3, <2>4, CallAdvances
  <1>11. called[1].directory = RootDir /\ called[n].directory = Top.directory
    <2>1. 1 \in 1 .. n /\ n \in 1 .. n
      BY <1>1
    <2> QED
      BY <1>1, <1>2, <1>4, <2>1
  <1>12. CallsLinked(tree, called)
    BY <1>2, <1>4, <1>8 DEF CallsLinked
  <1> QED
    BY <1>2, <1>9, <1>10, <1>11, <1>12 DEF called, n, e

LEMMA NextEntryPath ==
  ASSUME StackInv, PathInv, NEW name, NextEntry(name)
  PROVE  PathInv'
  <1>1. PICK e, links, called, n :
          /\ e = tree[Top.directory][name]
          /\ links = Top.links + (IF e.link THEN 1 ELSE 0)
          /\ called = Advance(name)
          /\ n = Len(stack)
    OBVIOUS
  <1>2. Running /\ importing = {} /\ name \in Top.todo
    BY DEF NextEntry
  <1>3. CASE links > MaxLinks
    BY <1>1, <1>3, AbandonPath DEF NextEntry
  <1>4. CASE ~ (links > MaxLinks)
    <2>1. /\ stack' = IF e.type = "directory"
                      THEN Append(called, Frame(e.directory, name, links)) ELSE called
          /\ importing' = IF e.type = "regular_file"
                          THEN {[name |-> name, content |-> e.content,
                                 todo |-> 0 .. NumberOfPieces(Len(e.content)) - 1]}
                          ELSE {}
          /\ UNCHANGED <<tree, table, roots>>
      BY <1>1, <1>4 DEF NextEntry
    <2>2. /\ Len(called) = n /\ called \in Seq(Call(DOMAIN table))
          /\ called[1].directory = RootDir /\ called[n].directory = Top.directory
          /\ \A i \in 1 .. n - 1 : CallOK(table, tree, called[i], {called[i + 1].name})
          /\ CallOK(table, tree, called[n], IF e.type = "other" THEN {} ELSE {name})
          /\ CallsLinked(tree, called)
      BY <1>1, <1>2, AdvancedCalls
    <2>3. /\ n \in Nat \ {0} /\ tree \in Trees /\ Top.directory \in DOMAIN tree
          /\ e.type \in {"regular_file", "directory", "other"}
          /\ e.type = "directory" => e.directory \in DOMAIN tree
      BY <1>1, <1>2, TopIsCall, EntryOfTree DEF StackInv
    <2>4. \A i \in 1 .. n : i = n \/ i \in 1 .. n - 1
      BY <2>3
    <2>5. CASE e.type = "directory"
      <3>1. PICK frame : frame = Frame(e.directory, name, links)
        OBVIOUS
      <3>2. /\ frame.directory = e.directory /\ frame.todo = DOMAIN tree[e.directory]
            /\ frame.encoded = <<>> /\ frame.name = name
        BY <3>1 DEF Frame
      <3>3. CallOK(table, tree, frame, {})
        BY <2>3, <2>5, <3>2, CallBegins
      <3>4. PICK frames : frames = Append(called, frame)
        OBVIOUS
      <3>5. /\ Len(frames) = n + 1
            /\ \A i \in 1 .. n : frames[i] = called[i]
            /\ frames[n + 1] = frame
        BY <2>2, <2>3, <3>4
      <3>6. CallsOK(table, tree, frames, {})
        <4> SUFFICES ASSUME NEW i \in 1 .. n + 1
                     PROVE  CallOK(table, tree, frames[i], Pending(frames, {}, i))
          BY <3>5 DEF CallsOK
        <4>1. CASE i = n + 1
          <5>1. Pending(frames, {}, i) = {} /\ frames[i] = frame
            BY <2>3, <3>5, <4>1 DEF Pending
          <5> QED
            BY <3>3, <5>1
        <4>2. CASE i = n
          <5>1. Pending(frames, {}, i) = {name} /\ frames[i] = called[n]
            BY <2>3, <3>2, <3>5, <4>2 DEF Pending
          <5> QED
            BY <2>2, <2>5, <5>1
        <4>3. CASE i \in 1 .. n - 1
          <5>1. i \in 1 .. n /\ i + 1 \in 1 .. n /\ i < n + 1
            BY <2>3, <4>3
          <5>2. Pending(frames, {}, i) = {called[i + 1].name} /\ frames[i] = called[i]
            BY <3>5, <5>1 DEF Pending
          <5> QED
            BY <2>2, <4>3, <5>2
        <4> QED
          BY <2>3, <4>1, <4>2, <4>3
      <3>7. CallsLinked(tree, frames)
        <4> SUFFICES ASSUME NEW i \in 1 .. n
                     PROVE  /\ tree[frames[i].directory][frames[i + 1].name].type = "directory"
                            /\ tree[frames[i].directory][frames[i + 1].name].directory
                                 = frames[i + 1].directory
          BY <2>3, <3>5 DEF CallsLinked
        <4>1. CASE i = n
          BY <1>1, <2>2, <2>5, <3>2, <3>5, <4>1
        <4>2. CASE i \in 1 .. n - 1
          <5>1. i + 1 \in 1 .. n
            BY <2>3, <4>2
          <5> QED
            BY <2>2, <3>5, <4>2, <5>1 DEF CallsLinked
        <4> QED
          BY <2>4, <4>1, <4>2
      <3>8. frames[1].directory = RootDir
        BY <2>2, <2>3, <3>5
      <3>9. StackOK(table, tree, frames, {})
        BY <3>6, <3>7, <3>8 DEF StackOK, FilesLinked
      <3>10. stack' = frames /\ importing' = {}
        BY <2>1, <2>5, <3>1, <3>4
      <3> QED
        BY <2>1, <3>9, <3>10 DEF PathInv
    <2>6. CASE e.type # "directory"
      <3>1. PICK files : files = importing'
        OBVIOUS
      <3>2. stack' = called /\ {f.name : f \in files} = IF e.type = "other" THEN {} ELSE {name}
        <4>1. CASE e.type = "regular_file"
          <5>1. files = {[name |-> name, content |-> e.content,
                          todo |-> 0 .. NumberOfPieces(Len(e.content)) - 1]}
            BY <2>1, <3>1, <4>1
          <5>2. {f.name : f \in files} = {name}
            BY <5>1
          <5> QED
            BY <2>1, <2>6, <4>1, <5>2
        <4>2. CASE e.type = "other"
          <5>1. files = {}
            BY <2>1, <3>1, <4>2
          <5>2. {f.name : f \in files} = {}
            BY <5>1
          <5> QED
            BY <2>1, <2>6, <4>2, <5>2
        <4> QED
          BY <2>3, <2>6, <4>1, <4>2
      <3>3. CallsOK(table, tree, called, files)
        <4> SUFFICES ASSUME NEW i \in 1 .. n
                     PROVE  CallOK(table, tree, called[i], Pending(called, files, i))
          BY <2>2 DEF CallsOK
        <4>1. CASE i = n
          <5>1. Pending(called, files, i) = {f.name : f \in files}
            BY <2>2, <2>3, <4>1 DEF Pending
          <5> QED
            BY <2>2, <3>2, <4>1, <5>1
        <4>2. CASE i \in 1 .. n - 1
          <5>1. Pending(called, files, i) = {called[i + 1].name}
            BY <2>2, <2>3, <4>2 DEF Pending
          <5> QED
            BY <2>2, <4>2, <5>1
        <4> QED
          BY <2>4, <4>1, <4>2
      <3>4. FilesLinked(tree, called, files)
        <4>1. \A f \in files : f.name = name /\ f.content = e.content /\ e.type = "regular_file"
          BY <2>1, <3>1
        <4> QED
          BY <1>1, <2>2, <4>1 DEF FilesLinked
      <3>5. StackOK(table, tree, called, files)
        BY <2>2, <3>3, <3>4 DEF StackOK
      <3> QED
        BY <2>1, <3>1, <3>2, <3>5 DEF PathInv
    <2> QED
      BY <2>5, <2>6
  <1> QED
    BY <1>3, <1>4

LEMMA StorePiecePath == StackInv /\ PathInv /\ StorePiece => PathInv'
  <1> SUFFICES ASSUME StackInv, PathInv, StorePiece PROVE PathInv'
    OBVIOUS
  <1>1. PICK f, i :
          /\ f \in importing
          /\ table' = StoreBlob(table, PieceOf(f.content, i))
          /\ importing' = {[f EXCEPT !.todo = @ \ {i}]}
          /\ UNCHANGED <<tree, stack, imports, roots, failed>>
    BY DEF StorePiece
  <1>2. PICK g : g = [f EXCEPT !.todo = @ \ {i}]
    OBVIOUS
  <1>3. importing = {f} /\ f \in File
    BY <1>1 DEF StackInv, FileInv
  <1>4. g.name = f.name /\ g.content = f.content
    BY <1>2, <1>3 DEF File
  <1>5. Grows(table, table') /\ ContentAddressed(table')
    BY <1>1, StoredGrows, StoredKeepsAddresses DEF PathInv
  <1>6. \A j : Pending(stack, {g}, j) = Pending(stack, importing, j)
    BY <1>3, <1>4 DEF Pending
  <1>7. CallsOK(table', tree, stack, {g})
    BY <1>5, <1>6, CallOKGrows DEF PathInv, StackOK, CallsOK
  <1>8. FilesLinked(tree, stack, {g})
    BY <1>3, <1>4 DEF PathInv, StackOK, FilesLinked
  <1>9. StackOK(table', tree, stack, {g})
    BY <1>7, <1>8 DEF PathInv, StackOK
  <1>10. RootsOK(table', roots)
    BY <1>5, RootsOKGrows DEF PathInv
  <1> QED
    BY <1>1, <1>2, <1>5, <1>9, <1>10 DEF PathInv

\* An entry is encoded in the innermost of some calls.
LEMMA EncodedCalls ==
  ASSUME NEW rows, NEW t, NEW T, NEW frames \in Seq(Call(T)), frames # <<>>, T \subseteq DOMAIN rows,
         frames[1].directory = RootDir, CallsLinked(t, frames),
         \A i \in 1 .. Len(frames) - 1 : CallOK(rows, t, frames[i], {frames[i + 1].name}),
         NEW entry \in Entry(DOMAIN rows),
         CallOK(rows, t, frames[Len(frames)], {entry.name}),
         Matches(rows, Same(rows, t), entry, t[frames[Len(frames)].directory][entry.name])
  PROVE  StackOK(rows, t, Encode(frames, entry), {})
  <1>1. PICK n : n = Len(frames)
    OBVIOUS
  <1>2. PICK encoded : encoded = Encode(frames, entry)
    OBVIOUS
  <1>3. n \in Nat \ {0} /\ n \in 1 .. n /\ 1 \in 1 .. n
    BY <1>1
  <1>4. frames \in Seq(Call(DOMAIN rows))
    BY CallsGrow
  <1>5. /\ Len(encoded) = n
        /\ \A i \in 1 .. n :
             /\ encoded[i].directory = frames[i].directory
             /\ encoded[i].todo = frames[i].todo
             /\ encoded[i].name = frames[i].name
             /\ encoded[i].encoded = IF i = n THEN Append(frames[i].encoded, entry)
                                     ELSE frames[i].encoded
    BY <1>1, <1>2, <1>4, EncodeCall
  <1>6. \A i \in 1 .. n - 1 : i \in 1 .. n /\ i + 1 \in 1 .. n /\ i # n /\ i < n
    BY <1>3
  <1>7. CallsOK(rows, t, encoded, {})
    <2> SUFFICES ASSUME NEW i \in 1 .. n
                 PROVE  CallOK(rows, t, encoded[i], Pending(encoded, {}, i))
      BY <1>5 DEF CallsOK
    <2>1. CASE i = n
      <3>1. Pending(encoded, {}, i) = {}
        BY <1>3, <1>5, <2>1 DEF Pending
      <3>2. CallOK(rows, t, frames[n], {entry.name})
            /\ Matches(rows, Same(rows, t), entry, t[frames[n].directory][entry.name])
        BY <1>1
      <3>3. /\ encoded[n].directory = frames[n].directory /\ encoded[n].todo = frames[n].todo
            /\ encoded[n].encoded = Append(frames[n].encoded, entry)
        BY <1>3, <1>5
      <3>4. CallOK(rows, t, encoded[n], {})
        BY <3>2, <3>3, CallEncodes
      <3> QED
        BY <2>1, <3>1, <3>4
    <2>2. CASE i \in 1 .. n - 1
      <3>1. Pending(encoded, {}, i) = {frames[i + 1].name}
        BY <1>5, <1>6, <2>2 DEF Pending
      <3>2. CallOK(rows, t, frames[i], {frames[i + 1].name})
        BY <1>1, <2>2
      <3>3. /\ encoded[i].directory = frames[i].directory /\ encoded[i].todo = frames[i].todo
            /\ encoded[i].encoded = frames[i].encoded
        BY <1>5, <1>6, <2>2
      <3>4. CallOK(rows, t, encoded[i], {frames[i + 1].name})
        BY <3>2, <3>3, CallOKParts
      <3> QED
        BY <3>1, <3>4
    <2> QED
      BY <1>3, <2>1, <2>2
  <1>8. CallsLinked(t, encoded)
    <2> SUFFICES ASSUME NEW i \in 1 .. n - 1
                 PROVE  /\ t[encoded[i].directory][encoded[i + 1].name].type = "directory"
                        /\ t[encoded[i].directory][encoded[i + 1].name].directory
                             = encoded[i + 1].directory
      BY <1>5 DEF CallsLinked
    <2>1. /\ encoded[i].directory = frames[i].directory
          /\ encoded[i + 1].name = frames[i + 1].name
          /\ encoded[i + 1].directory = frames[i + 1].directory
      BY <1>5, <1>6
    <2>2. /\ t[frames[i].directory][frames[i + 1].name].type = "directory"
          /\ t[frames[i].directory][frames[i + 1].name].directory = frames[i + 1].directory
      BY <1>1 DEF CallsLinked
    <2> QED
      BY <2>1, <2>2
  <1>9. encoded[1].directory = RootDir
    BY <1>3, <1>5
  <1>10. StackOK(rows, t, encoded, {})
    BY <1>7, <1>8, <1>9 DEF StackOK, FilesLinked
  <1> QED
    BY <1>2, <1>10

\* What is known of all the calls but the innermost, and of that one.
LEMMA KnownCalls ==
  ASSUME StackInv, PathInv, Running, NEW more, Grows(table, more)
  PROVE  /\ stack \in Seq(Call(DOMAIN table)) /\ stack # <<>>
         /\ Len(stack) \in Nat \ {0} /\ Top = stack[Len(stack)]
         /\ stack[1].directory = RootDir
         /\ CallsLinked(tree, stack)
         /\ \A i \in 1 .. Len(stack) - 1 : CallOK(more, tree, stack[i], {stack[i + 1].name})
         /\ CallOK(more, tree, stack[Len(stack)], {f.name : f \in importing})
  <1>1. stack \in Seq(Call(DOMAIN table)) /\ stack # <<>> /\ Top = stack[Len(stack)]
    BY DEF StackInv, Running, Top
  <1>2. PICK n \in Nat \ {0} : n = Len(stack)
    BY <1>1
  <1>3. \A i \in 1 .. n : CallOK(more, tree, stack[i], Pending(stack, importing, i))
    BY <1>2, CallOKGrows DEF PathInv, StackOK, CallsOK
  <1>4. \A i \in 1 .. n - 1 : i \in 1 .. n /\ Pending(stack, importing, i) = {stack[i + 1].name}
    BY <1>2 DEF Pending
  <1>5. n \in 1 .. n /\ Pending(stack, importing, n) = {f.name : f \in importing}
    BY <1>2 DEF Pending
  <1>6. stack[1].directory = RootDir /\ CallsLinked(tree, stack)
    BY <1>1 DEF PathInv, StackOK
  <1>7. \A i \in 1 .. n - 1 : CallOK(more, tree, stack[i], {stack[i + 1].name})
    BY <1>3, <1>4
  <1>8. CallOK(more, tree, stack[n], {f.name : f \in importing})
    BY <1>3, <1>5
  <1> QED
    BY <1>1, <1>2, <1>6, <1>7, <1>8

LEMMA FinishFilePath == StackInv /\ PathInv /\ FinishFile => PathInv'
  <1> SUFFICES ASSUME StackInv, PathInv, FinishFile PROVE PathInv'
    OBVIOUS
  <1>1. PICK f \in importing :
          /\ AllStored(f)
          /\ table' = StoreBlob(table, FileIndex(f.content))
          /\ stack' = Encode(stack, DirectoryEntry("regular_file", f.name,
                               Sha256(FileIndex(f.content)), Len(f.content)))
          /\ importing' = {}
          /\ UNCHANGED <<tree, imports, roots, failed>>
    BY DEF FinishFile
  <1>2. PICK entry : entry = DirectoryEntry("regular_file", f.name, Sha256(FileIndex(f.content)),
                                            Len(f.content))
    OBVIOUS
  <1>3. PICK rows : rows = table'
    OBVIOUS
  <1>4. importing = {f} /\ FileInv(f) /\ Running /\ {g.name : g \in importing} = {f.name}
    BY DEF StackInv, Running
  <1>5. f \in File /\ f.content \in Seq(Byte) /\ f.name \in Name /\ f.todo = {}
    BY <1>1, <1>4 DEF FileInv, File, AllStored
  <1>6. Grows(table, rows) /\ ContentAddressed(rows)
    BY <1>1, <1>3, StoredGrows, StoredKeepsAddresses DEF PathInv
  <1>7. Sha256(FileIndex(f.content)) \in DOMAIN rows
    BY <1>1, <1>3, StoredBlob
  <1>8. FileStored(rows, f.content)
    <2>1. \A i \in PiecesOf(f.content) : Sha256(PieceOf(f.content, i)) \in DOMAIN table
      BY <1>4, <1>5 DEF FileInv, Stored
    <2> QED
      BY <1>6, <1>7, <2>1 DEF FileStored, Stored, Grows
  <1>9. entry \in Entry(DOMAIN rows) /\ entry.name = f.name
    BY <1>2, <1>5, <1>7 DEF DirectoryEntry, Entry
  <1>10. /\ stack \in Seq(Call(DOMAIN table)) /\ stack # <<>>
         /\ stack[1].directory = RootDir
         /\ CallsLinked(tree, stack)
         /\ \A i \in 1 .. Len(stack) - 1 : CallOK(rows, tree, stack[i], {stack[i + 1].name})
         /\ CallOK(rows, tree, stack[Len(stack)], {entry.name})
    BY <1>4, <1>6, <1>9, KnownCalls
  <1>11. Matches(rows, Same(rows, tree), entry, tree[stack[Len(stack)].directory][entry.name])
    <2>1. PICK e : e = tree[stack[Len(stack)].directory][f.name]
      OBVIOUS
    <2>2. e.type = "regular_file" /\ e.content = f.content
      BY <1>4, <2>1 DEF PathInv, StackOK, FilesLinked
    <2>3. Matches(rows, Same(rows, tree), entry, e)
      BY <1>2, <1>8, <2>2 DEF Matches, DirectoryEntry
    <2> QED
      BY <1>9, <2>1, <2>3
  <1>12. DOMAIN table \subseteq DOMAIN rows
    BY <1>6 DEF Grows
  <1>13. StackOK(rows, tree, Encode(stack, entry), {})
    BY <1>9, <1>10, <1>11, <1>12, EncodedCalls
  <1>14. RootsOK(rows, roots)
    BY <1>6, RootsOKGrows DEF PathInv
  <1> QED
    BY <1>1, <1>2, <1>3, <1>6, <1>13, <1>14 DEF PathInv

LEMMA FinishDirectoryPath == StackInv /\ PathInv /\ FinishDirectory => PathInv'
  <1> SUFFICES ASSUME StackInv, PathInv, FinishDirectory PROVE PathInv'
    OBVIOUS
  <1>1. PICK n, rows, content, h :
          n = Len(stack) /\ rows = table' /\ content = Top.encoded /\ h = Sha256(content)
    OBVIOUS
  <1>2. /\ Running /\ importing = {} /\ Top.todo = {} /\ rows = StoreBlob(table, content)
        /\ importing' = {} /\ tree' = tree
    BY <1>1 DEF FinishDirectory
  <1>3. Grows(table, rows) /\ ContentAddressed(rows) /\ h \in DOMAIN rows
    <2>1. Grows(table, rows)
      BY <1>2, StoredGrows
    <2>2. ContentAddressed(rows)
      BY <1>2, StoredKeepsAddresses DEF PathInv
    <2>3. DOMAIN StoreBlob(table, content) = DOMAIN table \cup {Sha256(content)}
      BY StoredBlob
    <2>4. h \in DOMAIN rows
      BY <1>1, <1>2, <2>3
    <2> QED
      BY <2>1, <2>2, <2>4
  <1>4. /\ stack \in Seq(Call(DOMAIN table)) /\ stack # <<>> /\ n \in Nat \ {0}
        /\ Top = stack[n] /\ stack[1].directory = RootDir
        /\ CallsLinked(tree, stack)
        /\ \A i \in 1 .. n - 1 : CallOK(rows, tree, stack[i], {stack[i + 1].name})
        /\ CallOK(rows, tree, stack[n], {f.name : f \in importing})
    BY <1>1, <1>2, <1>3, KnownCalls
  <1>5. CallOK(rows, tree, stack[n], {})
    BY <1>2, <1>4
  <1>6. <<h, stack[n].directory>> \in Same(rows, tree)
    <2>1. stack[n].todo = {} /\ Sha256(stack[n].encoded) = h
      BY <1>1, <1>2, <1>4
    <2> QED
      BY <1>3, <1>5, <2>1, GrowsItself, CallEnds
  <1>7. RootsOK(rows, roots)
    BY <1>3, RootsOKGrows DEF PathInv
  <1>8. CASE n = 1
    <2>1. stack' = <<>> /\ roots' = roots \cup {[tree |-> tree, root |-> h]}
      BY <1>1, <1>8 DEF FinishDirectory
    <2>2. RootsOK(rows, roots')
      BY <1>4, <1>6, <1>7, <1>8, <2>1 DEF RootsOK
    <2>3. StackOK(rows, tree, stack', importing')
      BY <1>2, <2>1, EmptyStackOK
    <2> QED
      BY <1>1, <1>2, <1>3, <2>2, <2>3 DEF PathInv
  <1>9. CASE n # 1
    <2>1. PICK callers, entry :
            /\ callers = Callers(stack)
            /\ entry = DirectoryEntry("directory", Top.name, h, 0)
      OBVIOUS
    <2>2. stack' = Encode(callers, entry) /\ roots' = roots
      BY <1>1, <1>9, <2>1 DEF FinishDirectory
    <2>3. entry \in Entry(DOMAIN rows) /\ entry.name = Top.name /\ entry.type = "directory"
          /\ entry.hash_code = h /\ entry.size = 0
      BY <1>2, <1>3, <2>1, TopIsCall DEF DirectoryEntry, Entry
    <2>4. /\ callers \in Seq(Call(DOMAIN table))
          /\ Len(callers) = n - 1
          /\ \A i \in 1 .. n - 1 : callers[i] = stack[i]
      BY <1>1, <1>4, <1>9, <2>1 DEF Callers
    <2>5. n - 1 \in Nat \ {0} /\ n - 1 \in 1 .. n - 1 /\ 1 \in 1 .. n - 1 /\ callers # <<>>
      BY <1>4, <1>9, <2>4
    <2>6. callers[1].directory = RootDir
      BY <1>4, <2>4, <2>5
    <2>7. \A i \in 1 .. Len(callers) - 1 : i \in 1 .. n - 1 /\ i + 1 \in 1 .. n - 1
      BY <2>4, <2>5
    <2>8. CallsLinked(tree, callers)
      <3> SUFFICES ASSUME NEW i \in 1 .. Len(callers) - 1
                   PROVE  /\ tree[callers[i].directory][callers[i + 1].name].type = "directory"
                          /\ tree[callers[i].directory][callers[i + 1].name].directory
                               = callers[i + 1].directory
        BY DEF CallsLinked
      <3>1. callers[i] = stack[i] /\ callers[i + 1] = stack[i + 1] /\ i \in 1 .. n - 1
        BY <2>4, <2>7
      <3> QED
        BY <1>1, <1>4, <3>1 DEF CallsLinked
    <2>9. \A i \in 1 .. Len(callers) - 1 : CallOK(rows, tree, callers[i], {callers[i + 1].name})
      BY <1>4, <2>4, <2>7
    <2>10. (n - 1) + 1 = n /\ callers[Len(callers)] = stack[n - 1]
      BY <1>4, <2>4, <2>5
    <2>11. CallOK(rows, tree, callers[Len(callers)], {entry.name})
      <3>1. CallOK(rows, tree, stack[n - 1], {stack[(n - 1) + 1].name})
        BY <1>4, <2>5
      <3> QED
        BY <1>4, <2>3, <2>10, <3>1
    <2>12. Matches(rows, Same(rows, tree), entry,
                   tree[callers[Len(callers)].directory][entry.name])
      <3>1. PICK e : e = tree[stack[n - 1].directory][stack[n].name]
        OBVIOUS
      <3>2. e.type = "directory" /\ e.directory = stack[n].directory
        <4>1. /\ tree[stack[n - 1].directory][stack[(n - 1) + 1].name].type = "directory"
              /\ tree[stack[n - 1].directory][stack[(n - 1) + 1].name].directory
                   = stack[(n - 1) + 1].directory
          BY <1>1, <1>4, <2>5 DEF CallsLinked
        <4> QED
          BY <2>10, <3>1, <4>1
      <3>3. Matches(rows, Same(rows, tree), entry, e)
        BY <1>6, <2>3, <3>2 DEF Matches
      <3> QED
        BY <1>4, <2>3, <2>10, <3>1, <3>3
    <2>13. DOMAIN table \subseteq DOMAIN rows
      BY <1>3 DEF Grows
    <2>14. StackOK(rows, tree, Encode(callers, entry), {})
      BY <2>3, <2>4, <2>5, <2>6, <2>8, <2>9, <2>11, <2>12, <2>13, EncodedCalls
    <2> QED
      BY <1>1, <1>2, <1>3, <1>7, <2>2, <2>14 DEF PathInv
  <1> QED
    BY <1>8, <1>9

LEMMA NextPath == StackInv /\ PathInv /\ [Next]_vars => PathInv'
  <1> SUFFICES ASSUME StackInv, PathInv, [Next]_vars PROVE PathInv'
    OBVIOUS
  <1>1. CASE Start
    BY <1>1, StartPath
  <1>2. CASE ImportStep
    BY <1>2, NextEntryPath, StorePiecePath, FinishFilePath, FinishDirectoryPath DEF ImportStep
  <1>3. CASE ImportFails
    BY <1>3, AbandonPath DEF ImportFails
  <1>4. CASE ChangeTree
    BY <1>4, ChangeTreePath
  <1>5. CASE UNCHANGED vars
    BY <1>5 DEF vars, PathInv
  <1> QED
    BY <1>1, <1>2, <1>3, <1>4, <1>5 DEF Next, Finished

LEMMA PathInvHolds == Spec => []PathInv
  BY InitPath, NextPath, StackInvHolds, PTL DEF Spec

-----------------------------------------------------------------------------
(***************************************************************************)
(* A digest that stands for the root of a tree: whatever a path leads to   *)
(* on the disk, the path leads to the same in the blobs.                   *)
(***************************************************************************)

\* What is found in a blob stands for an entry on the disk.
Stands(rows, same, found, e) ==
  /\ found.type = e.type
  /\ e.type = "regular_file" =>
       /\ found.regular_file_size = Len(e.content)
       /\ found.hash_code = Sha256(FileIndex(e.content))
       /\ FileStored(rows, e.content)
  /\ e.type = "directory" => <<found.hash_code, e.directory>> \in same

\* One step into the directory.
LEMMA FoundInListed ==
  ASSUME NEW rows, NEW t, NEW above, NEW d, above.type = "directory", d.type = "directory",
         Stands(rows, Same(rows, t), above, d),
         NEW name \in DOMAIN t[d.directory], t[d.directory][name].type # "other"
  PROVE  \E found : /\ Below(rows, above, name) = {found}
                    /\ Stands(rows, Same(rows, t), found, t[d.directory][name])
  <1>1. PICK h, c : h = above.hash_code /\ c = d.directory
    OBVIOUS
  <1>2. <<h, c>> \in Same(rows, t)
    BY <1>1 DEF Stands
  <1>3. h \in DOMAIN rows /\ c \in DOMAIN t
    BY <1>2 DEF Same
  <1>4. Lists(rows, t, Same(rows, t), rows[h], c, Present(t, c))
    BY <1>2, <1>3, SameIsConsistent DEF Consistent
  <1>5. name \in Present(t, c)
    BY <1>1 DEF Present
  <1>6. PICK i \in DOMAIN rows[h] : rows[h][i].name = name
    BY <1>4, <1>5 DEF Lists
  <1>7. \A j \in DOMAIN rows[h] : rows[h][j].name = name => i = j
    BY <1>4, <1>6 DEF Lists
  <1>8. i \in Nat
    BY <1>4, <1>6 DEF Lists
  <1>9. FindEntry(rows[h], name) = {rows[h][i]}
    <2>1. {j \in DOMAIN rows[h] : rows[h][j].name = name} = {i} /\ i <= i
      BY <1>6, <1>7, <1>8
    <2> QED
      BY <2>1 DEF FindEntry
  <1>10. Below(rows, above, name) = {FoundEntry(rows[h][i])}
    BY <1>1, <1>3, <1>9 DEF Below, Stored
  <1>11. Matches(rows, Same(rows, t), rows[h][i], t[c][name])
    BY <1>4, <1>6 DEF Lists
  <1>12. Stands(rows, Same(rows, t), FoundEntry(rows[h][i]), t[c][name])
    BY <1>11 DEF Matches, Stands, FoundEntry
  <1> QED
    BY <1>1, <1>10, <1>12

\* What some names of a path lead to on the disk and in the blobs.
Alike(rows, t, disk, blob) ==
  /\ disk \subseteq OnDisk(t)
  /\ \A e, f \in disk : e = f
  /\ \A e \in disk : e.type # "other" => \E found \in blob : Stands(rows, Same(rows, t), found, e)

LEMMA AlikeBelow ==
  ASSUME NEW rows, NEW t \in Trees, NEW disk, NEW blob, Alike(rows, t, disk, blob), NEW name
  PROVE  Alike(rows, t, WalkBelow(t, disk, name), FoundBelow(rows, blob, name))
  <1>1. WalkBelow(t, disk, name) \subseteq OnDisk(t)
    BY WalkStaysOnDisk DEF Alike
  <1>2. ASSUME NEW e \in WalkBelow(t, disk, name)
        PROVE  \E d \in disk : /\ d.type = "directory"
                               /\ name \in DOMAIN t[d.directory]
                               /\ e = t[d.directory][name]
    BY DEF WalkBelow
  <1>3. \A e, f \in WalkBelow(t, disk, name) : e = f
    BY <1>2 DEF Alike
  <1>4. ASSUME NEW e \in WalkBelow(t, disk, name), e.type # "other"
        PROVE  \E found \in FoundBelow(rows, blob, name) : Stands(rows, Same(rows, t), found, e)
    <2>1. PICK d \in disk : /\ d.type = "directory"
                            /\ name \in DOMAIN t[d.directory]
                            /\ e = t[d.directory][name]
      BY <1>2
    <2>2. PICK above \in blob : Stands(rows, Same(rows, t), above, d)
      BY <2>1 DEF Alike
    <2>3. above.type = "directory"
      BY <2>1, <2>2 DEF Stands
    <2>4. PICK found \in Below(rows, above, name) : Stands(rows, Same(rows, t), found, e)
      BY <1>4, <2>1, <2>2, <2>3, FoundInListed
    <2>5. found \in FoundBelow(rows, blob, name)
      BY <2>2, <2>4 DEF FoundBelow
    <2> QED
      BY <2>4, <2>5
  <1> QED
    BY <1>1, <1>3, <1>4 DEF Alike

\* The end of the path.
LEMMA AlikeAtEnd ==
  ASSUME NEW rows, NEW t \in Trees, NEW root, <<root, RootDir>> \in Same(rows, t),
         NEW path, Len(path) \in Nat,
         NEW disk, IsWalk(disk, t, path, Len(path))
  PROVE  Alike(rows, t, disk[Len(path)], ResolvePath(rows, root, path))
  <1>1. PICK n \in Nat : n = Len(path)
    OBVIOUS
  <1>2. PICK blob : /\ blob[0] = {RootEntry(root)}
                    /\ \A i \in 1 .. n : blob[i] = FoundBelow(rows, blob[i - 1], path[i])
                    /\ ResolvePath(rows, root, path) = blob[n]
    <2>1. PICK blob : /\ Follows(blob, rows, root, path, Len(path))
                      /\ ResolvePath(rows, root, path) = blob[Len(path)]
      BY ResolvedPath
    <2> QED
      BY <1>1, <2>1 DEF Follows
  <1>3. /\ disk[0] = {RootOnDisk}
        /\ \A i \in 1 .. n : disk[i] = WalkBelow(t, disk[i - 1], path[i])
    <2>1. \A i \in 0 .. n : disk[i] = IF i = 0 THEN {RootOnDisk}
                                      ELSE WalkBelow(t, disk[i - 1], path[i])
      BY <1>1 DEF IsWalk
    <2>2. 0 \in 0 .. n /\ \A i \in 1 .. n : i \in 0 .. n /\ i # 0
      OBVIOUS
    <2> QED
      BY <2>1, <2>2
  <1>4. Alike(rows, t, {RootOnDisk}, {RootEntry(root)})
    <2>1. Stands(rows, Same(rows, t), RootEntry(root), RootOnDisk)
      BY DEF Stands, RootEntry, RootOnDisk
    <2> QED
      BY <2>1 DEF Alike, OnDisk
  <1> DEFINE Bad == {i \in 0 .. n : ~ Alike(rows, t, disk[i], blob[i])}
  <1>5. Bad = {}
    <2> SUFFICES ASSUME Bad # {} PROVE FALSE
      OBVIOUS
    <2>1. Bad \subseteq Nat
      OBVIOUS
    <2>2. PICK i \in Bad : \A j \in Bad : i <= j
      <3> HIDE DEF Bad
      <3> QED
        BY <2>1, LeastNumber
    <2>3. i \in 0 .. n /\ ~ Alike(rows, t, disk[i], blob[i]) /\ i # 0
      BY <1>2, <1>3, <1>4
    <2>4. i \in 1 .. n /\ i - 1 \in 0 .. n /\ ~ (i <= i - 1)
      BY <2>3
    <2>5. Alike(rows, t, disk[i - 1], blob[i - 1])
      BY <2>2, <2>4
    <2>6. disk[i] = WalkBelow(t, disk[i - 1], path[i]) /\ blob[i] = FoundBelow(rows, blob[i - 1], path[i])
      BY <1>2, <1>3, <2>4
    <2> QED
      BY <2>3, <2>5, <2>6, AlikeBelow
  <1> QED
    BY <1>1, <1>2, <1>5

\* A file of the tree is what the entry says (import.cpp:117 to 147).
LEMMA FileIsFaithful ==
  ASSUME NEW entry, NEW e, NEW path, NEW t, ContentAddressed(table),
         e.type = "regular_file", e.content \in Seq(Byte), entry.type = e.type,
         entry.regular_file_size = Len(e.content),
         entry.hash_code = Sha256(FileIndex(e.content)), FileStored(table, e.content)
  PROVE  SameEntry(entry, e, t, path)
  <1>1. PICK content \in Seq(Byte), size \in Nat, h \in {Sha256(FileIndex(e.content))} :
          content = e.content /\ size = Len(content)
    OBVIOUS
  <1>2. PICK n, hash_codes, tail :
          /\ n = NumberOfPieces(size)
          /\ hash_codes = [i \in 0 .. n - 1 |-> Sha256(PieceOf(content, i))]
          /\ tail = ReadAt(content, n * PieceLength, RemainingSize(size))
    OBVIOUS
  <1>3. n \in Nat /\ n * PieceLength \in Nat /\ RemainingSize(size) \in Nat
        /\ CanReadAt(content, n * PieceLength, RemainingSize(size))
    BY <1>1, <1>2, FileParts
  <1>4. /\ tail \in Seq(Byte) /\ Len(tail) = RemainingSize(size)
        /\ \A i \in 1 .. RemainingSize(size) : tail[i] = content[n * PieceLength + i]
    BY <1>2, <1>3, ReadAtContent
  <1>5. PICK index : index = LoadIndex(table, size, h)
    OBVIOUS
  <1>6. hash_codes = [i \in PiecesOf(content) |-> Sha256(PieceOf(content, i))]
    BY <1>1, <1>2 DEF PiecesOf
  <1>7. /\ h \in DOMAIN table /\ table[h] = EncodeFile(hash_codes, NumberOfPieces(size), tail)
        /\ CanLoadIndex(table, size, h) /\ IsIndexOf(index, hash_codes, size, tail)
    <2>1. /\ Sha256(FileIndex(content)) \in DOMAIN table
          /\ table[Sha256(FileIndex(content))] =
               EncodeFile(hash_codes, NumberOfPieces(Len(content)),
                          ReadAt(content, NumberOfPieces(Len(content)) * PieceLength, RemainingSize(Len(content))))
          /\ CanLoadIndex(table, Len(content), Sha256(FileIndex(content)))
          /\ IsIndexOf(LoadIndex(table, Len(content), Sha256(FileIndex(content))), hash_codes, Len(content),
                       ReadAt(content, NumberOfPieces(Len(content)) * PieceLength, RemainingSize(Len(content))))
      BY <1>1, <1>6, LoadedFile
    <2> QED
      BY <1>1, <1>2, <1>5, <2>1
  <1>8. \A i \in 0 .. n - 1 : Stored(table, hash_codes[i]) /\ table[hash_codes[i]] = PieceOf(content, i)
    <2>1. \A i \in PiecesOf(content) : Stored(table, hash_codes[i]) /\ table[hash_codes[i]] = PieceOf(content, i)
      BY <1>1, <1>6, LoadedFile
    <2> QED
      BY <1>1, <1>2, <2>1 DEF PiecesOf
  <1>9. ASSUME NEW i \in DOMAIN index.pieces PROVE Stored(table, index.pieces[i])
    <2>1. i \in 1 .. n /\ index.pieces[i] = hash_codes[i - 1]
      BY <1>2, <1>7 DEF IsIndexOf
    <2>2. i - 1 \in 0 .. n - 1
      BY <1>3, <2>1
    <2> QED
      BY <1>8, <2>1, <2>2
  <1>10. ASSUME NEW i \in 0 .. size - 1 PROVE IndexedByte(table, index, i) = content[i + 1]
    <2>1. PICK p \in Nat, r \in 0 .. PieceLength - 1 :
            p = i \div PieceLength /\ r = i % PieceLength
      <3>1. i \in Nat
        OBVIOUS
      <3> QED
        BY <3>1, Division, PieceLengthAssumption
    <2>2. IndexedByte(table, index, i) =
            IF p < n THEN table[hash_codes[p]][r + 1] ELSE tail[r + 1]
      <3>1. IndexedByte(table, LoadIndex(table, size, h), i) =
              LaidOutByte(table, hash_codes, size, tail, i)
        BY <1>4, <1>7, ByteOfIndex
      <3> QED
        BY <1>2, <1>5, <2>1, <3>1 DEF LaidOutByte
    <2>3. CASE p < n
      <3>1. p \in 0 .. n - 1 /\ p \in PiecesOf(content)
        BY <1>1, <1>2, <1>3, <2>1, <2>3 DEF PiecesOf
      <3>2. CanReadAt(content, p * PieceLength, PieceLength)
        BY <3>1, FileParts
      <3>3. PieceOf(content, p)[r + 1] = content[i + 1]
        <4>1. i \in Nat
          OBVIOUS
        <4>2. ReadAt(content, p * PieceLength, PieceLength)[r + 1] = content[i + 1]
          BY <2>1, <3>2, <4>1, ByteOfPiece
        <4> QED
          BY <4>2 DEF PieceOf
      <3>4. table[hash_codes[p]] = PieceOf(content, p)
        BY <1>8, <3>1
      <3> QED
        BY <2>2, <2>3, <3>3, <3>4
    <2>4. CASE ~ (p < n)
      <3>1. p = n /\ r < RemainingSize(size) /\ i = n * PieceLength + r
        BY <1>2, <2>1, <2>4, ByteOfTail
      <3>2. PICK start \in Nat : start = n * PieceLength
        BY <1>3
      <3>3. r + 1 \in 1 .. RemainingSize(size) /\ start + (r + 1) = i + 1
        BY <1>3, <2>1, <3>1, <3>2, PieceLengthAssumption
      <3>4. tail[r + 1] = content[i + 1]
        BY <1>4, <3>2, <3>3
      <3> QED
        BY <2>2, <2>4, <3>4
    <2> QED
      BY <2>3, <2>4
  <1> QED
    BY <1>1, <1>5, <1>7, <1>9, <1>10 DEF SameEntry

\* A directory of the tree is what the entry says.
LEMMA DirectoryIsFaithful ==
  ASSUME NEW t \in Trees, NEW S, NEW path \in Seq(S), NEW disk,
         IsWalk(disk, t, path, Len(path)), NEW e, disk[Len(path)] = {e},
         e.type = "directory", NEW entry, entry.type = e.type,
         <<entry.hash_code, e.directory>> \in Same(table, t)
  PROVE  SameEntry(entry, e, t, path)
  <1>1. PICK h, d : h = entry.hash_code /\ d = e.directory
    OBVIOUS
  <1>2. h \in DOMAIN table /\ d \in DOMAIN t
    BY <1>1 DEF Same
  <1>3. Lists(table, t, Same(table, t), table[h], d, Present(t, d))
    BY <1>1, <1>2, SameIsConsistent DEF Consistent
  <1>4. PICK content : content = table[h]
    OBVIOUS
  <1>5. PICK n \in Nat : DOMAIN content = 1 .. n
    <2>1. content \in Seq(Entry(DOMAIN table))
      BY <1>3, <1>4 DEF Lists
    <2>2. Len(content) \in Nat /\ DOMAIN content = 1 .. Len(content)
      BY <2>1
    <2> QED
      BY <2>2
  <1>6. PICK names : names = [i \in DOMAIN content |-> content[i].name]
    OBVIOUS
  <1>7. names \in [1 .. n -> Present(t, d)] /\ Len(names) = n
    <2>1. \A i \in 1 .. n : content[i].name \in Present(t, d)
      BY <1>3, <1>4, <1>5 DEF Lists
    <2>2. names \in [1 .. n -> Present(t, d)]
      BY <1>5, <1>6, <2>1
    <2>3. names \in Seq(Present(t, d)) /\ DOMAIN names = 1 .. n
      BY <2>2
    <2> QED
      BY <2>2, <2>3
  <1>8. {names[i] : i \in DOMAIN names} = Present(t, d)
    <2>1. \A i \in DOMAIN names : names[i] \in Present(t, d)
      BY <1>7
    <2>2. \A name \in Present(t, d) : \E i \in DOMAIN content : content[i].name = name
      BY <1>3, <1>4 DEF Lists
    <2>3. \A name \in Present(t, d) : \E i \in DOMAIN names : names[i] = name
      BY <1>6, <2>2
    <2> QED
      BY <2>1, <2>3
  <1>9. \A i, j \in 1 .. n : names[i] = names[j] => i = j
    BY <1>3, <1>4, <1>5, <1>6 DEF Lists
  <1>10. Cardinality(Present(t, d)) = n
    <2>1. names \in Bijection(1 .. n, Present(t, d))
      BY <1>7, <1>8, <1>9 DEF Bijection, Injection, Surjection, IsInjective
    <2> QED
      BY <2>1, FS_CountingElements DEF ExistsBijection
  <1>11. Present(t, d) = {name \in DOMAIN t[d] : Walk(t, Append(path, name)) # {}}
    <2> SUFFICES ASSUME NEW name \in DOMAIN t[d]
                 PROVE  t[d][name].type # "other" <=> Walk(t, Append(path, name)) # {}
      BY DEF Present
    <2>1. Walk(t, Append(path, name)) = AtEnd(WalkBelow(t, {e}, name))
      <3>1. Walk(t, Append(path, name)) = AtEnd(WalkBelow(t, disk[Len(path)], name))
        BY WalkOneMore
      <3> QED
        BY <3>1
    <2>2. WalkBelow(t, {e}, name) = {t[d][name]}
      BY <1>1 DEF WalkBelow
    <2> QED
      BY <2>1, <2>2 DEF AtEnd
  <1>12. Stored(table, entry.hash_code)
    BY <1>1, <1>2 DEF Stored
  <1>13. Cardinality({names[i] : i \in DOMAIN names}) = Len(names)
    BY <1>7, <1>8, <1>10
  <1>14. {names[i] : i \in DOMAIN names}
           = {name \in DOMAIN t[e.directory] : Walk(t, Append(path, name)) # {}}
    BY <1>1, <1>8, <1>11
  <1>15. names = [i \in DOMAIN table[entry.hash_code] |-> table[entry.hash_code][i].name]
    BY <1>1, <1>4, <1>6
  <1>16. e.type # "regular_file"
    OBVIOUS
  <1> QED
    BY <1>12, <1>13, <1>14, <1>15, <1>16 DEF SameEntry

\* Whatever path the disk answers is answered alike by the blobs.
LEMMA PathIsFaithful ==
  ASSUME StackInv, PathInv, NEW r \in roots, NEW S, NEW path \in Seq(S), Walk(r.tree, path) # {}
  PROVE  \E e \in Walk(r.tree, path), entry \in ResolvePath(table, r.root, path) :
           SameEntry(entry, e, r.tree, path)
  <1>1. PICK t \in Trees : t = r.tree
    BY DEF StackInv
  <1>2. <<r.root, RootDir>> \in Same(table, t) /\ ContentAddressed(table)
    BY <1>1 DEF PathInv, RootsOK
  <1>3. Len(path) \in Nat
    OBVIOUS
  <1>4. PICK disk : /\ IsWalk(disk, t, path, Len(path))
                    /\ Walk(t, path) = AtEnd(disk[Len(path)])
    BY <1>3, WalkedPath
  <1>5. Alike(table, t, disk[Len(path)], ResolvePath(table, r.root, path))
    BY <1>2, <1>3, <1>4, AlikeAtEnd
  <1>6. PICK e : e \in Walk(t, path)
    BY <1>1
  <1>7. e \in disk[Len(path)] /\ e.type # "other"
    BY <1>4, <1>6 DEF AtEnd
  <1>8. disk[Len(path)] = {e} /\ e \in OnDisk(t)
    BY <1>5, <1>7 DEF Alike
  <1>9. PICK entry \in ResolvePath(table, r.root, path) : Stands(table, Same(table, t), entry, e)
    BY <1>5, <1>7 DEF Alike
  <1>10. e.type \in {"regular_file", "directory"}
    BY <1>7, <1>8, OnDiskLeads
  <1>11. CASE e.type = "regular_file"
    <2>1. e.content \in Seq(Byte)
      <3>1. e # RootOnDisk
        BY <1>11 DEF RootOnDisk
      <3>2. PICK d \in DOMAIN t : e \in {t[d][n] : n \in DOMAIN t[d]}
        BY <1>8, <3>1 DEF OnDisk
      <3> QED
        BY <1>11, <3>2, TreesAssumption
    <2>2. SameEntry(entry, e, t, path)
      BY <1>2, <1>9, <1>11, <2>1, FileIsFaithful DEF Stands
    <2> QED
      BY <1>1, <1>6, <1>9, <2>2
  <1>12. CASE e.type = "directory"
    <2>1. SameEntry(entry, e, t, path)
      BY <1>4, <1>8, <1>9, <1>12, DirectoryIsFaithful DEF Stands
    <2> QED
      BY <1>1, <1>6, <1>9, <2>1
  <1> QED
    BY <1>10, <1>11, <1>12

\* The paths of a tree, the longer ones after the shorter.
NamesOf(t) == UNION {DOMAIN t[d] : d \in DOMAIN t}

MorePaths(t, paths) ==
  paths \cup {path \in {Append(p, name) : p \in paths, name \in NamesOf(t)} : Walk(t, path) # {}}

ArePaths(paths, t, n) ==
  paths = [i \in 0 .. n |-> IF i = 0 THEN {<<>>} ELSE MorePaths(t, paths[i - 1])]

LEMMA PathsExist ==
  ASSUME NEW t, NEW n \in Nat
  PROVE  \E paths : ArePaths(paths, t, n)
  <1> DEFINE U == SUBSET Seq(NamesOf(t))
             base == {<<>>}
             step == [x \in Nat \X U |-> MorePaths(t, x[2])]
  <1>1. base \in U
    OBVIOUS
  <1>2. \A x \in U : MorePaths(t, x) \in U
    BY DEF MorePaths
  <1> HIDE DEF U
  <1>3. step \in [Nat \X U -> U]
    BY <1>2
  <1>4. \A i \in Nat, x \in U : step[<<i, x>>] = MorePaths(t, x)
    OBVIOUS
  <1> HIDE DEF base, step
  <1>5. PICK f \in [0 .. n -> U] : IsRecursive(f, base, step, n)
    BY <1>1, <1>3, RecursionExists
  <1>6. \A i \in 0 .. n : i # 0 => step[<<i, f[i - 1]>>] = MorePaths(t, f[i - 1])
    <2> SUFFICES ASSUME NEW i \in 0 .. n, i # 0
                 PROVE  step[<<i, f[i - 1]>>] = MorePaths(t, f[i - 1])
      OBVIOUS
    <2>1. i \in Nat /\ i - 1 \in 0 .. n
      OBVIOUS
    <2> QED
      BY <1>4, <2>1
  <1>7. ArePaths(f, t, n)
    BY <1>5, <1>6 DEF IsRecursive, ArePaths, base
  <1> QED
    BY <1>7

\* All of them lead somewhere.
LEMMA PathsLead ==
  ASSUME NEW t \in Trees
  PROVE  \A path \in PathsOf(t) : path \in Seq(NamesOf(t)) /\ Walk(t, path) # {}
  <1>1. PICK n \in Nat : n = Cardinality(DOMAIN t) + MaxLinks
    BY TreesAssumption, BoundsAssumption, FS_CardinalityType
  <1> DEFINE chosen == CHOOSE paths : ArePaths(paths, t, Cardinality(DOMAIN t) + MaxLinks)
  <1>2. PathsOf(t) = chosen[Cardinality(DOMAIN t) + MaxLinks]
    BY DEF PathsOf, ArePaths, MorePaths, NamesOf
  <1>3. ArePaths(chosen, t, Cardinality(DOMAIN t) + MaxLinks)
    BY <1>1, PathsExist
  <1> HIDE DEF chosen
  <1>4. PICK paths : paths = chosen
    OBVIOUS
  <1>5. PathsOf(t) = paths[n] /\ ArePaths(paths, t, n)
    BY <1>1, <1>2, <1>3, <1>4
  <1>6. \A i \in 0 .. n : paths[i] = IF i = 0 THEN {<<>>} ELSE MorePaths(t, paths[i - 1])
    BY <1>5 DEF ArePaths
  <1> DEFINE Lead(some) == \A path \in some : path \in Seq(NamesOf(t)) /\ Walk(t, path) # {}
  <1>7. Lead({<<>>})
    <2>1. Len(<<>>) = 0 /\ <<>> \in Seq(NamesOf(t))
      OBVIOUS
    <2>2. PICK found : IsWalk(found, t, <<>>, Len(<<>>)) /\ Walk(t, <<>>) = AtEnd(found[Len(<<>>)])
      BY <2>1, WalkedPath
    <2>3. found[0] = {RootOnDisk}
      BY <2>1, <2>2 DEF IsWalk
    <2>4. RootOnDisk \in Walk(t, <<>>)
      BY <2>1, <2>2, <2>3 DEF AtEnd, RootOnDisk
    <2> QED
      BY <2>1, <2>4
  <1>8. ASSUME NEW some, Lead(some) PROVE Lead(MorePaths(t, some))
    BY <1>8 DEF MorePaths
  <1> HIDE DEF Lead
  <1> DEFINE Bad == {i \in 0 .. n : ~ Lead(paths[i])}
  <1>9. Bad = {}
    <2> SUFFICES ASSUME Bad # {} PROVE FALSE
      OBVIOUS
    <2>1. Bad \subseteq Nat
      OBVIOUS
    <2>2. PICK i \in Bad : \A j \in Bad : i <= j
      <3> HIDE DEF Bad
      <3> QED
        BY <2>1, LeastNumber
    <2>3. i \in 0 .. n /\ ~ Lead(paths[i]) /\ i # 0
      BY <1>6, <1>7
    <2>4. i - 1 \in 0 .. n /\ ~ (i <= i - 1)
      BY <2>3
    <2>5. Lead(paths[i - 1])
      BY <2>2, <2>4
    <2>6. paths[i] = MorePaths(t, paths[i - 1])
      BY <1>6, <2>3
    <2> QED
      BY <1>8, <2>3, <2>5, <2>6
  <1>10. Lead(PathsOf(t))
    BY <1>5, <1>9
  <1> QED
    BY <1>10 DEF Lead

\* What an import has returned can be followed to every file of the tree that
\* was imported, and to nothing else, whatever other imports do or have left
\* behind (import.cpp:25 to 66).
THEOREM RootsAreFaithful == Spec => []RootsFaithful
  <1>1. StackInv /\ PathInv => RootsFaithful
    <2> SUFFICES ASSUME StackInv, PathInv, NEW r \in roots, NEW path \in PathsOf(r.tree)
                 PROVE  \E e \in Walk(r.tree, path), entry \in ResolvePath(table, r.root, path) :
                          SameEntry(entry, e, r.tree, path)
      BY DEF RootsFaithful
    <2>1. r.tree \in Trees
      BY DEF StackInv
    <2>2. path \in Seq(NamesOf(r.tree)) /\ Walk(r.tree, path) # {}
      BY <2>1, PathsLead
    <2> QED
      BY <2>2, PathIsFaithful
  <1> QED
    BY <1>1, StackInvHolds, PathInvHolds, PTL

-----------------------------------------------------------------------------
(***************************************************************************)
(* Nothing is stored that no imported tree needs.  A set of digests leads  *)
(* inside if no row of it mentions a digest outside.  Such a set holds all *)
(* of the table once it holds what is needed: the roots that were          *)
(* returned, what the running calls have encoded, and the pieces that are  *)
(* stored of the file that is being imported.                              *)
(***************************************************************************)

LeadsInside(rows, S) == \A h \in S \cap DOMAIN rows : References(rows[h]) \subseteq S

EncodedIn(frames, S) ==
  \A i \in DOMAIN frames : \A j \in DOMAIN frames[i].encoded :
    frames[i].encoded[j].hash_code \in S

NeededIn(results, frames, importedFiles, S) ==
  /\ \A r \in results : r.root \in S
  /\ EncodedIn(frames, S)
  /\ \A f \in importedFiles : \A i \in PiecesOf(f.content) \ f.todo :
       Sha256(PieceOf(f.content, i)) \in S

OrphanInv ==
  /\ IsFiniteSet(DOMAIN table)
  /\ ~ failed => \A S : LeadsInside(table, S) /\ NeededIn(roots, stack, importing, S)
                          => DOMAIN table \subseteq S

\* What a blob mentions for certain.
LEMMA EntryIsMentioned ==
  ASSUME NEW content, NEW i \in DOMAIN content, content[i].kind = "entry"
  PROVE  content[i].hash_code \in References(content)
  <1>1. content[i] \notin Byte
    BY BytesAssumption
  <1> QED
    BY <1>1 DEF References

LEMMA PieceIsMentioned ==
  ASSUME NEW content \in Seq(Byte), NEW i \in PiecesOf(content)
  PROVE  Sha256(PieceOf(content, i)) \in References(FileIndex(content))
  <1> DEFINE n == NumberOfPieces(Len(content))
             hash_codes == [k \in 0 .. n - 1 |-> Sha256(PieceOf(content, k))]
             tail == ReadAt(content, n * PieceLength, RemainingSize(Len(content)))
             index == FileIndex(content)
  <1>1. n \in Nat /\ tail \in Seq(Byte)
    BY FileParts
  <1>2. index = EncodeFile(hash_codes, n, tail)
    BY DEF FileIndex
  <1>3. i \in 0 .. n - 1 /\ hash_codes[i] = Sha256(PieceOf(content, i))
    BY DEF PiecesOf
  <1> HIDE DEF n, hash_codes, tail, index
  <1>4. /\ DOMAIN index = 1 .. n + Len(tail)
        /\ \A k \in 1 .. n + Len(tail) :
             index[k] = IF k <= n THEN hash_codes[k - 1] ELSE tail[k - n]
    BY <1>1, <1>2, IndexShape
  <1>5. i + 1 \in DOMAIN index /\ index[i + 1] = Sha256(PieceOf(content, i))
    <2>1. Len(tail) \in Nat
      BY <1>1
    <2> QED
      BY <1>1, <1>3, <1>4, <2>1
  <1>6. index[i + 1] \notin Byte /\ Mentioned(index[i + 1]) = index[i + 1]
    BY <1>5, BytesAssumption, DigestIsMentioned DEF Sha256
  <1>7. index[i + 1] \in References(index)
    BY <1>5, <1>6 DEF References, Mentioned
  <1> QED
    BY <1>5, <1>7 DEF index

\* A step that stores nothing, and needs what was needed before.
LEMMA NothingStored ==
  ASSUME OrphanInv, table' = table, failed' = failed,
         \A S : NeededIn(roots', stack', importing', S) => NeededIn(roots, stack, importing, S)
  PROVE  OrphanInv'
  BY DEF OrphanInv

\* A step that stores a row that is needed from then on.  What was needed
\* before still is, or the row mentions it.
LEMMA NeededStored ==
  ASSUME OrphanInv, NEW content, table' = StoreBlob(table, content), failed' = failed,
         ContentAddressed(table'),
         \A S : NeededIn(roots', stack', importing', S) => Sha256(content) \in S,
         \A S : NeededIn(roots', stack', importing', S) /\ References(content) \subseteq S
                  => NeededIn(roots, stack, importing, S)
  PROVE  OrphanInv'
  <1> DEFINE h == Sha256(content)
  <1>1. DOMAIN table' = DOMAIN table \cup {h} /\ \A g \in DOMAIN table : table'[g] = table[g]
    BY StoredBlob
  <1>2. table'[h] = content
    BY <1>1, DigestsDiffer DEF ContentAddressed
  <1>3. IsFiniteSet(DOMAIN table')
    BY <1>1, FS_AddElement DEF OrphanInv
  <1>4. ASSUME ~ failed', NEW S, LeadsInside(table', S), NeededIn(roots', stack', importing', S)
        PROVE  DOMAIN table' \subseteq S
    <2>1. h \in S
      BY <1>4
    <2>2. References(content) \subseteq S
      BY <1>1, <1>2, <1>4, <2>1 DEF LeadsInside
    <2>3. NeededIn(roots, stack, importing, S)
      BY <1>4, <2>2
    <2>4. LeadsInside(table, S)
      BY <1>1, <1>4 DEF LeadsInside
    <2>5. DOMAIN table \subseteq S
      BY <1>4, <2>3, <2>4 DEF OrphanInv
    <2> QED
      BY <1>1, <2>1, <2>5
  <1> QED
    BY <1>3, <1>4 DEF OrphanInv

LEMMA InitOrphan == Init => OrphanInv
  BY FS_EmptySet DEF Init, EmptyTable, OrphanInv

LEMMA StartOrphan == StackInv /\ OrphanInv /\ Start => OrphanInv'
  <1> SUFFICES ASSUME StackInv, OrphanInv, Start PROVE OrphanInv'
    OBVIOUS
  <1>1. stack = <<>> /\ UNCHANGED <<table, roots, importing, failed>>
    BY DEF Start, Idle, Running
  <1>2. ASSUME NEW S, NeededIn(roots', stack', importing', S)
        PROVE  NeededIn(roots, stack, importing, S)
    BY <1>1, <1>2 DEF NeededIn, EncodedIn
  <1> QED
    BY <1>1, <1>2, NothingStored

LEMMA AbandonOrphan == OrphanInv /\ Abandon => OrphanInv'
  BY DEF OrphanInv, Abandon

\* What is needed does not depend on the disk.
LEMMA ChangeTreeOrphan == OrphanInv /\ ChangeTree => OrphanInv'
  BY NothingStored DEF ChangeTree

LEMMA NextEntryOrphan ==
  ASSUME StackInv, OrphanInv, NEW name, NextEntry(name)
  PROVE  OrphanInv'
  <1> DEFINE entry == tree[Top.directory][name]
             links == Top.links + (IF entry.link THEN 1 ELSE 0)
             called == Advance(name)
             frame == Frame(entry.directory, name, links)
  <1>1. CASE links > MaxLinks
    BY <1>1, AbandonOrphan DEF NextEntry
  <1>2. CASE ~ (links > MaxLinks)
    <2>1. /\ stack' = IF entry.type = "directory" THEN Append(called, frame) ELSE called
          /\ importing = {}
          /\ UNCHANGED <<tree, table, imports, roots, failed>>
      BY <1>2 DEF NextEntry
    <2>2. stack \in Seq(Call(DOMAIN table)) /\ stack # <<>>
      BY DEF NextEntry, Running, StackInv
    <2>3. /\ called \in Seq(Call(DOMAIN table)) /\ Len(called) = Len(stack)
          /\ \A i \in 1 .. Len(stack) : called[i].encoded = stack[i].encoded
      BY <2>2, AdvanceCall
    <2> HIDE DEF called, frame
    <2>4. \A i \in 1 .. Len(stack) : i \in DOMAIN stack' /\ stack'[i].encoded = stack[i].encoded
      BY <2>1, <2>2, <2>3
    <2>5. ASSUME NEW S, NeededIn(roots', stack', importing', S)
          PROVE  NeededIn(roots, stack, importing, S)
      BY <2>1, <2>2, <2>4, <2>5 DEF NeededIn, EncodedIn
    <2> QED
      BY <2>1, <2>5, NothingStored
  <1> QED
    BY <1>1, <1>2

\* The piece is needed by the file that is being imported.
LEMMA StorePieceOrphan ==
  StackInv /\ PathInv' /\ OrphanInv /\ StorePiece => OrphanInv'
  <1> SUFFICES ASSUME StackInv, PathInv', OrphanInv, StorePiece PROVE OrphanInv'
    OBVIOUS
  <1>1. PICK f \in importing : \E i \in f.todo :
          /\ table' = StoreBlob(table, PieceOf(f.content, i))
          /\ importing' = {[f EXCEPT !.todo = @ \ {i}]}
          /\ UNCHANGED <<tree, stack, imports, roots, failed>>
    BY DEF StorePiece
  <1>2. PICK i \in f.todo :
          /\ table' = StoreBlob(table, PieceOf(f.content, i))
          /\ importing' = {[f EXCEPT !.todo = @ \ {i}]}
          /\ UNCHANGED <<tree, stack, imports, roots, failed>>
    BY <1>1
  <1>3. importing = {f} /\ f \in File /\ i \in PiecesOf(f.content)
    BY <1>2 DEF StackInv, FileInv
  <1> DEFINE g == [f EXCEPT !.todo = @ \ {i}]
  <1>4. g.content = f.content /\ g.todo = f.todo \ {i}
    BY <1>3 DEF File
  <1>5. importing' = {g}
    BY <1>2
  <1> HIDE DEF g
  <1>6. ASSUME NEW S, NeededIn(roots', stack', importing', S)
        PROVE  Sha256(PieceOf(f.content, i)) \in S /\ NeededIn(roots, stack, importing, S)
    <2>1. \A k \in PiecesOf(f.content) \ (f.todo \ {i}) : Sha256(PieceOf(f.content, k)) \in S
      BY <1>4, <1>5, <1>6 DEF NeededIn
    <2>2. \A k \in PiecesOf(f.content) \ f.todo : Sha256(PieceOf(f.content, k)) \in S
      BY <2>1
    <2> QED
      BY <1>2, <1>3, <1>6, <2>1, <2>2 DEF NeededIn
  <1> QED
    BY <1>2, <1>6, NeededStored DEF PathInv

\* What is needed when an entry has been encoded.
LEMMA EncodedIsNeeded ==
  ASSUME NEW T, NEW frames \in Seq(Call(T)), frames # <<>>, NEW entry \in Entry(T), NEW S,
         EncodedIn(Encode(frames, entry), S)
  PROVE  entry.hash_code \in S /\ EncodedIn(frames, S)
  <1>1. PICK more : more = Encode(frames, entry)
    OBVIOUS
  <1>2. PICK n \in Nat \ {0} : n = Len(frames)
    OBVIOUS
  <1>3. /\ DOMAIN frames = 1 .. n /\ DOMAIN more = 1 .. n
        /\ \A i \in 1 .. n :
             more[i].encoded = IF i = n THEN Append(frames[i].encoded, entry) ELSE frames[i].encoded
    <2>1. more \in Seq(Call(T)) /\ Len(more) = n
      BY <1>1, <1>2, EncodeCall
    <2> QED
      BY <1>1, <1>2, <2>1, EncodeCall
  <1>4. PICK last \in Seq(Entry(T)) : last = frames[n].encoded
    <2>1. frames[n] \in Call(T)
      BY <1>2
    <2> QED
      BY <2>1 DEF Call
  <1>5. /\ Len(last) + 1 \in DOMAIN Append(last, entry)
        /\ Append(last, entry)[Len(last) + 1] = entry
        /\ \A j \in DOMAIN last : j \in DOMAIN Append(last, entry) /\ Append(last, entry)[j] = last[j]
    OBVIOUS
  <1>6. \A i \in 1 .. n : \A j \in DOMAIN more[i].encoded : more[i].encoded[j].hash_code \in S
    BY <1>1, <1>3 DEF EncodedIn
  <1>7. \A j \in DOMAIN Append(last, entry) : Append(last, entry)[j].hash_code \in S
    <2>1. n \in 1 .. n
      OBVIOUS
    <2>2. more[n].encoded = Append(frames[n].encoded, entry)
      BY <1>3, <2>1
    <2>3. more[n].encoded = Append(last, entry)
      BY <1>4, <2>2
    <2> QED
      BY <1>6, <2>1, <2>3
  <1>8. entry.hash_code \in S /\ \A j \in DOMAIN last : last[j].hash_code \in S
    BY <1>5, <1>7
  <1>9. ASSUME NEW i \in 1 .. n, NEW j \in DOMAIN frames[i].encoded
        PROVE  frames[i].encoded[j].hash_code \in S
    <2>1. CASE i = n
      BY <1>4, <1>8, <2>1
    <2>2. CASE i # n
      BY <1>3, <1>6, <2>2
    <2> QED
      BY <2>1, <2>2
  <1> QED
    BY <1>3, <1>8, <1>9 DEF EncodedIn

\* The index mentions the pieces, and the new entry the index.
LEMMA FinishFileOrphan ==
  StackInv /\ PathInv' /\ OrphanInv /\ FinishFile => OrphanInv'
  <1> SUFFICES ASSUME StackInv, PathInv', OrphanInv, FinishFile PROVE OrphanInv'
    OBVIOUS
  <1>1. PICK f \in importing :
          /\ AllStored(f)
          /\ table' = StoreBlob(table, FileIndex(f.content))
          /\ stack' = Encode(stack, DirectoryEntry("regular_file", f.name,
                               Sha256(FileIndex(f.content)), Len(f.content)))
          /\ importing' = {}
          /\ UNCHANGED <<tree, imports, roots, failed>>
    BY DEF FinishFile
  <1>2. importing = {f} /\ f \in File /\ f.todo = {} /\ stack # <<>>
    BY <1>1 DEF StackInv, FileInv, AllStored
  <1>3. f.content \in Seq(Byte) /\ f.name \in Name
    BY <1>2 DEF File
  <1>4. PICK h : h = Sha256(FileIndex(f.content))
    OBVIOUS
  <1>5. PICK entry : entry = DirectoryEntry("regular_file", f.name, h, Len(f.content))
    OBVIOUS
  <1>6. entry \in Entry(DOMAIN table') /\ entry.hash_code = h
    <2>1. h \in DOMAIN table'
      BY <1>1, <1>4, StoredBlob
    <2>2. Len(f.content) \in Nat
      BY <1>3
    <2> QED
      BY <1>3, <1>5, <2>1, <2>2 DEF DirectoryEntry, Entry
  <1>7. stack \in Seq(Call(DOMAIN table')) /\ stack' = Encode(stack, entry)
    BY <1>1, <1>4, <1>5, RowStep
  <1>8. ASSUME NEW S, NeededIn(roots', stack', importing', S)
        PROVE  h \in S /\ EncodedIn(stack, S)
    <2>1. EncodedIn(Encode(stack, entry), S)
      BY <1>7, <1>8 DEF NeededIn
    <2> QED
      BY <1>2, <1>6, <1>7, <2>1, EncodedIsNeeded
  <1>9. ASSUME NEW S, NeededIn(roots', stack', importing', S),
               References(FileIndex(f.content)) \subseteq S
        PROVE  NeededIn(roots, stack, importing, S)
    <2>1. \A i \in PiecesOf(f.content) : Sha256(PieceOf(f.content, i)) \in S
      BY <1>3, <1>9, PieceIsMentioned
    <2>2. \A r \in roots : r.root \in S
      BY <1>1, <1>9 DEF NeededIn
    <2> QED
      BY <1>2, <1>8, <1>9, <2>1, <2>2 DEF NeededIn
  <1> QED
    BY <1>1, <1>4, <1>8, <1>9, NeededStored DEF PathInv

\* A directory mentions what its entries stand for, and its caller or the
\* result of the import mentions the directory.
LEMMA FinishDirectoryOrphan ==
  StackInv /\ PathInv' /\ OrphanInv /\ FinishDirectory => OrphanInv'
  <1> SUFFICES ASSUME StackInv, PathInv', OrphanInv, FinishDirectory PROVE OrphanInv'
    OBVIOUS
  <1>1. Running /\ importing = {} /\ UNCHANGED <<tree, importing, imports, failed>>
    BY DEF FinishDirectory
  <1>2. PICK n \in Nat \ {0} : n = Len(stack) /\ DOMAIN stack = 1 .. n /\ stack \in Seq(Call(DOMAIN table))
    BY <1>1 DEF Running, StackInv
  <1>3. PICK content \in Seq(Entry(DOMAIN table)) : content = stack[n].encoded
    BY <1>1, <1>2, TopIsCall DEF Top
  <1>4. PICK h : h = Sha256(content)
    OBVIOUS
  <1>5. table' = StoreBlob(table, content) /\ h \in DOMAIN table'
    <2>1. table' = StoreBlob(table, content)
      BY <1>2, <1>3 DEF FinishDirectory, Top
    <2> QED
      BY <1>4, <2>1, StoredBlob
  <1>6. ASSUME NEW S, References(content) \subseteq S, NEW j \in DOMAIN content
        PROVE  content[j].hash_code \in S
    <2>1. content[j] \in Entry(DOMAIN table)
      BY <1>3
    <2> QED
      BY <1>6, <2>1, EntryIsMentioned DEF Entry
  <1>7. CASE n = 1
    <2>1. stack' = <<>> /\ roots' = roots \cup {[tree |-> tree, root |-> h]}
      BY <1>2, <1>3, <1>4, <1>7 DEF FinishDirectory, Top
    <2>2. ASSUME NEW S, NeededIn(roots', stack', importing', S)
          PROVE  h \in S /\ \A r \in roots : r.root \in S
      <3>1. \A r \in roots' : r.root \in S
        BY <2>2 DEF NeededIn
      <3>2. [tree |-> tree, root |-> h] \in roots'
        BY <2>1
      <3>3. [tree |-> tree, root |-> h].root \in S
        BY <3>1, <3>2
      <3> QED
        BY <2>1, <3>1, <3>3
    <2>3. ASSUME NEW S, NeededIn(roots', stack', importing', S), References(content) \subseteq S
          PROVE  NeededIn(roots, stack, importing, S)
      <3>1. EncodedIn(stack, S)
        BY <1>2, <1>3, <1>6, <1>7, <2>3 DEF EncodedIn
      <3> QED
        BY <1>1, <2>2, <2>3, <3>1 DEF NeededIn
    <2> QED
      BY <1>1, <1>4, <1>5, <2>2, <2>3, NeededStored DEF PathInv
  <1>8. CASE n # 1
    <2>1. PICK callers, entry : /\ callers = Callers(stack)
                                /\ entry = DirectoryEntry("directory", Top.name, h, 0)
      OBVIOUS
    <2>2. stack' = Encode(callers, entry) /\ roots' = roots
      BY <1>2, <1>3, <1>4, <1>8, <2>1 DEF FinishDirectory, Top
    <2>3. /\ callers \in Seq(Call(DOMAIN table)) /\ Len(callers) = n - 1 /\ callers # <<>>
          /\ \A i \in 1 .. n - 1 : i \in DOMAIN callers /\ callers[i] = stack[i]
      <3>1. callers = SubSeq(stack, 1, n - 1) /\ n - 1 \in Nat \ {0}
        BY <1>2, <1>8, <2>1 DEF Callers
      <3>2. callers \in Seq(Call(DOMAIN table)) /\ Len(callers) = n - 1
            /\ \A i \in 1 .. n - 1 : callers[i] = stack[i]
        BY <1>2, <3>1
      <3>3. DOMAIN callers = 1 .. n - 1
        BY <3>2
      <3>4. callers # <<>>
        <4>1. Len(callers) # 0
          BY <3>1, <3>2
        <4> QED
          BY <4>1
      <3> QED
        BY <3>2, <3>3, <3>4
    <2>4. entry \in Entry(DOMAIN table') /\ entry.hash_code = h
      BY <1>1, <1>5, <2>1, TopIsCall DEF DirectoryEntry, Entry
    <2>5. callers \in Seq(Call(DOMAIN table'))
      <3>1. DOMAIN table \subseteq DOMAIN table'
        BY <1>5, StoredBlob
      <3> QED
        BY <2>3, <3>1, CallsGrow
    <2>6. ASSUME NEW S, NeededIn(roots', stack', importing', S)
          PROVE  h \in S /\ EncodedIn(callers, S)
      <3>1. EncodedIn(Encode(callers, entry), S)
        BY <2>2, <2>6 DEF NeededIn
      <3> QED
        BY <2>3, <2>4, <2>5, <3>1, EncodedIsNeeded
    <2>7. ASSUME NEW S, NeededIn(roots', stack', importing', S), References(content) \subseteq S
          PROVE  NeededIn(roots, stack, importing, S)
      <3>1. ASSUME NEW i \in 1 .. n, NEW j \in DOMAIN stack[i].encoded
            PROVE  stack[i].encoded[j].hash_code \in S
        <4>1. CASE i = n
          BY <1>3, <1>6, <2>7, <3>1, <4>1
        <4>2. CASE i # n
          <5>1. i \in 1 .. n - 1
            BY <1>2, <4>2
          <5> QED
            BY <2>3, <2>6, <2>7, <3>1, <5>1 DEF EncodedIn
        <4> QED
          BY <4>1, <4>2
      <3>2. EncodedIn(stack, S)
        BY <1>2, <3>1 DEF EncodedIn
      <3> QED
        BY <1>1, <2>2, <2>7, <3>2 DEF NeededIn
    <2> QED
      BY <1>1, <1>4, <1>5, <2>6, <2>7, NeededStored DEF PathInv
  <1> QED
    BY <1>7, <1>8

LEMMA NextOrphan ==
  StackInv /\ PathInv' /\ OrphanInv /\ [Next]_vars => OrphanInv'
  <1> SUFFICES ASSUME StackInv, PathInv', OrphanInv, [Next]_vars PROVE OrphanInv'
    OBVIOUS
  <1>1. CASE Start
    BY <1>1, StartOrphan
  <1>2. CASE ImportStep
    BY <1>2, NextEntryOrphan, StorePieceOrphan, FinishFileOrphan, FinishDirectoryOrphan
       DEF ImportStep
  <1>3. CASE ImportFails
    BY <1>3, AbandonOrphan DEF ImportFails
  <1>4. CASE ChangeTree
    BY <1>4, ChangeTreeOrphan
  <1>5. CASE UNCHANGED vars
    BY <1>5, NothingStored DEF vars
  <1> QED
    BY <1>1, <1>2, <1>3, <1>4, <1>5 DEF Next, Finished

LEMMA OrphanInvHolds == Spec => []OrphanInv
  BY InitOrphan, NextOrphan, StackInvHolds, PathInvHolds, PTL DEF Spec

-----------------------------------------------------------------------------
(* What Reachable computes. *)

\* One step of it.
Mentions(rows, digests) == digests \cup UNION {References(rows[h]) : h \in digests \cap DOMAIN rows}

IsReached(reached, rows, digests, n) ==
  reached = [i \in 0 .. n |-> IF i = 0 THEN digests ELSE Mentions(rows, reached[i - 1])]

LEMMA ReachedExists ==
  ASSUME NEW rows, Closed(rows), NEW digests \in SUBSET DOMAIN rows, NEW n \in Nat
  PROVE  \E reached : IsReached(reached, rows, digests, n)
  <1> DEFINE U == SUBSET DOMAIN rows
             step == [x \in Nat \X U |-> Mentions(rows, x[2])]
  <1>1. \A x \in U : Mentions(rows, x) \in U
    BY DEF Mentions, Closed
  <1> HIDE DEF U
  <1>2. step \in [Nat \X U -> U]
    BY <1>1
  <1>3. \A i \in Nat, x \in U : step[<<i, x>>] = Mentions(rows, x)
    OBVIOUS
  <1> HIDE DEF step
  <1>4. PICK f \in [0 .. n -> U] : IsRecursive(f, digests, step, n)
    BY <1>2, RecursionExists DEF U
  <1>5. ASSUME NEW i \in 0 .. n, i # 0
        PROVE  step[<<i, f[i - 1]>>] = Mentions(rows, f[i - 1])
    <2>1. i \in Nat /\ i - 1 \in 0 .. n
      BY <1>5
    <2> QED
      BY <1>3, <2>1
  <1>6. IsReached(f, rows, digests, n)
    BY <1>4, <1>5 DEF IsRecursive, IsReached
  <1> QED
    BY <1>6 DEF U

\* As long as there is more to be reached each step adds a digest, so that
\* after as many steps as there are rows nothing is left.
LEMMA ReachedLeadsInside ==
  ASSUME NEW rows, IsFiniteSet(DOMAIN rows), Closed(rows), NEW digests \in SUBSET DOMAIN rows,
         NEW n \in Nat, n = Cardinality(DOMAIN rows), NEW reached, IsReached(reached, rows, digests, n)
  PROVE  /\ reached[n] \subseteq DOMAIN rows
         /\ digests \subseteq reached[n]
         /\ LeadsInside(rows, reached[n])
  <1>1. reached[0] = digests /\ \A i \in 1 .. n : reached[i] = Mentions(rows, reached[i - 1])
    <2>1. \A i \in 0 .. n : reached[i] = IF i = 0 THEN digests ELSE Mentions(rows, reached[i - 1])
      BY DEF IsReached
    <2>2. 0 \in 0 .. n /\ \A i \in 1 .. n : i \in 0 .. n /\ i # 0
      OBVIOUS
    <2> QED
      BY <2>1, <2>2
  <1> DEFINE Good(i) == /\ reached[i] \subseteq DOMAIN rows
                        /\ digests \subseteq reached[i]
                        /\ LeadsInside(rows, reached[i]) \/ i <= Cardinality(reached[i])
             Bad == {i \in 0 .. n : ~ Good(i)}
  <1>2. ASSUME NEW some \in SUBSET DOMAIN rows
        PROVE  IsFiniteSet(some) /\ Cardinality(some) \in Nat /\ Cardinality(some) <= n
    BY FS_Subset, FS_CardinalityType
  <1>3. Good(0)
    BY <1>1, <1>2
  <1>4. ASSUME NEW i \in 1 .. n, Good(i - 1) PROVE Good(i)
    <2>1. PICK before, after : before = reached[i - 1] /\ after = reached[i]
      OBVIOUS
    <2>2. i - 1 \in 0 .. n /\ i \in 0 .. n
      OBVIOUS
    <2>3. after = Mentions(rows, before) /\ before \subseteq after /\ digests \subseteq after
          /\ before \subseteq DOMAIN rows /\ after \subseteq DOMAIN rows
      BY <1>1, <1>4, <2>1 DEF Mentions, Closed
    <2>4. CASE LeadsInside(rows, before)
      <3>1. after = before
        BY <2>3, <2>4 DEF Mentions, LeadsInside
      <3> QED
        BY <2>1, <2>3, <2>4, <3>1
    <2>5. CASE ~ LeadsInside(rows, before)
      <3>1. before # after
        BY <2>3, <2>5 DEF Mentions, LeadsInside
      <3>2. i - 1 <= Cardinality(before)
        BY <1>4, <2>1, <2>5
      <3>3. /\ IsFiniteSet(after)
            /\ Cardinality(before) \in Nat /\ Cardinality(after) \in Nat
        BY <1>2, <2>3
      <3>4. Cardinality(before) <= Cardinality(after) /\ Cardinality(after) # Cardinality(before)
        BY <2>3, <3>1, <3>3, FS_Subset
      <3>5. i <= Cardinality(after)
        BY <2>2, <3>2, <3>3, <3>4
      <3> QED
        BY <2>1, <2>3, <3>5
    <2> QED
      BY <2>4, <2>5
  <1> HIDE DEF Good
  <1>5. Bad = {}
    <2> SUFFICES ASSUME Bad # {} PROVE FALSE
      OBVIOUS
    <2>1. Bad \subseteq Nat
      OBVIOUS
    <2>2. PICK i \in Bad : \A j \in Bad : i <= j
      <3> HIDE DEF Bad
      <3> QED
        BY <2>1, LeastNumber
    <2>3. i \in 0 .. n /\ ~ Good(i) /\ i # 0
      BY <1>3
    <2>4. i \in 1 .. n /\ i - 1 \in 0 .. n /\ ~ (i <= i - 1)
      BY <2>3
    <2>5. Good(i - 1)
      BY <2>2, <2>4
    <2> QED
      BY <1>4, <2>3, <2>4, <2>5
  <1>6. Good(n) /\ n \in 0 .. n
    BY <1>5
  <1>7. CASE n <= Cardinality(reached[n])
    <2>1. reached[n] \subseteq DOMAIN rows
      BY <1>6 DEF Good
    <2>2. Cardinality(reached[n]) = Cardinality(DOMAIN rows)
      BY <1>2, <1>7, <2>1
    <2>3. reached[n] = DOMAIN rows
      BY <2>1, <2>2, FS_Subset
    <2>4. LeadsInside(rows, DOMAIN rows)
      BY DEF Closed, LeadsInside
    <2> QED
      BY <1>6, <2>3, <2>4 DEF Good
  <1> QED
    BY <1>6, <1>7 DEF Good

\* The digests themselves are in any set that leads inside and holds them.
LEMMA ReachedStaysInside ==
  ASSUME NEW digests \in SUBSET DOMAIN table, IsFiniteSet(DOMAIN table), Closed(table)
  PROVE  /\ Reachable(digests) \subseteq DOMAIN table
         /\ digests \subseteq Reachable(digests)
         /\ LeadsInside(table, Reachable(digests))
  <1>1. PICK n \in Nat : n = Cardinality(DOMAIN table)
    BY FS_CardinalityType
  <1> DEFINE chosen == CHOOSE reached : IsReached(reached, table, digests, Cardinality(DOMAIN table))
  <1>2. Reachable(digests) = chosen[Cardinality(DOMAIN table)]
    BY DEF Reachable, IsReached, Mentions
  <1>3. IsReached(chosen, table, digests, Cardinality(DOMAIN table))
    BY <1>1, ReachedExists
  <1> HIDE DEF chosen
  <1>4. PICK reached : reached = chosen
    OBVIOUS
  <1>5. IsReached(reached, table, digests, n) /\ Reachable(digests) = reached[n]
    BY <1>1, <1>2, <1>3, <1>4
  <1> QED
    BY <1>1, <1>5, ReachedLeadsInside

\* Without failures nothing is stored that no imported tree needs; the tests
\* count blobs on that account (import_test.cpp:140 and 157).
THEOREM NothingIsOrphaned == Spec => []NoOrphans
  <1>1. StackInv /\ PathInv /\ OrphanInv /\ Readable => NoOrphans
    <2> SUFFICES ASSUME StackInv, PathInv, OrphanInv, Readable, Idle, ~ failed
                 PROVE  DOMAIN table = Reachable({r.root : r \in roots})
      BY DEF NoOrphans
    <2>1. PICK digests : digests = {r.root : r \in roots}
      OBVIOUS
    <2>2. digests \in SUBSET DOMAIN table
      <3> SUFFICES ASSUME NEW r \in roots PROVE r.root \in DOMAIN table
        BY <2>1
      <3>1. <<r.root, RootDir>> \in (DOMAIN table) \X DOMAIN r.tree
        BY DEF PathInv, RootsOK, Same
      <3> QED
        BY <3>1
    <2>3. IsFiniteSet(DOMAIN table) /\ Closed(table)
      BY DEF OrphanInv, Readable
    <2>4. PICK S : S = Reachable(digests)
      OBVIOUS
    <2>5. S \subseteq DOMAIN table /\ digests \subseteq S /\ LeadsInside(table, S)
      BY <2>2, <2>3, <2>4, ReachedStaysInside
    <2>6. NeededIn(roots, stack, importing, S)
      <3>1. stack = <<>> /\ importing = {}
        BY DEF Idle, Running, StackInv
      <3> QED
        BY <2>1, <2>5, <3>1 DEF NeededIn, EncodedIn
    <2>7. DOMAIN table \subseteq S
      BY <2>5, <2>6 DEF OrphanInv
    <2> QED
      BY <2>1, <2>4, <2>5, <2>7
  <1> QED
    BY <1>1, StackInvHolds, PathInvHolds, OrphanInvHolds, ImportsKeepStoreClosed, StoreIsReadable, PTL

-----------------------------------------------------------------------------
(***************************************************************************)
(* Paths are short.  The directories of a tree that an import has been     *)
(* through can be ranked, each above those it leads to, with ranks below   *)
(* their number: an import that comes back has met no cycle.               *)
(***************************************************************************)

\* These names of a directory lead to directories of a set.
Within(t, d, names, D) ==
  \A name \in names : t[d][name].type = "directory" => t[d][name].directory \in D

Ranked(t, D, rank) ==
  /\ D \subseteq DOMAIN t
  /\ rank \in [D -> Nat]
  /\ \A d \in D :
       /\ rank[d] < Cardinality(D)
       /\ Within(t, d, DOMAIN t[d], D)
       /\ \A name \in DOMAIN t[d] :
            t[d][name].type = "directory" => rank[t[d][name].directory] < rank[d]

CallsWithin(t, frames, files, D) ==
  \A i \in 1 .. Len(frames) :
    Within(t, frames[i].directory,
           DOMAIN t[frames[i].directory] \ (frames[i].todo \cup Pending(frames, files, i)), D)

StackRanked(t, frames, files) ==
  \E D, rank : Ranked(t, D, rank) /\ CallsWithin(t, frames, files, D)

RootsRanked(results) ==
  \A r \in results : \E D, rank : Ranked(r.tree, D, rank) /\ RootDir \in D

RankInv == StackRanked(tree, stack, importing) /\ RootsRanked(roots)

LEMMA NothingRanked ==
  ASSUME NEW t
  PROVE  StackRanked(t, <<>>, {})
  <1>1. Ranked(t, {}, [d \in {} |-> 0])
    BY DEF Ranked
  <1>2. CallsWithin(t, <<>>, {}, {})
    BY DEF CallsWithin
  <1> QED
    BY <1>1, <1>2 DEF StackRanked

\* A directory that leads to ranked ones only is the next to get a rank.
LEMMA RankedNext ==
  ASSUME NEW t, IsFiniteSet(DOMAIN t), NEW D, NEW rank, Ranked(t, D, rank),
         NEW d \in DOMAIN t, Within(t, d, DOMAIN t[d], D)
  PROVE  \E E, more : Ranked(t, E, more) /\ D \subseteq E /\ d \in E
  <1>1. CASE d \in D
    BY <1>1
  <1>2. CASE d \notin D
    <2>1. IsFiniteSet(D)
      BY FS_Subset DEF Ranked
    <2>2. PICK n \in Nat : n = Cardinality(D)
      BY <2>1, FS_CardinalityType
    <2>3. PICK E : E = D \cup {d}
      OBVIOUS
    <2>4. Cardinality(E) = n + 1
      BY <1>2, <2>1, <2>2, <2>3, FS_AddElement
    <2>5. PICK more : more = [e \in E |-> IF e = d THEN n ELSE rank[e]]
      OBVIOUS
    <2>6. more \in [E -> Nat] /\ more[d] = n /\ \A e \in D : more[e] = rank[e] /\ e # d
      BY <1>2, <2>2, <2>3, <2>5 DEF Ranked
    <2>7. \A e \in D : rank[e] \in Nat /\ rank[e] < n
      BY <2>2 DEF Ranked
    <2>8. ASSUME NEW e \in E
          PROVE  /\ more[e] < n + 1
                 /\ Within(t, e, DOMAIN t[e], E)
                 /\ \A name \in DOMAIN t[e] :
                      t[e][name].type = "directory" => more[t[e][name].directory] < more[e]
      <3>1. CASE e = d
        <4>1. \A name \in DOMAIN t[d] : t[d][name].type = "directory" => t[d][name].directory \in D
          BY DEF Within
        <4>2. Within(t, d, DOMAIN t[d], E)
          BY <2>3, <4>1 DEF Within
        <4>3. \A name \in DOMAIN t[d] :
                t[d][name].type = "directory" => more[t[d][name].directory] < n
          BY <2>6, <2>7, <4>1
        <4>4. more[d] < n + 1
          BY <2>2, <2>6
        <4> QED
          BY <2>6, <3>1, <4>2, <4>3, <4>4
      <3>2. CASE e \in D
        <4>1. /\ \A name \in DOMAIN t[e] :
                   t[e][name].type = "directory" => t[e][name].directory \in D
              /\ \A name \in DOMAIN t[e] :
                   t[e][name].type = "directory" => rank[t[e][name].directory] < rank[e]
          BY <3>2 DEF Ranked, Within
        <4>2. Within(t, e, DOMAIN t[e], E)
          BY <2>3, <4>1 DEF Within
        <4>3. more[e] < n + 1
          BY <2>2, <2>6, <2>7, <3>2
        <4> QED
          BY <2>6, <3>2, <4>1, <4>2, <4>3
      <3> QED
        BY <2>3, <3>1, <3>2
    <2>9. E \subseteq DOMAIN t
      BY <2>3 DEF Ranked
    <2>10. Ranked(t, E, more)
      BY <2>4, <2>6, <2>8, <2>9 DEF Ranked
    <2> QED
      BY <2>3, <2>10
  <1> QED
    BY <1>1, <1>2

LEMMA InitRank == Init => RankInv
  BY NothingRanked DEF Init, RankInv, RootsRanked

\* The first call is through with nothing.
LEMMA StartRank == StackInv /\ RankInv /\ Start => RankInv'
  <1> SUFFICES ASSUME StackInv, RankInv, Start PROVE RankInv'
    OBVIOUS
  <1>1. PICK frame : frame = Frame(RootDir, "", 0)
    OBVIOUS
  <1>2. frame.directory = RootDir /\ frame.todo = DOMAIN tree[RootDir]
    BY <1>1 DEF Frame
  <1>3. stack' = <<frame>> /\ importing' = {} /\ UNCHANGED <<tree, roots>>
    BY <1>1 DEF Start, Idle, Running, StackInv
  <1>4. Len(<<frame>>) = 1 /\ <<frame>>[1] = frame
    OBVIOUS
  <1>5. CallsWithin(tree, <<frame>>, {}, {})
    BY <1>2, <1>4 DEF CallsWithin, Within
  <1>6. Ranked(tree, {}, [d \in {} |-> 0])
    BY DEF Ranked
  <1> QED
    BY <1>3, <1>5, <1>6 DEF RankInv, StackRanked

LEMMA AbandonRank == RankInv /\ Abandon => RankInv'
  BY NothingRanked DEF Abandon, RankInv

LEMMA ChangeTreeRank == StackInv /\ RankInv /\ ChangeTree => RankInv'
  <1> SUFFICES ASSUME StackInv, RankInv, ChangeTree PROVE RankInv'
    OBVIOUS
  <1>1. stack' = <<>> /\ importing' = {} /\ roots' = roots
    BY DEF ChangeTree, Idle, Running, StackInv
  <1> QED
    BY <1>1, NothingRanked DEF RankInv

\* The calls are through with no other directory than before.
LEMMA CallsStayWithin ==
  ASSUME NEW t, NEW frames, NEW files, NEW others, NEW otherFiles, NEW D,
         CallsWithin(t, frames, files, D),
         \A i \in 1 .. Len(others) :
           \/ DOMAIN t[others[i].directory] \subseteq others[i].todo
           \/ /\ i \in 1 .. Len(frames)
              /\ others[i].directory = frames[i].directory
              /\ \A name \in DOMAIN t[frames[i].directory] :
                   /\ t[frames[i].directory][name].type = "directory"
                   /\ t[frames[i].directory][name].directory \notin D
                   /\ name \in frames[i].todo \cup Pending(frames, files, i)
                   => name \in others[i].todo \cup Pending(others, otherFiles, i)
  PROVE  CallsWithin(t, others, otherFiles, D)
  <1> SUFFICES ASSUME NEW i \in 1 .. Len(others),
                      NEW name \in DOMAIN t[others[i].directory]
                        \ (others[i].todo \cup Pending(others, otherFiles, i)),
                      t[others[i].directory][name].type = "directory",
                      t[others[i].directory][name].directory \notin D
               PROVE  FALSE
    BY DEF CallsWithin, Within
  <1>1. i \in 1 .. Len(frames) /\ others[i].directory = frames[i].directory
    OBVIOUS
  <1>2. name \notin frames[i].todo \cup Pending(frames, files, i)
    BY <1>1
  <1> QED
    BY <1>1, <1>2 DEF CallsWithin, Within

LEMMA NextEntryRank ==
  ASSUME StackInv, RankInv, NEW name, NextEntry(name)
  PROVE  RankInv'
  <1>1. PICK e, links, called, frame :
          /\ e = tree[Top.directory][name]
          /\ links = Top.links + (IF e.link THEN 1 ELSE 0)
          /\ called = Advance(name)
          /\ frame = Frame(e.directory, name, links)
    OBVIOUS
  <1>2. Running /\ importing = {} /\ name \in Top.todo
    BY DEF NextEntry
  <1>3. CASE links > MaxLinks
    BY <1>1, <1>3, AbandonRank DEF NextEntry
  <1>4. CASE ~ (links > MaxLinks)
    <2>1. /\ stack' = IF e.type = "directory" THEN Append(called, frame) ELSE called
          /\ UNCHANGED <<tree, roots>>
      BY <1>1, <1>4 DEF NextEntry
    <2>2. PICK n \in Nat \ {0} : n = Len(stack) /\ Top = stack[n]
      BY <1>2, TopIsCall DEF Top
    <2>3. /\ called \in Seq(Call(DOMAIN table)) /\ Len(called) = n
          /\ \A i \in 1 .. n :
               /\ called[i].directory = stack[i].directory
               /\ called[i].todo = IF i = n THEN stack[i].todo \ {name} ELSE stack[i].todo
               /\ called[i].name = stack[i].name
      <3>1. stack \in Seq(Call(DOMAIN table)) /\ stack # <<>>
        BY <1>2 DEF StackInv, Running
      <3>2. /\ Advance(name) \in Seq(Call(DOMAIN table)) /\ Len(Advance(name)) = Len(stack)
            /\ \A i \in 1 .. Len(stack) :
                 /\ Advance(name)[i].directory = stack[i].directory
                 /\ Advance(name)[i].todo =
                      IF i = Len(stack) THEN stack[i].todo \ {name} ELSE stack[i].todo
                 /\ Advance(name)[i].name = stack[i].name
        BY <3>1, AdvanceCall
      <3> QED
        BY <1>1, <2>2, <3>2
    <2>4. PICK others, files : others = stack' /\ files = importing'
      OBVIOUS
    <2>5. /\ \A i \in 1 .. n : others[i] = called[i]
          /\ e.type = "directory" => Len(others) = n + 1 /\ others[n + 1] = frame
          /\ e.type # "directory" => Len(others) = n
      BY <2>1, <2>2, <2>3, <2>4
    <2>6. /\ frame.directory = e.directory /\ frame.name = name
          /\ e.type = "directory" => frame.todo = DOMAIN tree[frame.directory]
      BY <1>1 DEF Frame
    <2>7. PICK D, rank : Ranked(tree, D, rank) /\ CallsWithin(tree, stack, importing, D)
      BY DEF RankInv, StackRanked
    <2>8. ASSUME NEW i \in 1 .. n - 1
          PROVE  /\ i \in 1 .. n /\ others[i].directory = stack[i].directory
                 /\ others[i].todo = stack[i].todo
                 /\ Pending(others, files, i) = Pending(stack, importing, i)
      <3>1. i \in 1 .. n /\ i + 1 \in 1 .. n /\ i # n /\ i < n /\ i < n + 1
        BY <2>2
      <3>2. Pending(stack, importing, i) = {stack[i + 1].name}
        BY <2>2, <3>1 DEF Pending
      <3>3. i < Len(others)
        BY <2>5, <3>1
      <3>4. Pending(others, files, i) = {others[i + 1].name}
        BY <3>3 DEF Pending
      <3> QED
        BY <2>3, <2>5, <3>1, <3>2, <3>4
    <2>9. n \in 1 .. n /\ others[n].directory = stack[n].directory /\ others[n].todo = stack[n].todo \ {name}
      <3>1. n \in 1 .. n
        BY <2>2
      <3>2. others[n] = called[n] /\ called[n].todo = stack[n].todo \ {name}
        BY <2>3, <2>5, <3>1
      <3> QED
        BY <2>3, <3>1, <3>2
    <2>10. Pending(stack, importing, n) = {}
      BY <1>2, <2>2 DEF Pending
    <2>11. e.type = "directory" => Pending(others, files, n) = {name}
      <3>1. n < n + 1
        BY <2>2
      <3> QED
        BY <2>5, <2>6, <3>1 DEF Pending
    <2>12. ASSUME NEW m \in DOMAIN tree[stack[n].directory],
                  tree[stack[n].directory][m].type = "directory",
                  m \in stack[n].todo \cup Pending(stack, importing, n)
           PROVE  m \in others[n].todo \cup Pending(others, files, n)
      <3>1. CASE m = name
        BY <1>1, <2>2, <2>11, <2>12, <3>1
      <3>2. CASE m # name
        BY <2>9, <2>10, <2>12, <3>2
      <3> QED
        BY <3>1, <3>2
    <2>13. \A i \in 1 .. Len(others) :
             \/ DOMAIN tree[others[i].directory] \subseteq others[i].todo
             \/ /\ i \in 1 .. Len(stack)
                /\ others[i].directory = stack[i].directory
                /\ \A m \in DOMAIN tree[stack[i].directory] :
                     /\ tree[stack[i].directory][m].type = "directory"
                     /\ tree[stack[i].directory][m].directory \notin D
                     /\ m \in stack[i].todo \cup Pending(stack, importing, i)
                     => m \in others[i].todo \cup Pending(others, files, i)
      <3> SUFFICES ASSUME NEW i \in 1 .. Len(others)
                   PROVE  \/ DOMAIN tree[others[i].directory] \subseteq others[i].todo
                          \/ /\ i \in 1 .. n
                             /\ others[i].directory = stack[i].directory
                             /\ \A m \in DOMAIN tree[stack[i].directory] :
                                  /\ tree[stack[i].directory][m].type = "directory"
                                  /\ tree[stack[i].directory][m].directory \notin D
                                  /\ m \in stack[i].todo \cup Pending(stack, importing, i)
                                  => m \in others[i].todo \cup Pending(others, files, i)
        BY <2>2
      <3>1. i \in 1 .. n - 1 \/ i = n \/ (i = n + 1 /\ e.type = "directory")
        BY <2>2, <2>5
      <3>2. CASE i \in 1 .. n - 1
        BY <2>8, <3>2
      <3>3. CASE i = n
        BY <2>9, <2>12, <3>3
      <3>4. CASE i = n + 1 /\ e.type = "directory"
        BY <2>5, <2>6, <3>4
      <3> QED
        BY <3>1, <3>2, <3>3, <3>4
    <2>14. CallsWithin(tree, others, files, D)
      BY <2>7, <2>13, CallsStayWithin
    <2> QED
      BY <2>1, <2>4, <2>7, <2>14 DEF RankInv, StackRanked
  <1> QED
    BY <1>3, <1>4

LEMMA StorePieceRank == StackInv /\ RankInv /\ StorePiece => RankInv'
  <1> SUFFICES ASSUME StackInv, RankInv, StorePiece PROVE RankInv'
    OBVIOUS
  <1>1. PICK f \in importing : \E i \in f.todo :
          importing' = {[f EXCEPT !.todo = @ \ {i}]} /\ UNCHANGED <<tree, stack, roots>>
    BY DEF StorePiece
  <1>2. importing = {f} /\ f \in File
    BY DEF StackInv, FileInv
  <1>3. PICK g : importing' = {g} /\ g.name = f.name
    <2>1. PICK i : importing' = {[f EXCEPT !.todo = @ \ {i}]}
      BY <1>1
    <2>2. [f EXCEPT !.todo = @ \ {i}].name = f.name
      BY <1>2 DEF File
    <2> QED
      BY <2>1, <2>2
  <1>4. \A i : Pending(stack, importing', i) = Pending(stack, importing, i)
    BY <1>2, <1>3 DEF Pending
  <1>5. PICK D, rank : Ranked(tree, D, rank) /\ CallsWithin(tree, stack, importing, D)
    BY DEF RankInv, StackRanked
  <1>6. CallsWithin(tree, stack, importing', D)
    BY <1>4, <1>5 DEF CallsWithin
  <1> QED
    BY <1>1, <1>5, <1>6 DEF RankInv, StackRanked

\* An entry is encoded: what it was pending for is ranked, or not a directory.
LEMMA EncodedWithin ==
  ASSUME NEW t, NEW T, NEW frames \in Seq(Call(T)), frames # <<>>, NEW D, NEW names,
         \A i \in 1 .. Len(frames) - 1 :
           Within(t, frames[i].directory,
                  DOMAIN t[frames[i].directory] \ (frames[i].todo \cup {frames[i + 1].name}), D),
         NEW d, d = frames[Len(frames)].directory,
         Within(t, d, DOMAIN t[d] \ (frames[Len(frames)].todo \cup names), D),
         \A name \in names : t[d][name].type = "directory" => t[d][name].directory \in D,
         NEW entry \in Entry(T)
  PROVE  CallsWithin(t, Encode(frames, entry), {}, D)
  <1>1. PICK n, encoded : n = Len(frames) /\ encoded = Encode(frames, entry)
    OBVIOUS
  <1>2. n \in Nat \ {0}
    BY <1>1
  <1>3. /\ Len(encoded) = n
        /\ \A i \in 1 .. n :
             /\ encoded[i].directory = frames[i].directory
             /\ encoded[i].todo = frames[i].todo
             /\ encoded[i].name = frames[i].name
    BY <1>1, EncodeCall
  <1>4. ASSUME NEW i \in 1 .. n - 1
        PROVE  Within(t, encoded[i].directory,
                      DOMAIN t[encoded[i].directory]
                        \ (encoded[i].todo \cup Pending(encoded, {}, i)), D)
    <2>1. i \in 1 .. n /\ i + 1 \in 1 .. n /\ i < n
      BY <1>2
    <2>2. Pending(encoded, {}, i) = {frames[i + 1].name}
      BY <1>3, <2>1 DEF Pending
    <2> QED
      BY <1>1, <1>3, <2>1, <2>2
  <1>5. Within(t, encoded[n].directory,
               DOMAIN t[encoded[n].directory] \ (encoded[n].todo \cup Pending(encoded, {}, n)), D)
    <2>1. n \in 1 .. n /\ encoded[n].directory = d /\ encoded[n].todo = frames[n].todo
      BY <1>1, <1>2, <1>3
    <2>2. Pending(encoded, {}, n) = {}
      BY <1>2, <1>3 DEF Pending
    <2> QED
      BY <1>1, <2>1, <2>2 DEF Within
  <1>6. \A i \in 1 .. n : i = n \/ i \in 1 .. n - 1
    BY <1>2
  <1>7. CallsWithin(t, encoded, {}, D)
    BY <1>3, <1>4, <1>5, <1>6 DEF CallsWithin
  <1> QED
    BY <1>1, <1>7

\* What is known of all the calls but the innermost, and of that one.
LEMMA KnownWithin ==
  ASSUME StackInv, Running, NEW D, CallsWithin(tree, stack, importing, D)
  PROVE  /\ \A i \in 1 .. Len(stack) - 1 :
              Within(tree, stack[i].directory,
                     DOMAIN tree[stack[i].directory] \ (stack[i].todo \cup {stack[i + 1].name}), D)
         /\ Within(tree, Top.directory,
                   DOMAIN tree[Top.directory] \ (Top.todo \cup {f.name : f \in importing}), D)
  <1>1. PICK n \in Nat \ {0} : n = Len(stack) /\ Top = stack[n]
    BY TopIsCall DEF Top
  <1>2. \A i \in 1 .. n - 1 : i \in 1 .. n /\ Pending(stack, importing, i) = {stack[i + 1].name}
    BY <1>1 DEF Pending
  <1>3. n \in 1 .. n /\ Pending(stack, importing, n) = {f.name : f \in importing}
    BY <1>1 DEF Pending
  <1>4. \A i \in 1 .. n :
          Within(tree, stack[i].directory,
                 DOMAIN tree[stack[i].directory] \ (stack[i].todo \cup Pending(stack, importing, i)), D)
    BY <1>1 DEF CallsWithin
  <1>5. \A i \in 1 .. n - 1 :
          Within(tree, stack[i].directory,
                 DOMAIN tree[stack[i].directory] \ (stack[i].todo \cup {stack[i + 1].name}), D)
    BY <1>2, <1>4
  <1>6. Within(tree, stack[n].directory,
               DOMAIN tree[stack[n].directory] \ (stack[n].todo \cup {f.name : f \in importing}), D)
    BY <1>3, <1>4
  <1> QED
    BY <1>1, <1>5, <1>6

LEMMA FinishFileRank == StackInv /\ PathInv /\ RankInv /\ FinishFile => RankInv'
  <1> SUFFICES ASSUME StackInv, PathInv, RankInv, FinishFile PROVE RankInv'
    OBVIOUS
  <1>1. PICK f \in importing :
          /\ table' = StoreBlob(table, FileIndex(f.content))
          /\ stack' = Encode(stack, DirectoryEntry("regular_file", f.name,
                               Sha256(FileIndex(f.content)), Len(f.content)))
          /\ importing' = {}
          /\ UNCHANGED <<tree, roots>>
    BY DEF FinishFile
  <1>2. PICK entry : entry = DirectoryEntry("regular_file", f.name, Sha256(FileIndex(f.content)),
                                            Len(f.content))
    OBVIOUS
  <1>3. /\ importing = {f} /\ f \in File /\ Running /\ {g.name : g \in importing} = {f.name}
        /\ stack # <<>> /\ stack \in Seq(Call(DOMAIN table))
    BY DEF StackInv, FileInv, Running
  <1>4. DOMAIN table \subseteq DOMAIN table' /\ Sha256(FileIndex(f.content)) \in DOMAIN table'
    BY <1>1, StoredBlob
  <1>5. entry \in Entry(DOMAIN table')
    BY <1>2, <1>3, <1>4 DEF DirectoryEntry, Entry, File
  <1>6. stack \in Seq(Call(DOMAIN table'))
    BY <1>3, <1>4, CallsGrow
  <1>7. PICK D, rank : Ranked(tree, D, rank) /\ CallsWithin(tree, stack, importing, D)
    BY DEF RankInv, StackRanked
  <1>8. /\ \A i \in 1 .. Len(stack) - 1 :
             Within(tree, stack[i].directory,
                    DOMAIN tree[stack[i].directory] \ (stack[i].todo \cup {stack[i + 1].name}), D)
        /\ Within(tree, Top.directory, DOMAIN tree[Top.directory] \ (Top.todo \cup {f.name}), D)
    BY <1>3, <1>7, KnownWithin
  <1>9. tree[Top.directory][f.name].type = "regular_file"
    BY <1>3 DEF PathInv, StackOK, FilesLinked, Top
  <1>10. PICK d : d = Top.directory /\ d = stack[Len(stack)].directory
    BY DEF Top
  <1>11. CallsWithin(tree, Encode(stack, entry), {}, D)
    <2>1. Within(tree, d, DOMAIN tree[d] \ (stack[Len(stack)].todo \cup {f.name}), D)
      BY <1>8, <1>10 DEF Top
    <2>2. \A name \in {f.name} : tree[d][name].type = "directory" => tree[d][name].directory \in D
      BY <1>9, <1>10
    <2> QED
      BY <1>3, <1>5, <1>6, <1>8, <1>10, <2>1, <2>2, EncodedWithin
  <1> QED
    BY <1>1, <1>2, <1>7, <1>11 DEF RankInv, StackRanked

\* The directory gets its rank when all that it leads to have one.
LEMMA FinishDirectoryRank == StackInv /\ PathInv /\ RankInv /\ FinishDirectory => RankInv'
  <1> SUFFICES ASSUME StackInv, PathInv, RankInv, FinishDirectory PROVE RankInv'
    OBVIOUS
  <1>1. PICK h, d : h = Sha256(Top.encoded) /\ d = Top.directory
    OBVIOUS
  <1>2. /\ Running /\ importing = {} /\ Top.todo = {} /\ table' = StoreBlob(table, Top.encoded)
        /\ importing' = {} /\ tree' = tree
    BY DEF FinishDirectory
  <1>3. PICK n \in Nat \ {0} : n = Len(stack) /\ Top = stack[n]
    BY <1>2, TopIsCall DEF Top
  <1>4. d \in DOMAIN tree /\ stack \in Seq(Call(DOMAIN table)) /\ stack # <<>>
    BY <1>1, <1>2, TopIsCall DEF StackInv, Running
  <1>5. stack[1].directory = RootDir /\ CallsLinked(tree, stack)
    BY <1>4 DEF PathInv, StackOK
  <1>6. PICK D, rank : Ranked(tree, D, rank) /\ CallsWithin(tree, stack, importing, D)
    BY DEF RankInv, StackRanked
  <1>7. /\ \A i \in 1 .. n - 1 :
             Within(tree, stack[i].directory,
                    DOMAIN tree[stack[i].directory] \ (stack[i].todo \cup {stack[i + 1].name}), D)
        /\ Within(tree, d, DOMAIN tree[d], D)
    <2>1. /\ \A i \in 1 .. Len(stack) - 1 :
               Within(tree, stack[i].directory,
                      DOMAIN tree[stack[i].directory] \ (stack[i].todo \cup {stack[i + 1].name}), D)
          /\ Within(tree, Top.directory,
                    DOMAIN tree[Top.directory] \ (Top.todo \cup {f.name : f \in importing}), D)
      BY <1>2, <1>6, KnownWithin
    <2>2. DOMAIN tree[d] \ (Top.todo \cup {f.name : f \in importing}) = DOMAIN tree[d]
      BY <1>2
    <2> QED
      BY <1>1, <1>3, <2>1, <2>2
  <1>8. PICK E, more : Ranked(tree, E, more) /\ D \subseteq E /\ d \in E
    <2>1. IsFiniteSet(DOMAIN tree)
      BY TreesAssumption DEF StackInv
    <2> QED
      BY <1>4, <1>6, <1>7, <2>1, RankedNext
  <1>9. CASE n = 1
    <2>1. stack' = <<>> /\ roots' = roots \cup {[tree |-> tree, root |-> h]}
      BY <1>1, <1>3, <1>9 DEF FinishDirectory
    <2>2. RootDir \in E
      BY <1>1, <1>3, <1>5, <1>8, <1>9
    <2>3. RootsRanked(roots')
      BY <1>8, <2>1, <2>2 DEF RankInv, RootsRanked
    <2> QED
      BY <1>2, <2>1, <2>3, NothingRanked DEF RankInv
  <1>10. CASE n # 1
    <2>1. PICK callers, entry :
            /\ callers = Callers(stack)
            /\ entry = DirectoryEntry("directory", Top.name, h, 0)
      OBVIOUS
    <2>2. stack' = Encode(callers, entry) /\ roots' = roots
      BY <1>1, <1>3, <1>10, <2>1 DEF FinishDirectory
    <2>3. h \in DOMAIN table' /\ DOMAIN table \subseteq DOMAIN table'
      <3>1. DOMAIN StoreBlob(table, Top.encoded) = DOMAIN table \cup {Sha256(Top.encoded)}
        BY StoredBlob
      <3> QED
        BY <1>1, <1>2, <3>1
    <2>4. entry \in Entry(DOMAIN table')
      BY <1>2, <2>1, <2>3, TopIsCall DEF DirectoryEntry, Entry
    <2>5. PICK m : m = n - 1 /\ m \in Nat \ {0} /\ m \in 1 .. n - 1 /\ m + 1 = n
      BY <1>3, <1>10
    <2>6. /\ callers \in Seq(Call(DOMAIN table)) /\ Len(callers) = m
          /\ \A i \in 1 .. m : callers[i] = stack[i]
      BY <1>3, <1>4, <2>1, <2>5 DEF Callers
    <2>7. callers \in Seq(Call(DOMAIN table')) /\ callers # <<>>
      BY <2>3, <2>5, <2>6, CallsGrow
    <2>8. \A i \in 1 .. m - 1 : i \in 1 .. m /\ i + 1 \in 1 .. m /\ i \in 1 .. n - 1
      BY <2>5
    <2>9. ASSUME NEW i \in 1 .. n - 1
          PROVE  Within(tree, stack[i].directory,
                   DOMAIN tree[stack[i].directory] \ (stack[i].todo \cup {stack[i + 1].name}), E)
      BY <1>7, <1>8 DEF Within
    <2>10. \A i \in 1 .. m - 1 :
             Within(tree, callers[i].directory,
               DOMAIN tree[callers[i].directory] \ (callers[i].todo \cup {callers[i + 1].name}), E)
      BY <2>6, <2>8, <2>9
    <2>11. PICK up : up = callers[m].directory /\ up = stack[m].directory /\ callers[m] = stack[m]
      <3>1. m \in 1 .. m
        BY <2>5
      <3> QED
        BY <2>6, <3>1
    <2>12. Within(tree, up, DOMAIN tree[up] \ (callers[m].todo \cup {stack[n].name}), E)
      <3>1. stack[m + 1] = stack[n] /\ m \in 1 .. n - 1
        BY <2>5
      <3>2. Within(tree, stack[m].directory,
              DOMAIN tree[stack[m].directory] \ (stack[m].todo \cup {stack[m + 1].name}), E)
        BY <2>9, <3>1
      <3> QED
        BY <2>11, <3>1, <3>2
    <2>13. \A name \in {stack[n].name} : tree[up][name].type = "directory" => tree[up][name].directory \in E
      <3>1. tree[stack[m].directory][stack[m + 1].name].directory = stack[m + 1].directory
        BY <1>3, <1>5, <2>5 DEF CallsLinked
      <3>2. stack[m + 1] = stack[n]
        BY <2>5
      <3> QED
        BY <1>1, <1>3, <1>8, <2>11, <3>1, <3>2
    <2>14. CallsWithin(tree, Encode(callers, entry), {}, E)
      <3>1. up = callers[Len(callers)].directory /\ callers[m] = callers[Len(callers)]
        BY <2>6, <2>11
      <3>2. \A i \in 1 .. Len(callers) - 1 :
              Within(tree, callers[i].directory,
                DOMAIN tree[callers[i].directory] \ (callers[i].todo \cup {callers[i + 1].name}), E)
        BY <2>6, <2>10
      <3>3. Within(tree, up,
                   DOMAIN tree[up] \ (callers[Len(callers)].todo \cup {stack[n].name}), E)
        BY <2>12, <3>1
      <3>4. PICK names, T : names = {stack[n].name} /\ T = DOMAIN table'
        OBVIOUS
      <3>5. /\ Within(tree, up, DOMAIN tree[up] \ (callers[Len(callers)].todo \cup names), E)
            /\ \A name \in names : tree[up][name].type = "directory" => tree[up][name].directory \in E
        BY <2>13, <3>3, <3>4
      <3>6. callers \in Seq(Call(T)) /\ callers # <<>> /\ entry \in Entry(T)
        BY <2>4, <2>7, <3>4
      <3>7. up = callers[Len(callers)].directory
        BY <3>1
      <3> QED
        BY <3>2, <3>5, <3>6, <3>7, EncodedWithin, ZenonT(60)
    <2> QED
      BY <1>2, <1>8, <2>2, <2>14 DEF RankInv, StackRanked
  <1> QED
    BY <1>9, <1>10

LEMMA NextRank == StackInv /\ PathInv /\ RankInv /\ [Next]_vars => RankInv'
  <1> SUFFICES ASSUME StackInv, PathInv, RankInv, [Next]_vars PROVE RankInv'
    OBVIOUS
  <1>1. CASE Start
    BY <1>1, StartRank
  <1>2. CASE ImportStep
    BY <1>2, NextEntryRank, StorePieceRank, FinishFileRank, FinishDirectoryRank DEF ImportStep
  <1>3. CASE ImportFails
    BY <1>3, AbandonRank DEF ImportFails
  <1>4. CASE ChangeTree
    BY <1>4, ChangeTreeRank
  <1>5. CASE UNCHANGED vars
    BY <1>5 DEF vars, RankInv
  <1> QED
    BY <1>1, <1>2, <1>3, <1>4, <1>5 DEF Next, Finished

LEMMA RankInvHolds == Spec => []RankInv
  BY InitRank, NextRank, StackInvHolds, PathInvHolds, PTL DEF Spec

-----------------------------------------------------------------------------
(***************************************************************************)
(* What the paths of a tree lead to, on the disk and in the blobs: one     *)
(* entry each, and from a directory every name it lists leads to a path.   *)
(***************************************************************************)

LEMMA WalkOn ==
  ASSUME NEW t \in Trees, NEW S, NEW path \in Seq(S), NEW name
  PROVE  Walk(t, Append(path, name)) = AtEnd(WalkBelow(t, Walk(t, path), name))
  <1>1. Len(path) \in Nat
    OBVIOUS
  <1>2. PICK found : IsWalk(found, t, path, Len(path)) /\ Walk(t, path) = AtEnd(found[Len(path)])
    BY <1>1, WalkedPath
  <1>3. Walk(t, Append(path, name)) = AtEnd(WalkBelow(t, found[Len(path)], name))
    BY <1>2, WalkOneMore
  <1>4. \A some : {e \in AtEnd(some) : e.type = "directory"} = {e \in some : e.type = "directory"}
    BY DEF AtEnd
  <1>5. WalkBelow(t, AtEnd(found[Len(path)]), name) = WalkBelow(t, found[Len(path)], name)
    BY <1>4 DEF WalkBelow
  <1> QED
    BY <1>2, <1>3, <1>5

\* From one directory there is one way on.
LEMMA WalkOnFrom ==
  ASSUME NEW t \in Trees, NEW S, NEW path \in Seq(S), NEW name, NEW d, Walk(t, path) = {d}
  PROVE  Walk(t, Append(path, name)) =
           IF d.type = "directory" /\ name \in DOMAIN t[d.directory]
           THEN AtEnd({t[d.directory][name]}) ELSE {}
  <1>1. Walk(t, Append(path, name)) = AtEnd(WalkBelow(t, {d}, name))
    <2>1. Walk(t, Append(path, name)) = AtEnd(WalkBelow(t, Walk(t, path), name))
      BY WalkOn
    <2> QED
      BY <2>1
  <1>2. CASE d.type = "directory" /\ name \in DOMAIN t[d.directory]
    <2>1. WalkBelow(t, {d}, name) = {t[d.directory][name]}
      BY <1>2 DEF WalkBelow
    <2> QED
      BY <1>1, <1>2, <2>1
  <1>3. CASE ~ (d.type = "directory" /\ name \in DOMAIN t[d.directory])
    <2>1. WalkBelow(t, {d}, name) = {}
      BY <1>3 DEF WalkBelow
    <2> QED
      BY <1>1, <1>3, <2>1 DEF AtEnd
  <1> QED
    BY <1>2, <1>3

LEMMA WalkNowhere ==
  ASSUME NEW t \in Trees
  PROVE  Walk(t, <<>>) = {RootOnDisk}
  <1>1. Len(<<>>) = 0
    OBVIOUS
  <1>2. PICK found : IsWalk(found, t, <<>>, Len(<<>>)) /\ Walk(t, <<>>) = AtEnd(found[Len(<<>>)])
    BY <1>1, WalkedPath
  <1>3. found[0] = {RootOnDisk}
    BY <1>1, <1>2 DEF IsWalk
  <1>4. AtEnd({RootOnDisk}) = {RootOnDisk}
    BY DEF AtEnd, RootOnDisk
  <1> QED
    BY <1>1, <1>2, <1>3, <1>4

\* Every path is one name longer than another, and every name that leads
\* somewhere makes a path longer, up to the bound.
LEMMA PathsStep ==
  ASSUME NEW t \in Trees, NEW n \in Nat, n = Cardinality(DOMAIN t) + MaxLinks
  PROVE  /\ <<>> \in PathsOf(t)
         /\ \A path \in PathsOf(t) :
              path = <<>> \/ \E p \in PathsOf(t), name \in NamesOf(t) : path = Append(p, name)
         /\ \A path \in PathsOf(t), name \in NamesOf(t) :
              Len(path) < n /\ Walk(t, Append(path, name)) # {} => Append(path, name) \in PathsOf(t)
  <1> DEFINE chosen == CHOOSE paths : ArePaths(paths, t, Cardinality(DOMAIN t) + MaxLinks)
             Names == NamesOf(t)
  <1>1. PathsOf(t) = chosen[n]
    BY DEF PathsOf, ArePaths, MorePaths, NamesOf
  <1>2. ArePaths(chosen, t, n)
    BY PathsExist
  <1> HIDE DEF chosen
  <1>3. PICK paths : paths = chosen
    OBVIOUS
  <1>4. \A i \in 0 .. n : paths[i] = IF i = 0 THEN {<<>>} ELSE MorePaths(t, paths[i - 1])
    BY <1>2, <1>3 DEF ArePaths
  <1> DEFINE Rooted(some) ==
               /\ <<>> \in some /\ some \subseteq Seq(Names)
               /\ \A path \in some :
                    path = <<>> \/ \E p \in some, name \in Names : path = Append(p, name)
             Full(some, i) ==
               \A path \in some, name \in Names :
                 Len(path) < i /\ Walk(t, Append(path, name)) # {} => Append(path, name) \in some
  <1>5. Rooted({<<>>}) /\ Full({<<>>}, 0)
    BY SMT
  <1>6. ASSUME NEW some, Rooted(some), NEW i \in Nat, Full(some, i)
        PROVE  Rooted(MorePaths(t, some)) /\ Full(MorePaths(t, some), i + 1)
    <2>1. PICK more : more = MorePaths(t, some)
      OBVIOUS
    <2>2. /\ some \subseteq more
          /\ \A path \in more : path \in some \/ \E p \in some, name \in Names : path = Append(p, name)
          /\ \A p \in some, name \in Names : Walk(t, Append(p, name)) # {} => Append(p, name) \in more
          /\ \A path \in more : path \in some \/ Walk(t, path) # {}
      BY <2>1 DEF MorePaths
    <2> HIDE DEF Names
    <2>3. more \subseteq Seq(Names)
      <3>1. \A p \in some, name \in Names : Append(p, name) \in Seq(Names)
        BY <1>6
      <3> QED
        BY <1>6, <2>2, <3>1
    <2>4. Rooted(more)
      BY <1>6, <2>2, <2>3
    <2>5. ASSUME NEW path \in more, NEW name \in Names, Len(path) < i + 1,
                 Walk(t, Append(path, name)) # {}
          PROVE  Append(path, name) \in more
      <3>1. CASE path \in some
        BY <2>2, <2>5, <3>1
      <3>2. CASE path \notin some
        <4>1. PICK p \in some, last \in Names : path = Append(p, last)
          BY <2>2, <3>2
        <4>2. p \in Seq(Names)
          BY <1>6
        <4>3. Len(p) \in Nat /\ Len(path) = Len(p) + 1
          BY <4>1, <4>2
        <4>4. Len(p) < i
          BY <2>5, <4>3
        <4>5. Walk(t, path) # {}
          BY <2>2, <3>2
        <4>6. path \in some
          BY <1>6, <4>1, <4>4, <4>5
        <4> QED
          BY <3>2, <4>6
      <3> QED
        BY <3>1, <3>2
    <2> QED
      BY <2>1, <2>4, <2>5
  <1> HIDE DEF Rooted, Full, Names
  <1> DEFINE Bad == {i \in 0 .. n : ~ (Rooted(paths[i]) /\ Full(paths[i], i))}
  <1>7. Bad = {}
    <2> SUFFICES ASSUME Bad # {} PROVE FALSE
      OBVIOUS
    <2>1. Bad \subseteq Nat
      OBVIOUS
    <2>2. PICK i \in Bad : \A j \in Bad : i <= j
      <3> HIDE DEF Bad
      <3> QED
        BY <2>1, LeastNumber
    <2>3. i \in 0 .. n /\ ~ (Rooted(paths[i]) /\ Full(paths[i], i)) /\ i # 0
      BY <1>4, <1>5
    <2>4. i - 1 \in 0 .. n /\ i - 1 \in Nat /\ ~ (i <= i - 1) /\ (i - 1) + 1 = i
      BY <2>3
    <2>5. Rooted(paths[i - 1]) /\ Full(paths[i - 1], i - 1)
      BY <2>2, <2>4
    <2>6. paths[i] = MorePaths(t, paths[i - 1])
      BY <1>4, <2>3
    <2>7. Rooted(paths[i]) /\ Full(paths[i], (i - 1) + 1)
      BY <1>6, <2>4, <2>5, <2>6
    <2> QED
      BY <2>3, <2>4, <2>7
  <1>8. Rooted(PathsOf(t)) /\ Full(PathsOf(t), n)
    BY <1>1, <1>3, <1>7
  <1> QED
    BY <1>8 DEF Rooted, Full, Names

\* A path ends at one entry on the disk and at one in the blobs, that stands
\* for it.
EndsAt(rows, root, t, path, e, found) ==
  /\ Walk(t, path) = {e}
  /\ ResolvePath(rows, root, path) = {found}
  /\ Stands(rows, Same(rows, t), found, e)
  /\ e.type \in {"regular_file", "directory"}
  /\ e.type = "regular_file" => e.content \in Seq(Byte)
  /\ e.type = "directory" => e.directory \in DOMAIN t

LEMMA EmptyPathEnds ==
  ASSUME NEW rows, NEW root, NEW t \in Trees, <<root, RootDir>> \in Same(rows, t)
  PROVE  EndsAt(rows, root, t, <<>>, RootOnDisk, RootEntry(root))
  <1>1. Len(<<>>) = 0
    OBVIOUS
  <1>2. ResolvePath(rows, root, <<>>) = {RootEntry(root)}
    <2>1. PICK found : /\ Follows(found, rows, root, <<>>, Len(<<>>))
                       /\ ResolvePath(rows, root, <<>>) = found[Len(<<>>)]
      BY <1>1, ResolvedPath
    <2> QED
      BY <1>1, <2>1 DEF Follows
  <1>3. Stands(rows, Same(rows, t), RootEntry(root), RootOnDisk)
    BY DEF Stands, RootEntry, RootOnDisk
  <1>4. RootOnDisk.type = "directory" /\ RootOnDisk.directory \in DOMAIN t
    BY TreesAssumption DEF RootOnDisk
  <1> QED
    BY <1>2, <1>3, <1>4, WalkNowhere DEF EndsAt

LEMMA PathEndsBelow ==
  ASSUME NEW rows, NEW root, NEW t \in Trees, NEW S, NEW path \in Seq(S), NEW d, NEW above,
         EndsAt(rows, root, t, path, d, above), d.type = "directory",
         NEW name \in Present(t, d.directory)
  PROVE  \E found : /\ Below(rows, above, name) = {found}
                    /\ EndsAt(rows, root, t, Append(path, name), t[d.directory][name], found)
  <1>1. PICK e : e = t[d.directory][name]
    OBVIOUS
  <1>2. name \in DOMAIN t[d.directory] /\ e.type # "other" /\ d.directory \in DOMAIN t
    BY <1>1 DEF Present, EndsAt
  <1>3. /\ e.type \in {"regular_file", "directory", "other"}
        /\ e.type = "regular_file" => e.content \in Seq(Byte)
        /\ e.type = "directory" => e.directory \in DOMAIN t
    BY <1>1, <1>2, TreesAssumption
  <1>4. above.type = "directory" /\ Stands(rows, Same(rows, t), above, d)
    BY DEF EndsAt, Stands
  <1>5. PICK found : Below(rows, above, name) = {found} /\ Stands(rows, Same(rows, t), found, e)
    BY <1>1, <1>2, <1>4, FoundInListed
  <1>6. ResolvePath(rows, root, Append(path, name)) = {found}
    <2>1. ResolvePath(rows, root, Append(path, name)) = FoundBelow(rows, {above}, name)
      <3>1. ResolvePath(rows, root, Append(path, name)) = FoundBelow(rows, ResolvePath(rows, root, path), name)
        BY ResolvedOneMore
      <3> QED
        BY <3>1 DEF EndsAt
    <2>2. FoundBelow(rows, {above}, name) = Below(rows, above, name)
      BY DEF FoundBelow
    <2> QED
      BY <1>5, <2>1, <2>2
  <1>7. Walk(t, Append(path, name)) = {e}
    <2>1. Walk(t, path) = {d}
      BY DEF EndsAt
    <2>2. Walk(t, Append(path, name)) = AtEnd({e})
      BY <1>1, <1>2, <2>1, WalkOnFrom
    <2>3. AtEnd({e}) = {e}
      BY <1>2 DEF AtEnd
    <2> QED
      BY <2>2, <2>3
  <1> QED
    BY <1>1, <1>2, <1>3, <1>5, <1>6, <1>7 DEF EndsAt

\* So do all of the paths of a tree.
LEMMA PathEnds ==
  ASSUME NEW rows, NEW root, NEW t \in Trees, <<root, RootDir>> \in Same(rows, t),
         NEW path \in PathsOf(t)
  PROVE  path \in Seq(NamesOf(t)) /\ \E e, found : EndsAt(rows, root, t, path, e, found)
  <1>1. PICK n \in Nat : n = Cardinality(DOMAIN t) + MaxLinks
    BY TreesAssumption, BoundsAssumption, FS_CardinalityType
  <1> DEFINE Ends(p) == \E e, found : EndsAt(rows, root, t, p, e, found)
             Bad == {i \in Nat : \E p \in PathsOf(t) : Len(p) = i /\ ~ Ends(p)}
  <1>2. Bad = {}
    <2> SUFFICES ASSUME Bad # {} PROVE FALSE
      OBVIOUS
    <2>1. Bad \subseteq Nat
      OBVIOUS
    <2>2. PICK i \in Bad : \A j \in Bad : i <= j
      <3> HIDE DEF Bad
      <3> QED
        BY <2>1, LeastNumber
    <2>3. PICK p \in PathsOf(t) : Len(p) = i /\ ~ Ends(p)
      BY <2>2
    <2>4. p # <<>>
      BY <2>3, EmptyPathEnds
    <2>5. PICK q \in PathsOf(t), name \in NamesOf(t) : p = Append(q, name)
      BY <1>1, <2>4, PathsStep
    <2>6. q \in Seq(NamesOf(t)) /\ Walk(t, p) # {}
      BY PathsLead
    <2>7. Len(q) \in Nat /\ Len(q) + 1 = i
      BY <2>3, <2>5, <2>6
    <2>8. Len(q) \notin Bad
      BY <2>2, <2>7
    <2>9. PICK d, above : EndsAt(rows, root, t, q, d, above)
      BY <2>7, <2>8
    <2>10. d.type = "directory" /\ name \in DOMAIN t[d.directory] /\ t[d.directory][name].type # "other"
      <3>1. Walk(t, q) = {d}
        BY <2>9 DEF EndsAt
      <3>2. Walk(t, p) = IF d.type = "directory" /\ name \in DOMAIN t[d.directory]
                         THEN AtEnd({t[d.directory][name]}) ELSE {}
        BY <2>5, <2>6, <3>1, WalkOnFrom
      <3> QED
        BY <2>6, <3>2 DEF AtEnd
    <2>11. name \in Present(t, d.directory)
      BY <2>10 DEF Present
    <2>12. Ends(p)
      BY <2>5, <2>6, <2>9, <2>10, <2>11, PathEndsBelow
    <2> QED
      BY <2>3, <2>12
  <1>3. path \in Seq(NamesOf(t))
    BY PathsLead
  <1>4. Len(path) \in Nat
    BY <1>3
  <1>5. Ends(path)
    BY <1>2, <1>4
  <1> QED
    BY <1>3, <1>5

\* A path to a directory is no longer than the ranks go down.
LEMMA PathIsShort ==
  ASSUME NEW rows, NEW root, NEW t \in Trees, <<root, RootDir>> \in Same(rows, t),
         NEW D, NEW rank, Ranked(t, D, rank), RootDir \in D,
         NEW path \in PathsOf(t), NEW d, Walk(t, path) = {d}, d.type = "directory"
  PROVE  Len(path) < Cardinality(DOMAIN t)
  <1>1. PICK n \in Nat : n = Cardinality(DOMAIN t) + MaxLinks
    BY TreesAssumption, BoundsAssumption, FS_CardinalityType
  <1> DEFINE Short(p) ==
               \A e : Walk(t, p) = {e} /\ e.type = "directory" =>
                 e.directory \in D /\ Len(p) + rank[e.directory] <= rank[RootDir]
             Bad == {i \in Nat : \E p \in PathsOf(t) : Len(p) = i /\ ~ Short(p)}
  <1>2. \A e \in D : rank[e] \in Nat /\ rank[e] < Cardinality(D)
    BY DEF Ranked
  <1>3. Bad = {}
    <2> SUFFICES ASSUME Bad # {} PROVE FALSE
      OBVIOUS
    <2>1. Bad \subseteq Nat
      OBVIOUS
    <2>2. PICK i \in Bad : \A j \in Bad : i <= j
      <3> HIDE DEF Bad
      <3> QED
        BY <2>1, LeastNumber
    <2>3. PICK p \in PathsOf(t) : Len(p) = i /\ ~ Short(p)
      BY <2>2
    <2>4. PICK e : /\ Walk(t, p) = {e} /\ e.type = "directory"
                   /\ ~ (e.directory \in D /\ Len(p) + rank[e.directory] <= rank[RootDir])
      BY <2>3
    <2>5. p # <<>>
      <3> SUFFICES ASSUME p = <<>> PROVE FALSE
        OBVIOUS
      <3>1. Len(p) = 0 /\ e = RootOnDisk
        BY <2>4, WalkNowhere
      <3>2. e.directory = RootDir
        BY <3>1 DEF RootOnDisk
      <3>3. rank[RootDir] \in Nat
        BY <1>2
      <3> QED
        BY <2>4, <3>1, <3>2, <3>3
    <2>6. PICK q \in PathsOf(t), name \in NamesOf(t) : p = Append(q, name)
      BY <1>1, <2>5, PathsStep
    <2>7. q \in Seq(NamesOf(t)) /\ Walk(t, q) # {}
      BY PathsLead
    <2>8. Len(q) \in Nat /\ Len(q) + 1 = i /\ Len(p) = Len(q) + 1
      BY <2>3, <2>6, <2>7
    <2>9. Len(q) \notin Bad
      BY <2>2, <2>8
    <2>10. PICK c, above : EndsAt(rows, root, t, q, c, above)
      BY PathEnds
    <2>11. /\ Walk(t, q) = {c} /\ c.type = "directory"
           /\ name \in DOMAIN t[c.directory] /\ e = t[c.directory][name]
      <3>1. Walk(t, q) = {c}
        BY <2>10 DEF EndsAt
      <3>2. Walk(t, p) = IF c.type = "directory" /\ name \in DOMAIN t[c.directory]
                         THEN AtEnd({t[c.directory][name]}) ELSE {}
        BY <2>6, <2>7, <3>1, WalkOnFrom
      <3> QED
        BY <2>4, <3>1, <3>2 DEF AtEnd
    <2>12. Short(q)
      BY <2>8, <2>9
    <2>13. c.directory \in D /\ Len(q) + rank[c.directory] <= rank[RootDir]
      BY <2>11, <2>12
    <2>14. e.directory \in D /\ rank[e.directory] < rank[c.directory]
      BY <2>4, <2>11, <2>13 DEF Ranked, Within
    <2>15. rank[c.directory] \in Nat /\ rank[e.directory] \in Nat /\ rank[RootDir] \in Nat
      BY <1>2, <2>13, <2>14
    <2>16. Len(p) + rank[e.directory] <= rank[RootDir]
      BY <2>8, <2>13, <2>14, <2>15
    <2> QED
      BY <2>4, <2>14, <2>16
  <1>4. path \in Seq(NamesOf(t))
    BY PathsLead
  <1>5. Len(path) \in Nat
    BY <1>4
  <1>6. Short(path)
    BY <1>3, <1>5
  <1>7. d.directory \in D /\ Len(path) + rank[d.directory] <= rank[RootDir]
    BY <1>6
  <1>8. IsFiniteSet(DOMAIN t) /\ D \subseteq DOMAIN t
    BY TreesAssumption DEF Ranked
  <1>9. PICK m \in Nat, k \in Nat : m = Cardinality(D) /\ k = Cardinality(DOMAIN t) /\ m <= k
    <2>1. IsFiniteSet(D) /\ Cardinality(D) <= Cardinality(DOMAIN t)
      BY <1>8, FS_Subset
    <2> QED
      BY <1>8, <2>1, FS_CardinalityType
  <1>10. rank[d.directory] \in Nat /\ rank[RootDir] \in Nat /\ rank[RootDir] < m
    BY <1>2, <1>7, <1>9
  <1> QED
    BY <1>5, <1>7, <1>9, <1>10

\* The entry that is found by its name.
LEMMA NamedEntry ==
  ASSUME NEW S, NEW content \in Seq(S), NEW i \in DOMAIN content,
         \A j, k \in DOMAIN content : content[j].name = content[k].name => j = k
  PROVE  FindEntry(content, content[i].name) = {content[i]}
  <1>1. i \in Nat
    OBVIOUS
  <1>2. {j \in DOMAIN content : content[j].name = content[i].name} = {i} /\ i <= i
    BY <1>1
  <1> QED
    BY <1>2 DEF FindEntry

\* From a directory every entry of its blob leads to another path.
LEMMA DirectoryEnds ==
  ASSUME NEW rows, NEW root, NEW t \in Trees, <<root, RootDir>> \in Same(rows, t),
         NEW D, NEW rank, Ranked(t, D, rank), RootDir \in D,
         NEW path \in PathsOf(t), NEW d, NEW above,
         EndsAt(rows, root, t, path, d, above), d.type = "directory",
         NEW blob, blob = rows[above.hash_code]
  PROVE  /\ above.hash_code \in DOMAIN rows
         /\ Lists(rows, t, Same(rows, t), blob, d.directory, Present(t, d.directory))
         /\ \A i \in DOMAIN blob :
              /\ Append(path, blob[i].name) \in PathsOf(t)
              /\ EndsAt(rows, root, t, Append(path, blob[i].name), t[d.directory][blob[i].name],
                        FoundEntry(blob[i]))
  <1>1. PICK h, c : h = above.hash_code /\ c = d.directory
    OBVIOUS
  <1>2. <<h, c>> \in Same(rows, t) /\ Walk(t, path) = {d} /\ above.type = "directory"
    BY <1>1 DEF EndsAt, Stands
  <1>3. h \in DOMAIN rows /\ c \in DOMAIN t
    BY <1>2 DEF Same
  <1>4. Lists(rows, t, Same(rows, t), blob, c, Present(t, c))
    BY <1>1, <1>2, <1>3, SameIsConsistent DEF Consistent
  <1>5. PICK k \in Nat, n \in Nat : k = Cardinality(DOMAIN t) /\ n = k + MaxLinks /\ k <= n
    <2>1. Cardinality(DOMAIN t) \in Nat /\ MaxLinks \in Nat
      BY TreesAssumption, BoundsAssumption, FS_CardinalityType
    <2> QED
      BY <2>1
  <1>6. path \in Seq(NamesOf(t)) /\ Len(path) \in Nat /\ Len(path) < k
    <2>1. path \in Seq(NamesOf(t))
      BY PathsLead
    <2>2. Len(path) < Cardinality(DOMAIN t)
      BY <1>2, PathIsShort
    <2> QED
      BY <1>5, <2>1, <2>2
  <1>7. ASSUME NEW i \in DOMAIN blob
        PROVE  /\ Append(path, blob[i].name) \in PathsOf(t)
               /\ EndsAt(rows, root, t, Append(path, blob[i].name), t[c][blob[i].name],
                         FoundEntry(blob[i]))
    <2>1. PICK name : name = blob[i].name
      OBVIOUS
    <2>2. name \in Present(t, c)
      BY <1>4, <2>1 DEF Lists
    <2>3. name \in NamesOf(t)
      BY <1>3, <2>2 DEF Present, NamesOf
    <2>4. PICK found : /\ Below(rows, above, name) = {found}
                       /\ EndsAt(rows, root, t, Append(path, name), t[c][name], found)
      BY <1>1, <1>6, <2>2, PathEndsBelow
    <2>5. FindEntry(blob, name) = {blob[i]}
      <3>1. /\ blob \in Seq(Entry(DOMAIN rows))
            /\ \A i1, i2 \in DOMAIN blob : blob[i1].name = blob[i2].name => i1 = i2
        BY <1>4 DEF Lists
      <3>2. FindEntry(blob, blob[i].name) = {blob[i]}
        BY <3>1, NamedEntry
      <3> QED
        BY <2>1, <3>2
    <2>6. Below(rows, above, name) = {FoundEntry(blob[i])}
      BY <1>1, <1>2, <1>3, <2>5 DEF Below, Stored
    <2>7. found = FoundEntry(blob[i])
      BY <2>4, <2>6
    <2>8. Walk(t, Append(path, name)) # {}
      BY <2>4 DEF EndsAt
    <2>9. Len(path) < n
      BY <1>5, <1>6
    <2>10. Append(path, name) \in PathsOf(t)
      BY <1>5, <2>3, <2>8, <2>9, PathsStep
    <2> QED
      BY <2>1, <2>4, <2>7, <2>10
  <1> QED
    BY <1>1, <1>3, <1>4, <1>7

\* And every other path is found that way.
IsListed(rows, root, t, path) ==
  \E up \in PathsOf(t) : \E d, above :
    /\ EndsAt(rows, root, t, up, d, above) /\ d.type = "directory"
    /\ \E i \in DOMAIN rows[above.hash_code] : path = Append(up, rows[above.hash_code][i].name)

LEMMA PathIsListed ==
  ASSUME NEW rows, NEW root, NEW t \in Trees, <<root, RootDir>> \in Same(rows, t),
         NEW D, NEW rank, Ranked(t, D, rank), RootDir \in D,
         NEW path \in PathsOf(t), path # <<>>
  PROVE  IsListed(rows, root, t, path)
  <1>1. PICK n \in Nat : n = Cardinality(DOMAIN t) + MaxLinks
    BY TreesAssumption, BoundsAssumption, FS_CardinalityType
  <1>2. PICK up \in PathsOf(t), name \in NamesOf(t) : path = Append(up, name)
    BY <1>1, PathsStep
  <1>3. up \in Seq(NamesOf(t)) /\ Walk(t, path) # {}
    BY PathsLead
  <1>4. PICK d, above : EndsAt(rows, root, t, up, d, above)
    BY PathEnds
  <1>5. d.type = "directory" /\ name \in Present(t, d.directory)
    <2>1. Walk(t, up) = {d}
      BY <1>4 DEF EndsAt
    <2>2. Walk(t, path) = IF d.type = "directory" /\ name \in DOMAIN t[d.directory]
                          THEN AtEnd({t[d.directory][name]}) ELSE {}
      BY <1>2, <1>3, <2>1, WalkOnFrom
    <2> QED
      BY <1>3, <2>2 DEF AtEnd, Present
  <1>6. PICK blob : blob = rows[above.hash_code]
    OBVIOUS
  <1>7. Lists(rows, t, Same(rows, t), blob, d.directory, Present(t, d.directory))
    BY <1>4, <1>5, <1>6, DirectoryEnds
  <1>8. PICK i \in DOMAIN blob : blob[i].name = name
    BY <1>5, <1>7 DEF Lists
  <1> QED
    BY <1>2, <1>4, <1>5, <1>6, <1>8 DEF IsListed

\* The blobs are those of the tree (see DogboxLemmas).
LEMMA EntryIsLaid ==
  ASSUME NEW rows, NEW root, NEW t, NEW path, NEW e,
         NEW hash_codes, NEW entry \in Entry(hash_codes), Matches(rows, Same(rows, t), entry, e)
  PROVE  EntryLaid(entry, e, FoundEntry(entry))
  <1>1. entry = [kind |-> "entry", type |-> entry.type, name |-> entry.name,
                 hash_code |-> entry.hash_code, size |-> entry.size]
    BY DEF Entry
  <1>2. FoundEntry(entry).hash_code = entry.hash_code
    BY DEF FoundEntry
  <1>3. ASSUME e.type = "regular_file"
        PROVE  /\ entry.type = "regular_file" /\ entry.size = Len(e.content)
               /\ entry.hash_code = Sha256(FileIndex(e.content))
    BY <1>3 DEF Matches
  <1>4. ASSUME e.type = "directory"
        PROVE  entry.type = "directory" /\ entry.size = 0
    BY <1>4 DEF Matches
  <1> QED
    BY <1>1, <1>2, <1>3, <1>4 DEF EntryLaid, DirectoryEntry

LEMMA RootIsLaid ==
  ASSUME NEW rows, NEW root, NEW t \in Trees, <<root, RootDir>> \in Same(rows, t),
         NEW D, NEW rank, Ranked(t, D, rank), RootDir \in D
  PROVE  \E disk, blobs :
           /\ Laid(rows, root, PathsOf(t), disk, blobs)
           /\ \A path \in PathsOf(t) :
                Walk(t, path) = {disk[path]} /\ ResolvePath(rows, root, path) = {blobs[path]}
  <1>0. \A path \in PathsOf(t) : path # <<>> => IsListed(rows, root, t, path)
    BY PathIsListed
  <1> DEFINE paths == PathsOf(t)
             Ends(p, e, found) == EndsAt(rows, root, t, p, e, found)
  <1>1. \A p \in paths : p \in Seq(NamesOf(t)) /\ \E e, found : Ends(p, e, found)
    BY PathEnds
  <1>2. \A p, e, f, found, other : Ends(p, e, found) /\ Ends(p, f, other) => e = f /\ found = other
    <2> SUFFICES ASSUME NEW p, NEW e, NEW f, NEW found, NEW other,
                        Ends(p, e, found), Ends(p, f, other)
                 PROVE  e = f /\ found = other
      OBVIOUS
    <2>1. Walk(t, p) = {e} /\ Walk(t, p) = {f}
      BY DEF EndsAt
    <2>2. ResolvePath(rows, root, p) = {found} /\ ResolvePath(rows, root, p) = {other}
      BY DEF EndsAt
    <2> QED
      BY <2>1, <2>2
  <1>3. PICK disk, blobs : \A p \in paths : Ends(p, disk[p], blobs[p])
    <2> DEFINE both == [p \in paths |-> CHOOSE x : \E e, found : x = <<e, found>> /\ Ends(p, e, found)]
    <2>1. ASSUME NEW p \in paths PROVE Ends(p, both[p][1], both[p][2])
      <3>1. PICK e, found : Ends(p, e, found)
        BY <1>1
      <3>2. \E x : \E g, other : x = <<g, other>> /\ Ends(p, g, other)
        BY <3>1
      <3>3. PICK g, other : both[p] = <<g, other>> /\ Ends(p, g, other)
        <4> HIDE DEF Ends
        <4> QED
          BY <3>2
      <3> QED
        BY <3>3
    <2> HIDE DEF both
    <2>2. PICK disk : disk = [p \in paths |-> both[p][1]]
      OBVIOUS
    <2>3. PICK blobs : blobs = [p \in paths |-> both[p][2]]
      OBVIOUS
    <2>4. \A p \in paths : disk[p] = both[p][1] /\ blobs[p] = both[p][2]
      BY <2>2, <2>3
    <2> QED
      BY <2>1, <2>4
  <1>4. <<>> \in paths /\ disk[<<>>].type = "directory" /\ blobs[<<>>].hash_code = root
    <2>1. <<>> \in paths
      <3>1. PICK n \in Nat : n = Cardinality(DOMAIN t) + MaxLinks
        BY TreesAssumption, BoundsAssumption, FS_CardinalityType
      <3> QED
        BY <3>1, PathsStep
    <2>2. Ends(<<>>, RootOnDisk, RootEntry(root))
      BY EmptyPathEnds
    <2>3. disk[<<>>] = RootOnDisk /\ blobs[<<>>] = RootEntry(root)
      BY <1>2, <1>3, <2>1, <2>2
    <2> QED
      BY <2>1, <2>3 DEF RootOnDisk, RootEntry
  <1>5. ASSUME NEW path \in paths
        PROVE  /\ Walk(t, path) = {disk[path]} /\ ResolvePath(rows, root, path) = {blobs[path]}
               /\ PathLaid(rows, paths, path, disk, blobs)
    <2>1. Ends(path, disk[path], blobs[path])
      BY <1>3
    <2>2. /\ Walk(t, path) = {disk[path]} /\ ResolvePath(rows, root, path) = {blobs[path]}
          /\ disk[path].type \in {"regular_file", "directory"}
          /\ disk[path].type = "regular_file" => disk[path].content \in Seq(Byte)
          /\ Stands(rows, Same(rows, t), blobs[path], disk[path])
      BY <2>1 DEF EndsAt
    <2>3. disk[path].type = "regular_file" => FileStored(rows, disk[path].content)
      BY <2>2 DEF Stands
    <2>4. ASSUME disk[path].type = "directory", NEW blob, blob = rows[blobs[path].hash_code]
          PROVE  blobs[path].hash_code \in DOMAIN rows /\ DirectoryLaid(paths, path, blob, disk, blobs)
      <3>1. PICK d, above : d = disk[path] /\ above = blobs[path]
        OBVIOUS
      <3>2. EndsAt(rows, root, t, path, d, above) /\ d.type = "directory" /\ blob = rows[above.hash_code]
        BY <2>1, <2>4, <3>1
      <3>3. /\ above.hash_code \in DOMAIN rows
            /\ Lists(rows, t, Same(rows, t), blob, d.directory, Present(t, d.directory))
            /\ \A i \in DOMAIN blob :
                 /\ Append(path, blob[i].name) \in PathsOf(t)
                 /\ EndsAt(rows, root, t, Append(path, blob[i].name), t[d.directory][blob[i].name],
                           FoundEntry(blob[i]))
        BY <3>2, DirectoryEnds
      <3>4. /\ blob \in Seq(Entry(DOMAIN rows))
            /\ \A i, j \in DOMAIN blob : blob[i].name = blob[j].name => i = j
            /\ \A i \in DOMAIN blob :
                 Matches(rows, Same(rows, t), blob[i], t[d.directory][blob[i].name])
        BY <3>3 DEF Lists
      <3>5. ASSUME NEW i \in DOMAIN blob
            PROVE  /\ Append(path, blob[i].name) \in paths
                   /\ EntryLaid(blob[i], disk[Append(path, blob[i].name)],
                                blobs[Append(path, blob[i].name)])
        <4>1. PICK below, e, found : /\ below = Append(path, blob[i].name)
                                     /\ e = t[d.directory][blob[i].name] /\ found = FoundEntry(blob[i])
          OBVIOUS
        <4>2. below \in paths /\ Ends(below, e, found)
          BY <3>3, <4>1
        <4>3. disk[below] = e /\ blobs[below] = found
          BY <1>2, <1>3, <4>2
        <4>4. blob[i] \in Entry(DOMAIN rows) /\ Matches(rows, Same(rows, t), blob[i], e)
          BY <3>4, <4>1
        <4>5. EntryLaid(blob[i], e, FoundEntry(blob[i]))
          BY <4>4, EntryIsLaid
        <4> QED
          BY <4>1, <4>2, <4>3, <4>5
      <3> HIDE DEF paths
      <3> QED
        BY <3>1, <3>3, <3>4, <3>5 DEF DirectoryLaid
    <2>5. ASSUME path # <<>>
          PROVE  \E up \in paths :
                   /\ disk[up].type = "directory"
                   /\ \E i \in DOMAIN rows[blobs[up].hash_code] :
                        path = Append(up, rows[blobs[up].hash_code][i].name)
      <3>1. PICK up \in PathsOf(t) : \E d, above :
               /\ EndsAt(rows, root, t, up, d, above) /\ d.type = "directory"
               /\ \E i \in DOMAIN rows[above.hash_code] :
                    path = Append(up, rows[above.hash_code][i].name)
        BY <1>0, <2>5 DEF IsListed
      <3>2. PICK d, above :
               /\ EndsAt(rows, root, t, up, d, above) /\ d.type = "directory"
               /\ \E i \in DOMAIN rows[above.hash_code] :
                    path = Append(up, rows[above.hash_code][i].name)
        BY <3>1
      <3>3. disk[up] = d /\ blobs[up] = above
        BY <1>2, <1>3, <3>2
      <3> QED
        BY <3>2, <3>3
    <2> HIDE DEF paths
    <2> QED
      BY <2>2, <2>3, <2>4, <2>5 DEF PathLaid
  <1>6. \A path \in paths : \E S : path \in Seq(S)
    BY <1>1
  <1> HIDE DEF paths
  <1>7. Laid(rows, root, paths, disk, blobs)
    BY <1>4, <1>5, <1>6 DEF Laid
  <1> QED
    BY <1>5, <1>7 DEF paths

\* So are those of every root that was returned.
LEMMA RootsAreLaid ==
  ASSUME StackInv, PathInv, RankInv, NEW r \in roots
  PROVE  \E disk, blobs :
           /\ Laid(table, r.root, PathsOf(r.tree), disk, blobs)
           /\ \A path \in PathsOf(r.tree) :
                /\ Walk(r.tree, path) = {disk[path]}
                /\ ResolvePath(table, r.root, path) = {blobs[path]}
  <1>1. r.tree \in Trees
    BY DEF StackInv
  <1>2. <<r.root, RootDir>> \in Same(table, r.tree)
    BY DEF PathInv, RootsOK
  <1>3. \E D, rank : Ranked(r.tree, D, rank) /\ RootDir \in D
    BY DEF RankInv, RootsRanked
  <1> QED
    BY <1>1, <1>2, <1>3, RootIsLaid
=============================================================================
