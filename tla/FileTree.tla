------------------------------ MODULE FileTree ------------------------------
(***************************************************************************)
(* What the file system promises: a tree of directories and files, open    *)
(* files with an offset, and calls that find what their path says or do    *)
(* nothing.  A directory is the sequence of its entries as they were made, *)
(* a file the sequence of its bytes.  There are no blocks, inodes or       *)
(* caches: where those run out, a call may fail, which changes nothing,    *)
(* and a write may stop early.                                             *)
(***************************************************************************)
EXTENDS Integers, Sequences
LOCAL INSTANCE FiniteSetsExt
LOCAL INSTANCE SequencesExt

CONSTANTS Nodes, Root, Files, Clip, Opens, Mkdirs, Chdirs, Data, ReadSizes, SYSERR

VARIABLES tree,     \* [subset of Nodes -> a directory or a file]
          handle,   \* [Files -> an open file, or NoHandle]
          here,     \* the current directory
          got       \* the answer of the call, if it was a read
vars == <<tree, handle, here, got>>

Nothing == 0
NoHandle == [node |-> Nothing, off |-> 0, append |-> FALSE, readable |-> FALSE, writable |-> FALSE]
Byte(n) == [n |-> n, name |-> ""]
Entry(n, name) == [n |-> n, name |-> name]
Dir(entries) == [dir |-> TRUE, data |-> entries]
File(data) == [dir |-> FALSE, data |-> data]

(* Operators on a tree T.                                                    *)
Names(path) == SelectSeq(path, LAMBDA e : e # "/")

Child(T, at, name) ==
    LET hits == IF at = Nothing \/ ~T[at].dir THEN {}
                ELSE {e \in ToSet(T[at].data) : e.name = Clip[name]}
    IN  IF hits = {} THEN Nothing ELSE (CHOOSE e \in hits : TRUE).n

Walk(T, path, names) ==
    FoldLeft(LAMBDA at, name : Child(T, at, name), IF Head(path) = "/" THEN Root ELSE here, names)

Find(T, path) == IF path = <<>> THEN Nothing ELSE Walk(T, path, Names(path))

\* T with a new node n in the directory d.
Grown(T, d, name, n, node) ==
    [x \in DOMAIN T \cup {n} |->
        CASE x = n -> node
          [] x = d -> Dir(Append(T[d].data, Entry(n, Clip[name])))
          [] OTHER -> T[x]]

\* The directory a path puts a node in: where all but its last name leads.
Parent(T, path) == Walk(T, path, Front(Names(path)))
NewIn(T, d, name) == d # Nothing /\ T[d].dir /\ Child(T, d, name) = Nothing

\* The bytes after a write of data at offset at: the gap below it reads as zeros.
Overlaid(old, at, data) ==
    [k \in 1..Max({Len(old), at + Len(data)}) |->
        IF k \in at + 1..at + Len(data) THEN data[k - at]
        ELSE IF k <= Len(old) THEN old[k] ELSE Byte(0)]
-----------------------------------------------------------------------------
(* The calls, on the tree T.                                                 *)
Writes(flags) == flags \cap {"O_WRONLY", "O_RDWR"} # {}
Refuses(dir, flags) ==
    (dir /\ Writes(flags)) \/ ("O_TRUNC" \in flags /\ (dir \/ ~Writes(flags)))
Handle(n, dir, flags) ==
    [node |-> n, off |-> 0, append |-> "O_APPEND" \in flags /\ ~dir,
     readable |-> "O_WRONLY" \notin flags, writable |-> Writes(flags)]
Free == {f \in Files : handle[f] = NoHandle}

OpenOld(T, path, flags) ==
    \E n \in {Find(T, path)} :
        /\ n # Nothing
        /\ ~Refuses(T[n].dir, flags) /\ ("O_CREATE" \in flags => ~T[n].dir)
        /\ \E f \in Free : handle' = [handle EXCEPT ![f] = Handle(n, T[n].dir, flags)]
        /\ UNCHANGED here /\ got' = <<>>
        /\ tree' = IF "O_TRUNC" \in flags THEN [T EXCEPT ![n] = File(<<>>)] ELSE T

\* The file stays if it cannot be opened once it has been made.
OpenNew(T, path, flags) ==
    /\ "O_CREATE" \in flags /\ Names(path) # <<>>
    /\ UNCHANGED here /\ got' = <<>>
    /\ \E d \in {Parent(T, path)} : \E name \in {Last(Names(path))}, n \in Nodes \ DOMAIN T :
          /\ NewIn(T, d, name)
          /\ IF Refuses(FALSE, flags) \/ Free = {} THEN UNCHANGED handle
             ELSE \E f \in Free : handle' = [handle EXCEPT ![f] = Handle(n, FALSE, flags)]
          /\ tree' = Grown(T, d, name, n, File(<<>>))

Mkdir(T, path) ==
    /\ Names(path) # <<>>
    /\ UNCHANGED <<handle, here>> /\ got' = <<>>
    /\ \E d \in {Parent(T, path)} : \E name \in {Last(Names(path))}, n \in Nodes \ DOMAIN T :
          /\ NewIn(T, d, name)
          /\ tree' = Grown(T, d, name, n, Dir(<<Entry(n, "."), Entry(d, "..")>>))

Chdir(T, path) ==
    /\ UNCHANGED handle /\ got' = <<>>
    /\ here' = Find(T, path)
    /\ here' # Nothing
    /\ T[here'].dir
    /\ tree' = T

Close(T, f) ==
    /\ handle' = [handle EXCEPT ![f] = NoHandle]
    /\ UNCHANGED here /\ got' = <<>>
    /\ tree' = T

\* Any prefix may be written, also none after the gap is filled.
Write(T, f, data) ==
    /\ handle[f].writable
    /\ UNCHANGED here /\ got' = <<>>
    /\ \E h \in {handle[f]}, k \in 0..Len(data) :
       \E at \in {IF h.append THEN Len(T[h.node].data) ELSE h.off} :
          /\ handle' = [handle EXCEPT ![f].off = IF k > 0 THEN at + k ELSE @]
          /\ tree' = [T EXCEPT ![h.node].data = Overlaid(@, at, SubSeq(data, 1, k))]

\* The offset moves also if the answer cannot be delivered.
Read(T, f, n, ok) ==
    /\ handle[f].readable
    /\ UNCHANGED here
    /\ \E h \in {handle[f]} :
       \E data \in {SubSeq(T[h.node].data, h.off + 1, Min({h.off + n, Len(T[h.node].data)}))} :
          /\ handle' = [handle EXCEPT ![f].off = @ + Len(data)]
          /\ got' = IF ok THEN data ELSE SYSERR
    /\ tree' = T

Init ==
    /\ Root \in DOMAIN tree
    /\ tree[Root].dir
    /\ handle = [f \in Files |-> NoHandle]
    /\ here = Root
    /\ got = <<>>

Call(T) ==
    \/ \E o \in Opens : OpenOld(T, o.path, o.flags) \/ OpenNew(T, o.path, o.flags)
    \/ \E path \in Mkdirs : Mkdir(T, path)
    \/ \E path \in Chdirs : Chdir(T, path)
    \/ \E f \in Files : \/ Close(T, f)
                        \/ \E data \in Data : Write(T, f, data)
                        \/ \E n \in ReadSizes, ok \in BOOLEAN : Read(T, f, n, ok)

\* A call that fails leaves the tree.
Fail(T) == UNCHANGED <<handle, here>> /\ got' = <<>> /\ tree' = T

Next == \E T \in {tree} : Fail(T) \/ Call(T)

Spec == Init /\ [][Next]_vars
=============================================================================
