--------------------------------- MODULE Fs ---------------------------------
(***************************************************************************)
(* The directories and paths of src/src/fs.rs, and the system calls over   *)
(* them (src/src/syscall.rs, src/src/file.rs): open with all its flags,    *)
(* close, read, write, mkdir and chdir, by one process.  Other processes   *)
(* appear as further open files: what they share is the inode cache and    *)
(* the disk, and a call is never preempted.  Device inodes, which no disk  *)
(* of the repository holds, are in FileTable; so are descriptors, dup,     *)
(* fork and exit.                                                          *)
(***************************************************************************)
EXTENDS Inodes
LOCAL INSTANCE FiniteSets
LOCAL INSTANCE FiniteSetsExt
LOCAL INSTANCE SequencesExt

CONSTANTS NFILE,      \* open files
          Clip,       \* [name -> its first DIRSIZ bytes]
          Opens,      \* [path, flags] that open is called with; a path is a
                      \* sequence of names and "/"
          Mkdirs, Chdirs,    \* paths that mkdir and chdir are called with
          Data, ReadSizes,   \* what write and read are called with
          Program, Readme,   \* contents of the files of the first disk
          MaxWrites   \* bound on the writes of a behaviour

ASSUME FsAssumption ==
    /\ NFILE \in Nat \ {0} /\ MaxWrites \in Nat /\ NINODES > 4 /\ NINODE > 2
    /\ \A name \in DOMAIN Clip : Clip[name] \in DOMAIN Clip /\ Clip[Clip[name]] = Clip[name]

VARIABLES m,      \* disk and inode cache
          file,   \* the open files
          cwd,    \* slot of the current directory
          got,    \* the answer of the call just made, if it was a read
          writes
vars == <<m, file, cwd, got, writes>>

Files == 1..NFILE
ROOTINO == 1
SYSERR == <<Cell(-1, "")>>
-----------------------------------------------------------------------------
(* Directories.  A cell of a directory is an entry: an inode number and a    *)
(* name of DIRSIZ bytes.                                                     *)
dirent_name(name) == Clip[name]

entries(t, s) == cells(t, t.icache[s].di, t.icache[s].di.size)
unreadable(t, s) == hole(t, t.icache[s].di, t.icache[s].di.size)

\* The number of the first entry of that name.
named(es, name) ==
    LET hits == {k \in DOMAIN es : es[k].n # 0 /\ es[k].name = name}
    IN  IF hits = {} THEN None ELSE es[Min(hits)].n

dirlookup(t, s, name) ==
    IF t.icache[s].di.typ # T_DIR THEN Ret(t, None)
    ELSE IF unreadable(t, s) THEN Ret(Panic(t, FALSE), None)
    ELSE Ret(t, named(entries(t, s), dirent_name(name)))

\* Offset of the first entry not in use, the end if there is none.
first_free(es) == Min({Len(es)} \cup {k - 1 : k \in {j \in DOMAIN es : es[j].n = 0}})

write_dirent(t, s, off, inum, name) == writei(t, s, off, <<Cell(inum, name)>>)

add_dirent(t, s, name, inum) ==
    IF t.ret # None \/ t.panic THEN Ret(t, 0)
    ELSE write_dirent(t, s, first_free(entries(t, s)), inum, dirent_name(name))

\* Returns 1 if the entry was made, else 0.
dirlink(t, s, name, inum) ==
    IF t.icache[s].di.typ # T_DIR THEN Ret(t, 0)
    ELSE add_dirent(dirlookup(t, s, name), s, name, inum)

link_child(t, dp, name, inum) == dirlink(ilock(t, dp), dp, name, inum)

inc_nlink(t, s) == iupdate([ilock(t, s) EXCEPT !.icache[s].di.nlink = @ + 1], s)

\* mkdir_child from its end to its beginning; ip is the new directory's slot.

\* Wrong: the parent does not count the child's "..".
counted_dir_once(t, ip, dp) ==
    IF t.ret = 0 THEN put_ret(t, ip, None) ELSE Ret(inc_nlink(t, ip), ip)

counted_dir(t, ip, dp) ==
    IF t.ret = 0 THEN put_ret(t, ip, None) ELSE Ret(inc_nlink(inc_nlink(t, ip), dp), ip)

linked_dir(t, ip, dp, name) ==
    IF t.ret = 0 THEN put_ret(t, ip, None)
    ELSE counted_dir(link_child(iupdate([t EXCEPT !.icache[ip].di.nlink = 1], ip),
                                dp, name, t.icache[ip].inum), ip, dp)

dot_dot(t, ip, dp) == IF t.ret = 0 THEN t ELSE dirlink(t, ip, "..", t.icache[dp].inum)

new_dir(t, ip, dp, name) ==
    linked_dir(dot_dot(dirlink(ilock(t, ip), ip, ".", t.icache[ip].inum), ip, dp), ip, dp, name)

with_dir(t, dp, name) == IF t.ret = None THEN t ELSE new_dir(t, t.ret, dp, name)

mkdir_child(t, dp, name) == with_dir(ialloc(ilock(t, dp), T_DIR), dp, name)

\* create_file likewise; create_empty_file is the same without data.
counted_file(t, ip) == IF t.ret = 0 THEN put_ret(t, ip, None) ELSE Ret(inc_nlink(t, ip), ip)

linked_file(t, ip, dp, name, len) ==
    IF t.ret # len THEN put_ret(t, ip, None)
    ELSE counted_file(link_child(t, dp, name, t.icache[ip].inum), ip)

with_file(t, dp, name, data) ==
    IF t.ret = None THEN t
    ELSE linked_file(writei(ilock(t, t.ret), t.ret, 0, data), t.ret, dp, name, Len(data))

create_file(t, dp, name, data) == with_file(ialloc(t, T_FILE), dp, name, data)
create_empty_file(t, dp, name) == create_file(t, dp, name, <<>>)
-----------------------------------------------------------------------------
(* Paths.                                                                    *)
\* The elements skipelem takes from the path one after the other.
elems(path) == SelectSeq(path, LAMBDA e : e # "/")

start(t, cw, path) ==
    IF path = <<>> THEN Ret(t, None)
    ELSE IF Head(path) = "/" THEN iget(t, ROOTINO) ELSE idup(t, cw)

\* The turn of the loop of namei: from ip to the inode whose number is t.ret.
stepped(t, ip) == put_ret(t, ip, t.ret)

\* Wrong: the directory stays referenced when the name is not in it.
step_leaks(t, ip) == IF t.ret = None THEN t ELSE stepped(iget(t, t.ret), ip)

step(t, ip) == IF t.ret = None THEN put_ret(t, ip, None) ELSE stepped(iget(t, t.ret), ip)
descend(t, name) == IF t.ret = None THEN t ELSE step(dirlookup(ilock(t, t.ret), t.ret, name), t.ret)

namei(t, cw, path) == FoldLeft(descend, start(t, cw, path), elems(path))

\* The directory of the last element; a path without elements has none.
nameiparent(t, cw, path) ==
    IF elems(path) = <<>> THEN Ret(t, None)
    ELSE FoldLeft(descend, start(t, cw, path), Front(elems(path)))

\* create when the name is taken: the inode, if it is a file.
if_file(t, ip) == IF t.icache[ip].di.typ = T_FILE THEN Ret(t, ip) ELSE put_ret(t, ip, None)
existing(t) == IF t.ret = None THEN t ELSE if_file(ilock(t, t.ret), t.ret)

\* create and mkdir give the parent dp back and return what was made in it.
given_back(t, dp) == put_ret(t, dp, t.ret)

create_in(t, dp, name) ==
    IF t.ret # None THEN existing(iget(iput(t, dp), t.ret))
    ELSE given_back(create_empty_file(t, dp, name), dp)

mkdir_in(t, dp, name) ==
    IF t.ret # None THEN put_ret(t, dp, None)
    ELSE given_back(mkdir_child(t, dp, name), dp)

\* The lookup of the last element in the parent, if there is one.
create_at(t, name) ==
    IF t.ret = None THEN t
    ELSE create_in(dirlookup(ilock(t, t.ret), t.ret, name), t.ret, name)

mkdir_at(t, name) ==
    IF t.ret = None THEN t
    ELSE mkdir_in(dirlookup(ilock(t, t.ret), t.ret, name), t.ret, name)

last(path) == IF elems(path) = <<>> THEN "" ELSE Last(elems(path))

create(t, cw, path) == create_at(nameiparent(t, cw, path), last(path))
mkdir(t, cw, path) == mkdir_at(nameiparent(t, cw, path), last(path))
-----------------------------------------------------------------------------
(* The first disk: /, /bin, one of the programs in it, and /README.md.  Each *)
(* step unwraps what it made.                                                *)
expected(t) == Panic(t, t.ret # None)

init_root == iget([Blank EXCEPT !.dinode[ROOTINO] = [FreeDinode EXCEPT !.typ = T_DIR]], ROOTINO)

count_dot(t, s) == IF t.ret = 1 THEN [t EXCEPT !.icache[s].di.nlink = @ + 1] ELSE t
root_dot(t, s, name) == count_dot(dirlink(t, s, name, ROOTINO), s)

installed(t) == iput(expected(t), t.ret)
with_bin(t, s, bin) ==
    iput(iput(installed(create_file(installed(create_file(t, bin, "sh", Program)),
                                    s, "README.md", Readme)), bin), s)

with_root(t, s) == with_bin(expected(t), s, t.ret)

populate(t, s) ==
    with_root(mkdir_child(iupdate(root_dot(root_dot(ilock(t, s), s, "."), s, ".."), s), s, "bin"), s)

populate_root == populate(expected(init_root), init_root.ret)

\* root(), of the first process and then of the one that is modelled.
root(t) == expected(iget(t, ROOTINO))
-----------------------------------------------------------------------------
(* System calls.                                                             *)
Return(t) == m' = [t EXCEPT !.ret = None, !.end = 0]

Closed == [inode |-> None, off |-> 0, append |-> FALSE, readable |-> FALSE, writable |-> FALSE]
IsOpen(f) == file[f].inode # None
FreeFiles == {f \in Files : ~IsOpen(f)}

Init ==
    \E t \in {root(root(populate_root))} :
        /\ m = [t EXCEPT !.ret = None, !.end = 0]
        /\ cwd = t.ret
        /\ file = [f \in Files |-> Closed]
        /\ got = <<>>
        /\ writes = 0

writable_by(flags) == flags \cap {"O_WRONLY", "O_RDWR"} # {}

\* open refuses to write a directory, and to truncate anything but a writable file.
refused(typ, flags) ==
    \/ typ = T_DIR /\ writable_by(flags)
    \/ "O_TRUNC" \in flags /\ (typ # T_FILE \/ ~writable_by(flags))

\* Neither can the file table be full; a full descriptor table ends in the same iput.
opened(t, ip, flags) ==
    IF refused(t.icache[ip].di.typ, flags) \/ FreeFiles = {}
    THEN Return(iput(t, ip)) /\ UNCHANGED file
    ELSE /\ file' = [file EXCEPT ![Min(FreeFiles)] =
                        [inode |-> ip, off |-> 0,
                         append |-> "O_APPEND" \in flags /\ t.icache[ip].di.typ = T_FILE,
                         readable |-> "O_WRONLY" \notin flags,
                         writable |-> writable_by(flags)]]
         /\ Return(IF "O_TRUNC" \in flags THEN itrunc(t, ip) ELSE t)

Open(path, flags) ==
    \E t \in {IF "O_CREATE" \in flags THEN create(m, cwd, path) ELSE namei(m, cwd, path)} :
        /\ IF t.ret = None THEN Return(t) /\ UNCHANGED file
           ELSE \E u \in {ilock(t, t.ret)} : opened(u, t.ret, flags)
        /\ got' = <<>> /\ UNCHANGED <<cwd, writes>>

Close(f) ==
    /\ IsOpen(f)
    /\ Return(iput(m, file[f].inode))
    /\ file' = [file EXCEPT ![f] = Closed]
    /\ got' = <<>> /\ UNCHANGED <<cwd, writes>>

\* file::read: _readi panics at a hole; copied is FALSE if the copy to the
\* user's buffer fails, when the offset has already moved.
read_data(t, di, off, n) ==
    IF hole(t, di, Min({off + n, di.size})) THEN <<>> ELSE readi(t, di, off, n)

read_inode(f, t, di, n, copied) ==
    \E data \in {read_data(t, di, file[f].off, n)} :
        /\ Return(Panic(t, ~hole(t, di, Min({file[f].off + n, di.size}))))
        /\ file' = [file EXCEPT ![f].off = @ + Len(data)]
        /\ got' = IF copied THEN data ELSE SYSERR

Read(f, n, copied) ==
    /\ IsOpen(f)
    /\ file[f].readable
    /\ \E t \in {ilock(m, file[f].inode)} : read_inode(f, t, t.icache[file[f].inode].di, n, copied)
    /\ UNCHANGED <<cwd, writes>>

\* file::write with writei or appendi: the offset moves if anything was written.
write_inode(f, t, at, data) ==
    \E u \in {writei(t, file[f].inode, at, data)} :
        /\ Return(u)
        /\ file' = [file EXCEPT ![f].off = IF u.ret > 0 THEN at + u.ret ELSE @]

\* Wrong: appendi starts from the offset of this open file.
write_at_own(f, size) == file[f].off

\* appendi starts from the end, whatever other open files added to it.
write_at(f, size) == IF file[f].append THEN size ELSE file[f].off

Write(f, data) ==
    /\ writes < MaxWrites
    /\ IsOpen(f)
    /\ file[f].writable
    /\ \E t \in {ilock(m, file[f].inode)} :
          write_inode(f, t, write_at(f, t.icache[file[f].inode].di.size), data)
    /\ writes' = writes + 1
    /\ got' = <<>> /\ UNCHANGED cwd

\* sys_mkdir gives back what mkdir returns.
Mkdir(path) ==
    /\ \E t \in {mkdir(m, cwd, path)} : Return(IF t.ret = None THEN t ELSE iput(t, t.ret))
    /\ got' = <<>> /\ UNCHANGED <<file, cwd, writes>>

Chdir(path) ==
    /\ \E t \in {namei(m, cwd, path)} :
          IF t.ret = None THEN Return(t) /\ UNCHANGED cwd
          ELSE \E u \in {ilock(t, t.ret)} :
                  IF u.icache[t.ret].di.typ = T_DIR
                  THEN Return(iput(u, cwd)) /\ cwd' = t.ret
                  ELSE Return(iput(u, t.ret)) /\ UNCHANGED cwd
    /\ got' = <<>> /\ UNCHANGED <<file, writes>>

Next ==
    /\ ~m.panic
    /\ \/ \E o \in Opens : Open(o.path, o.flags)
       \/ \E path \in Mkdirs : Mkdir(path)
       \/ \E path \in Chdirs : Chdir(path)
       \/ \E f \in Files : \/ Close(f)
                           \/ \E n \in ReadSizes, copied \in BOOLEAN : Read(f, n, copied)
                           \/ \E data \in Data : Write(f, data)

Spec == Init /\ [][Next]_vars
-----------------------------------------------------------------------------
(* Properties.                                                               *)
Dinodes == [typ : {0, T_DIR, T_FILE}, nlink : Nat, size : 0..MAXFILE * BSIZE,
            addrs : [0..NDIRECT -> {None} \cup Blocks]]

\* Every variable has its type; in a directory or an indirect block cells are
\* entries and addresses.
TypeOK ==
    /\ m.used \subseteq Blocks
    /\ m.block \in [Blocks -> [0..BSIZE - 1 -> [n : Nat, name : {""} \cup DOMAIN Clip]]]
    /\ m.dinode \in [Inums -> Dinodes]
    /\ m.icache \in [Slots -> [inum : {0} \cup Inums, refcnt : Nat, valid : BOOLEAN, di : Dinodes]]
    /\ m.panic \in BOOLEAN /\ m.ret = None /\ m.end = 0
    /\ cwd \in Slots
    /\ file \in [Files -> [inode : {None} \cup Slots, off : 0..MAXFILE * BSIZE,
                           append : BOOLEAN, readable : BOOLEAN, writable : BOOLEAN]]
    /\ writes \in 0..MaxWrites

\* No panic is reached, at whichever step of a call the disk, the inodes or the
\* cache run out: no hole is read below a file's size, no free block is freed,
\* no count falls below zero.
NoPanic == ~m.panic

\* An inode as its users see it: the cached copy if there is one.
Seen(i) ==
    LET valid == {s \in inodes_of(m, i) : m.icache[s].valid}
    IN  IF valid = {} THEN m.dinode[i] ELSE m.icache[Min(valid)].di

\* bmap_alloc, bfree, itrunc: a block belongs to one place of one inode at most,
\* and is marked used while it does, also in inodes that a failed create or
\* mkdir left behind and in blocks that a failed write did not record (and
\* TypeOK holds).
BlocksOwnedOnce ==
    TypeOK /\ \E owned \in {[i \in Inums |-> freed(m, Seen(i))]} :
        /\ \A i \in Inums : ToSet(owned[i]) \subseteq m.used /\ IsInjective(owned[i])
        /\ \A i, j \in Inums : i # j => ToSet(owned[i]) \cap ToSet(owned[j]) = {}

\* iupdate: an inode that is cached has on disk the type, link count and size
\* of the copy and no block the copy lacks, so that the slot can be reused at
\* any time: what the copy has beyond that are blocks past the size.
NothingUnsaved ==
    \A s \in Slots : m.icache[s].refcnt > 0 /\ m.icache[s].valid =>
        \E d \in {m.dinode[m.icache[s].inum]}, c \in {m.icache[s].di} :
            /\ <<d.typ, d.nlink, d.size>> = <<c.typ, c.nlink, c.size>>
            /\ \A k \in 0..NDIRECT : d.addrs[k] \in {None, c.addrs[k]}
            /\ ~hole(m, d, d.size)

\* iget, iput, and every way out of namei, create, mkdir and open: a slot is
\* counted once for each open file, for the current directory and for the
\* first process, and an inode has one slot.
InodeRefsExact ==
    /\ \A s \in Slots :
          m.icache[s].refcnt = Cardinality({f \in Files : file[f].inode = s})
                               + (IF cwd = s THEN 1 ELSE 0)
                               + (IF m.icache[s].inum = ROOTINO THEN 1 ELSE 0)
    /\ \A i \in Inums : Cardinality(inodes_of(m, i)) <= 1

\* The tree on the disk: the root and what an entry of a directory leads to.
\* Nothing but the dots is ever in a directory that mkdir left behind.
Directories == {i \in Inums : m.dinode[i].typ = T_DIR}
Contents(i) == cells(m, m.dinode[i], m.dinode[i].size)
Linked ==
    {ROOTINO} \cup {e.n : e \in {x \in UNION {ToSet(Contents(i)) : i \in Directories} :
                                    x.name \notin {".", ".."}}}

\* mkdir_child, create_file, inc_nlink: in the tree an inode has as many links
\* as entries name it, and is of a kind; what a failed create or mkdir leaves
\* behind has no place in the tree.
LinksCounted ==
    \E linked \in {Linked} : \A i \in linked :
        /\ m.dinode[i].typ # 0
        /\ m.dinode[i].nlink = Cardinality(
               UNION {{<<j, k>> : k \in {x \in DOMAIN Contents(j) : Contents(j)[x].n = i}} :
                         j \in linked \cap Directories})

Handle(f) ==
    IF IsOpen(f)
    THEN [node |-> m.icache[file[f].inode].inum, off |-> file[f].off, append |-> file[f].append,
          readable |-> file[f].readable, writable |-> file[f].writable]
    ELSE [node |-> None, off |-> 0, append |-> FALSE, readable |-> FALSE, writable |-> FALSE]

Tree == INSTANCE FileTree WITH
    Nodes <- Inums, Root <- ROOTINO,
    tree <- [i \in Linked |-> [dir |-> i \in Directories, data |-> Contents(i)]],
    handle <- [f \in Files |-> Handle(f)],
    here <- m.icache[cwd].inum

\* The calls do to the tree what FileTree says: a path leads where its entries
\* say, a file reads as what was written to it, whoever has it open and
\* whatever was truncated meanwhile, a name of more than DIRSIZ bytes is its
\* first DIRSIZ, and a call that fails for want of blocks, inodes or slots
\* leaves the tree as it was (up to the zeros below a write that stops).
ImplementsFileTree == Tree!Spec
=============================================================================
