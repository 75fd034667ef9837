----------------------------- MODULE FileTable -----------------------------
(***************************************************************************)
(* Who holds what: src/src/file.rs, the descriptor system calls of         *)
(* syscall.rs, the allocation and the closing of pipes (pipe.rs), the      *)
(* reference counts of the inode cache (fs.rs) and the parts of fork, exit *)
(* and freeproc (proc.rs) that duplicate and drop references.              *)
(*                                                                         *)
(* A system call runs from the trap to its return without being preempted  *)
(* (Proc!SyscallsNotInterrupted), so each is one step.  Inside a step the  *)
(* calls are composed in the order of the code, the rollback of a failure  *)
(* included: `obj` holds the kernel tables and every operation is a        *)
(* function from such a value to the next.                                 *)
(***************************************************************************)
EXTENDS Integers, FiniteSets, FiniteSetsExt

CONSTANTS NPROC, NFILE, NOFILE, NPIPE, NINODE,  \* sizes of the tables
          Dirs, Regs, Devs,                     \* the inodes on disk, by type
          Root,                                 \* ROOTINO, one of Dirs
          Modes,                                \* access modes passed to open
          MaxRootRef                            \* bound: no fork beyond it

ASSUME SizesAssumption ==
    /\ NPROC \in Nat \ {0} /\ NPIPE \in Nat /\ MaxRootRef \in Nat
    /\ NFILE \in Nat /\ NOFILE \in Nat /\ NFILE >= 3 /\ NOFILE >= 3
    /\ NINODE \in Nat \ {0} /\ Root \in Dirs
    /\ Modes \subseteq {"O_RDONLY", "O_WRONLY", "O_RDWR"}

Procs == 1..NPROC
Files == 1..NFILE       \* addresses of FTABLE entries
Pipes == 1..NPIPE       \* addresses of PIPES entries
Fds == 0..NOFILE - 1
Null == 0
INITPROC == 1
Inodes == Dirs \cup Regs \cup Devs

VARIABLES obj,     \* the file table, the pipe table, the inode reference counts
          ofile,   \* Process.ofile
          cwd,     \* Process.cwd (Root in an unused slot: root_placeholder)
          pstate   \* "Unused", "Live" or "Zombie"

vars == <<obj, ofile, cwd, pstate>>

\* FileKind: the pipe or the inode where the kind has one.
NoKind == [tag |-> "None"]
DeviceKind == [tag |-> "Device"]
InodeKind(i) == [tag |-> "Inode", inode |-> i]
PipeKind(x) == [tag |-> "Pipe", pipe |-> x]
Kinds == {NoKind, DeviceKind} \cup {InodeKind(i) : i \in Inodes}
                              \cup {PipeKind(x) : x \in Pipes}

UnusedFile == [refcnt |-> 0, readable |-> FALSE, writable |-> FALSE, kind |-> NoKind]

\* panic records an assertion that failed: refcnt > 0 in dup and close,
\* refcnt >= 1 in idup and iput, a slot for the root, the relocking of p.lock.
Panic(o, ok) == [o EXCEPT !.panic = @ \/ ~ok]
-----------------------------------------------------------------------------
(* fs.rs: the reference counts of the inode cache.                           *)
cached(o) == {i \in Inodes : o.iref[i] > 0}

\* iget finds the inode in a slot, or a free slot for it.
iget_ok(o, i) == i \in cached(o) \/ Cardinality(cached(o)) < NINODE
iget(o, i) == [o EXCEPT !.iref[i] = @ + 1]
\* fs::root: iget(ROOTINO).expect("root").
root_ref(o) == iget(Panic(o, iget_ok(o, Root)), Root)
idup(o, i) == [Panic(o, o.iref[i] >= 1) EXCEPT !.iref[i] = @ + 1]
iput(o, i) == [Panic(o, o.iref[i] >= 1) EXCEPT !.iref[i] = @ - 1]
-----------------------------------------------------------------------------
(* pipe.rs.                                                                  *)
free_pipes(o) == {x \in Pipes : ~o.pipe[x].used}

pipe_alloc(o, x) ==
    [o EXCEPT !.pipe[x] = [used |-> TRUE, readopen |-> TRUE, writeopen |-> TRUE]]

free_allocated(o, x) ==
    [o EXCEPT !.pipe[x] = [used |-> FALSE, readopen |-> FALSE, writeopen |-> FALSE]]

\* locked: the caller holds a p.lock, which the wakeup of close acquires again.
pipe_close(o, x, writable, locked) ==
    LET rd == o.pipe[x].readopen /\ writable
        wr == o.pipe[x].writeopen /\ ~writable
    IN  [Panic(o, ~locked) EXCEPT
            !.pipe[x] = [used |-> @.used /\ (rd \/ wr), readopen |-> rd, writeopen |-> wr]]
-----------------------------------------------------------------------------
(* file.rs.                                                                  *)
free_files(o) == {f \in Files : o.file[f].refcnt = 0}

file_alloc(o, f) == [o EXCEPT !.file[f] = [UnusedFile EXCEPT !.refcnt = 1]]

file_set(o, f, rd, wr, k) ==
    [o EXCEPT !.file[f] = [@ EXCEPT !.readable = rd, !.writable = wr, !.kind = k]]

file_dup(o, f) ==
    [Panic(o, o.file[f].refcnt > 0) EXCEPT !.file[f].refcnt = @ + 1]

\* The last reference gives up what the file stands for.
file_close(o, f, locked) ==
    LET k == o.file[f].kind
        wr == o.file[f].writable
        dropped == [o EXCEPT !.file[f] = UnusedFile]
    IN  IF o.file[f].refcnt # 1
        THEN [Panic(o, o.file[f].refcnt > 0) EXCEPT !.file[f].refcnt = @ - 1]
        ELSE CASE k.tag = "Inode" -> iput(dropped, k.inode)
               [] k.tag = "Pipe"  -> pipe_close(dropped, k.pipe, wr, locked)
               [] OTHER           -> dropped

\* Loops over the descriptors of a table t: what the kernel tables are after the
\* first n of them.
close_fd(o, f, locked) == IF f = Null THEN o ELSE file_close(o, f, locked)
closing(o, t, locked) ==
    LET closed[n \in 0..NOFILE] ==
            IF n = 0 THEN o ELSE close_fd(closed[n - 1], t[n - 1], locked)
    IN  closed
close_all(o, t, locked) == closing(o, t, locked)[NOFILE]

dup_fd(o, f) == IF f = Null THEN o ELSE file_dup(o, f)
duping(o, t) ==
    LET duped[n \in 0..NOFILE] == IF n = 0 THEN o ELSE dup_fd(duped[n - 1], t[n - 1])
    IN  duped
dup_all(o, t) == duping(o, t)[NOFILE]
-----------------------------------------------------------------------------
(* syscall.rs.                                                               *)
free_fds(t) == {fd \in Fds : t[fd] = Null}

\* What a call leaves: the tables, and the caller's descriptors.
Return(p, o, t) ==
    /\ obj' = o
    /\ ofile' = [ofile EXCEPT ![p] = t]
    /\ UNCHANGED <<cwd, pstate>>

\* A call made by a process in user mode.
Call(p) == pstate[p] = "Live" /\ ~obj.panic

(* sys_open of inode i, found by namei or made by create.  trunc is O_TRUNC. *)
open_refused(i, mode, trunc) ==
    LET wr == mode # "O_RDONLY"
    IN  (i \in Dirs /\ wr) \/ (trunc /\ (i \notin Regs \/ ~wr))

\* The inode is found, but the mode is refused or the file table is full.
OpenFails(p, i, mode, trunc) ==
    /\ Call(p) /\ iget_ok(obj, i)
    /\ open_refused(i, mode, trunc) \/ free_files(obj) = {}
    /\ Return(p, iput(iget(obj, i), i), ofile[p])

Open(p, i, mode, trunc) ==
    /\ Call(p) /\ iget_ok(obj, i)
    /\ ~open_refused(i, mode, trunc) /\ free_files(obj) # {}
    /\ LET f == Min(free_files(obj))
           rd == mode # "O_WRONLY"
           wr == mode # "O_RDONLY"
           o1 == file_alloc(iget(obj, i), f)
           o2 == IF i \in Devs THEN iput(file_set(o1, f, rd, wr, DeviceKind), i)
                               ELSE file_set(o1, f, rd, wr, InodeKind(i))
       IN  IF free_fds(ofile[p]) = {}
           THEN Return(p, file_close(o2, f, FALSE), ofile[p])
           ELSE Return(p, o2, [ofile[p] EXCEPT ![Min(free_fds(ofile[p]))] = f])

(* sys_dup: no state changes when there is no free descriptor.               *)
Dup(p, fd) ==
    /\ Call(p) /\ ofile[p][fd] # Null /\ free_fds(ofile[p]) # {}
    /\ Return(p, file_dup(obj, ofile[p][fd]),
              [ofile[p] EXCEPT ![Min(free_fds(ofile[p]))] = ofile[p][fd]])

(* sys_close.                                                                *)
Close(p, fd) ==
    /\ Call(p) /\ ofile[p][fd] # Null
    /\ Return(p, file_close(obj, ofile[p][fd], FALSE), [ofile[p] EXCEPT ![fd] = Null])

(* sys_pipe, step by step: a pipe, two files, two descriptors, and the       *)
(* copyout of the pair, which fails if `bad`.                                *)
pipe_files(o, x, r, w) ==
    file_set(file_set(o, r, TRUE, FALSE, PipeKind(x)), w, FALSE, TRUE, PipeKind(x))

\* Wrong: only the read end is given back.
pipe_undo_half(o, r, w) == file_close(o, r, FALSE)

pipe_undo(o, r, w) == file_close(file_close(o, r, FALSE), w, FALSE)

\* Wrong: the pipe stays allocated.
PipeNoFile_leaks(p) ==
    /\ Call(p) /\ free_pipes(obj) # {} /\ Cardinality(free_files(obj)) < 2
    /\ Return(p, pipe_alloc(obj, Min(free_pipes(obj))), ofile[p])

PipeNoFile(p) ==
    /\ Call(p) /\ free_pipes(obj) # {} /\ Cardinality(free_files(obj)) < 2
    /\ LET x == Min(free_pipes(obj))
           o1 == pipe_alloc(obj, x)
           r == Min(free_files(o1))
       IN  Return(p, free_allocated(IF free_files(o1) = {} THEN o1
                                    ELSE file_close(file_alloc(o1, r), r, FALSE), x),
                  ofile[p])

Pipe(p, bad) ==
    /\ Call(p) /\ free_pipes(obj) # {} /\ Cardinality(free_files(obj)) >= 2
    /\ LET x == Min(free_pipes(obj))
           r == Min(free_files(obj))
           o1 == file_alloc(pipe_alloc(obj, x), r)
           w == Min(free_files(o1))
           o2 == pipe_files(file_alloc(o1, w), x, r, w)
           rfd == Min(free_fds(ofile[p]))
           t1 == [ofile[p] EXCEPT ![rfd] = r]
           wfd == Min(free_fds(t1))
       IN  IF Cardinality(free_fds(ofile[p])) < 2 \/ bad
           THEN Return(p, pipe_undo(o2, r, w), ofile[p])
           ELSE Return(p, o2, [t1 EXCEPT ![wfd] = w])

(* sys_chdir to inode i.                                                     *)
\* Wrong: the old working directory is not put.
Chdir_leaks(p, i) ==
    /\ Call(p) /\ iget_ok(obj, i) /\ i \in Dirs
    /\ obj' = iget(obj, i) /\ cwd' = [cwd EXCEPT ![p] = i]
    /\ UNCHANGED <<ofile, pstate>>

Chdir(p, i) ==
    /\ Call(p) /\ iget_ok(obj, i)
    /\ IF i \in Dirs
       THEN obj' = iput(iget(obj, i), cwd[p]) /\ cwd' = [cwd EXCEPT ![p] = i]
       ELSE obj' = iput(iget(obj, i), i) /\ UNCHANGED cwd
    /\ UNCHANGED <<ofile, pstate>>
-----------------------------------------------------------------------------
(* proc.rs.                                                                  *)
NoFiles == [fd \in Fds |-> Null]

\* freeproc, with p.lock held.
freeproc(o, t, dir) == iput(close_all(o, t, TRUE), dir)

\* allocproc gives the slot a reference to the root directory.  fork then fails
\* for lack of memory ...
ForkFails(p, c) ==
    /\ Call(p) /\ pstate[c] = "Unused"
    /\ obj' = freeproc(root_ref(obj), NoFiles, Root)
    /\ UNCHANGED <<ofile, cwd, pstate>>

\* ... or duplicates the files and the working directory of the parent.
Fork(p, c) ==
    /\ Call(p) /\ pstate[c] = "Unused" /\ obj.iref[Root] < MaxRootRef
    /\ obj' = idup(dup_all(root_ref(obj), ofile[p]), cwd[p])
    /\ ofile' = [ofile EXCEPT ![c] = ofile[p]]
    /\ cwd' = [cwd EXCEPT ![c] = cwd[p]]
    /\ pstate' = [pstate EXCEPT ![c] = "Live"]

\* Wrong: the files are left to freeproc.
Exit_keeps_files(p) ==
    /\ Call(p)
    /\ pstate' = [pstate EXCEPT ![p] = "Zombie"]
    /\ UNCHANGED <<obj, ofile, cwd>>

\* close_open_files in exit, before any lock is taken.
Exit(p) ==
    /\ Call(p)
    /\ obj' = close_all(obj, ofile[p], FALSE)
    /\ ofile' = [ofile EXCEPT ![p] = NoFiles]
    /\ pstate' = [pstate EXCEPT ![p] = "Zombie"]
    /\ UNCHANGED cwd

\* wait in the live process p reaps c (whose child c is, Proc!ParentIsAlive says).
Wait(p, c) ==
    /\ Call(p) /\ pstate[c] = "Zombie" /\ c # INITPROC
    /\ obj' = freeproc(obj, ofile[c], cwd[c])
    /\ ofile' = [ofile EXCEPT ![c] = NoFiles]
    /\ cwd' = [cwd EXCEPT ![c] = Root]
    /\ pstate' = [pstate EXCEPT ![c] = "Unused"]

\* userinit: init has the console open three times and the root as its cwd.
Init ==
    /\ obj = [file |-> [f \in Files |->
                           IF f <= 3 THEN [refcnt |-> 1, readable |-> f = 1,
                                           writable |-> f # 1, kind |-> DeviceKind]
                           ELSE UnusedFile],
              pipe |-> [x \in Pipes |->
                           [used |-> FALSE, readopen |-> FALSE, writeopen |-> FALSE]],
              iref |-> [i \in Inodes |-> IF i = Root THEN 1 ELSE 0],
              panic |-> FALSE]
    /\ ofile = [p \in Procs |-> [fd \in Fds |->
                   IF p = INITPROC /\ fd < 3 THEN fd + 1 ELSE Null]]
    /\ cwd = [p \in Procs |-> Root]
    /\ pstate = [p \in Procs |-> IF p = INITPROC THEN "Live" ELSE "Unused"]

\* init never calls chdir (user/src/bin/init.rs).
Next ==
    \E p \in Procs :
        \/ \E i \in Inodes, mode \in Modes, trunc \in BOOLEAN :
            OpenFails(p, i, mode, trunc) \/ Open(p, i, mode, trunc)
        \/ \E fd \in Fds : Dup(p, fd) \/ Close(p, fd)
        \/ PipeNoFile(p)
        \/ \E bad \in BOOLEAN : Pipe(p, bad)
        \/ p # INITPROC /\ \E i \in Inodes : Chdir(p, i)
        \/ \E c \in Procs : ForkFails(p, c) \/ Fork(p, c) \/ Wait(p, c)
        \/ Exit(p)

Spec == Init /\ [][Next]_vars
-----------------------------------------------------------------------------
(* Properties.                                                               *)

\* Every table keeps its type: no count of file.rs or fs.rs wraps below zero, no
\* descriptor points outside the file table and no cwd at anything but a
\* directory.
TypeOK ==
    /\ obj \in [file : [Files -> [refcnt : Nat, readable : BOOLEAN,
                                  writable : BOOLEAN, kind : Kinds]],
                pipe : [Pipes -> [used : BOOLEAN, readopen : BOOLEAN, writeopen : BOOLEAN]],
                iref : [Inodes -> Nat],
                panic : BOOLEAN]
    /\ ofile \in [Procs -> [Fds -> Files \cup {Null}]]
    /\ cwd \in [Procs -> Dirs]
    /\ pstate \in [Procs -> {"Unused", "Live", "Zombie"}]

\* A file's refcnt is the number of descriptors, over all processes, that refer
\* to it, so it is freed by the last close and never before, and every failure
\* in open, pipe and fork gives back what it had taken (and TypeOK holds).
RefcntIsExact ==
    TypeOK /\ \A f \in Files :
        obj.file[f].refcnt = Cardinality({d \in Procs \X Fds : ofile[d[1]][d[2]] = f})

\* An end of a pipe is open exactly while some open file stands for it, and the
\* pipe's slot is used exactly while an end is open: EOF comes with the last
\* close of the write end, and no slot is reused under an open file.
PipeEndsMatchFiles ==
    \A x \in Pipes :
        LET ends == {f \in Files : obj.file[f].refcnt > 0 /\ obj.file[f].kind = PipeKind(x)}
        IN  /\ obj.pipe[x].readopen <=> \E f \in ends : obj.file[f].readable
            /\ obj.pipe[x].writeopen <=> \E f \in ends : obj.file[f].writable
            /\ obj.pipe[x].used <=> ends # {}

\* No assertion on a count fails, and freeproc, which holds p.lock, never gets
\* to close a pipe, whose wakeup would acquire p.lock again.
NoPanic == ~obj.panic

\* The owners of references to inode i: open files and working directories.
owners(i) ==
    Cardinality({f \in Files : obj.file[f].refcnt > 0 /\ obj.file[f].kind = InodeKind(i)})
    + Cardinality({p \in Procs : pstate[p] # "Unused" /\ cwd[p] = i})

\* An inode slot is never given away while it has an owner, and every slot but
\* the root's is given up when the last owner drops it.
InodesKeptWhileOwned ==
    \A i \in Inodes : /\ obj.iref[i] >= owners(i)
                      /\ i # Root => obj.iref[i] = owners(i)

\* docs/decisions.md:907 has each process own one reference, its cwd: idup in
\* fork, iput in freeproc.  Then a count is the number of owners, the root's
\* included.
CwdRefsBalance == \A i \in Inodes : obj.iref[i] = owners(i)
=============================================================================
