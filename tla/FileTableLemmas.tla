-------------------------- MODULE FileTableLemmas --------------------------
(***************************************************************************)
(* What the kernel's tables of FileTable keep, for tables of any size, and *)
(* that sys_open, sys_dup and sys_close keep it.                           *)
(*                                                                         *)
(* The invariant is stated of kernel tables o, descriptor tables ot,       *)
(* working directories cw and process states ps, so that it can be carried *)
(* through the loops of fork and exit one descriptor at a time.            *)
(***************************************************************************)
EXTENDS FileTable, TLAPS

FileRec == [refcnt : Nat, readable : BOOLEAN, writable : BOOLEAN, kind : Kinds]
PipeRec == [used : BOOLEAN, readopen : BOOLEAN, writeopen : BOOLEAN]
Obj == [file : [Files -> FileRec], pipe : [Pipes -> PipeRec],
        iref : [Inodes -> Nat], panic : BOOLEAN]

\* The descriptors that refer to file f.
Refs(ot, f) == {d \in Procs \X Fds : ot[d[1]][d[2]] = f}

\* A file is counted once per descriptor, and is blank when nobody has it.
FilesOK(o, ot) ==
    \A f \in Files : /\ o.file[f].refcnt = Cardinality(Refs(ot, f))
                     /\ o.file[f].refcnt = 0 => o.file[f] = UnusedFile

\* A pipe has at most one file for each end, open while that file is.
Ends(o, x) == {f \in Files : o.file[f].kind = PipeKind(x)}
PipeOK(o, x) ==
    /\ \A f \in Ends(o, x) : o.file[f].readable <=> ~o.file[f].writable
    /\ \A f, g \in Ends(o, x) : (o.file[f].writable <=> o.file[g].writable) => f = g
    /\ o.pipe[x].readopen <=> \E f \in Ends(o, x) : o.file[f].readable
    /\ o.pipe[x].writeopen <=> \E f \in Ends(o, x) : o.file[f].writable
    /\ o.pipe[x].used <=> (o.pipe[x].readopen \/ o.pipe[x].writeopen)
PipesOK(o) == \A x \in Pipes : PipeOK(o, x)

\* An inode is counted once per file and per working directory; the root may
\* be counted oftener.
Held(o, i) == {f \in Files : o.file[f].kind = InodeKind(i)}
Here(cw, ps, i) == {p \in Procs : ps[p] # "Unused" /\ cw[p] = i}
Counted(o, cw, ps) ==
    \A i \in Inodes :
        /\ o.iref[i] >= Cardinality(Held(o, i)) + Cardinality(Here(cw, ps, i))
        /\ i # Root => o.iref[i] = Cardinality(Held(o, i)) + Cardinality(Here(cw, ps, i))

\* Only live processes have files, and init stays in the root.
ProcsOK(ot, cw, ps) ==
    /\ \A p \in Procs : ps[p] # "Live" => ot[p] = NoFiles
    /\ ps[INITPROC] # "Unused" /\ cw[INITPROC] = Root

Tables == [Procs -> [Fds -> Files \cup {Null}]]

Good(o, ot, cw, ps) ==
    /\ o \in Obj /\ ~o.panic
    /\ FilesOK(o, ot) /\ PipesOK(o) /\ Counted(o, cw, ps)

IInv == /\ TypeOK
        /\ Good(obj, ofile, cwd, pstate)
        /\ ProcsOK(ofile, cwd, pstate)
-----------------------------------------------------------------------------
(* Finite sets and numbers.                                                  *)

EmptySet == IsFiniteSet({}) /\ Cardinality({}) = 0

Singleton ==
    /\ \A x : IsFiniteSet({x}) /\ Cardinality({x}) = 1
    /\ \A S : IsFiniteSet(S) => (Cardinality(S) = 1 <=> \E x : S = {x})

CardinalityType == \A S : IsFiniteSet(S) => Cardinality(S) \in Nat

AddElement == \A S, x : IsFiniteSet(S) =>
    /\ IsFiniteSet(S \cup {x})
    /\ Cardinality(S \cup {x}) = IF x \in S THEN Cardinality(S) ELSE Cardinality(S) + 1

RemoveElement == \A S, x : IsFiniteSet(S) =>
    /\ IsFiniteSet(S \ {x})
    /\ Cardinality(S \ {x}) = IF x \in S THEN Cardinality(S) - 1 ELSE Cardinality(S)

Subset == \A S : \A T \in SUBSET S : IsFiniteSet(S) =>
    IsFiniteSet(T) /\ Cardinality(T) <= Cardinality(S)

Product == \A S, T : IsFiniteSet(S) /\ IsFiniteSet(T) => IsFiniteSet(S \X T)

Interval == \A a, b \in Int : IsFiniteSet(a..b)

LeastNumber == \A T \in SUBSET Nat : T # {} => \E m \in T : \A k \in T : m <= k

\* What the counts rest on: facts about all sets (CountingHolds), a hypothesis
\* until they are proved from the library at the end.
Counting ==
    /\ EmptySet /\ Singleton /\ CardinalityType /\ AddElement /\ RemoveElement
    /\ Subset /\ Product /\ Interval /\ LeastNumber

\* What is chosen as the least free file, pipe or descriptor is one of them.
LEMMA MinIn ==
  ASSUME Counting, NEW S \in SUBSET Nat, S # {}
  PROVE  Min(S) \in S
<1>1. \E m \in S : \A k \in S : m <= k
  BY DEF Counting, LeastNumber
<1> QED BY <1>1, Zenon DEF Min

\* Induction over an interval, with a set in place of a predicate.
LEMMA Climb ==
  ASSUME Counting, NEW n \in Nat, NEW T \in SUBSET (0..n), 0 \in T,
         \A k \in 1..n : k - 1 \in T => k \in T
  PROVE  n \in T
<1> SUFFICES ASSUME n \notin T PROVE FALSE
  OBVIOUS
<1> DEFINE U == {k \in 0..n : k \notin T}
<1>1. U \in SUBSET Nat /\ U # {}
  OBVIOUS
<1>2. PICK m \in U : \A k \in U : m <= k
  BY <1>1, Zenon DEF Counting, LeastNumber
<1>3. m \in 1..n /\ m - 1 \in 0..n /\ ~(m <= m - 1)
  OBVIOUS
<1>4. m - 1 \in T
  BY <1>2, <1>3
<1> QED BY <1>3, <1>4

\* The loop of closing is what its equation says.
LEMMA ClosingDef ==
  ASSUME Counting, NEW o, NEW t, NEW locked
  PROVE  closing(o, t, locked) = [n \in 0..NOFILE |->
            IF n = 0 THEN o ELSE close_fd(closing(o, t, locked)[n - 1], t[n - 1], locked)]
<1> DEFINE body(g, m) ==
        [n \in 0..m |-> IF n = 0 THEN o ELSE close_fd(g[n - 1], t[n - 1], locked)]
<1> DEFINE fix(g, m) == g = body(g, m)
<1> DEFINE T == {m \in 0..NOFILE : \E g : fix(g, m)}
<1>0. NOFILE \in Nat
  BY SizesAssumption
<1>1. 0 \in T
  <2>1. fix([n \in 0..0 |-> o], 0)
    OBVIOUS
  <2> HIDE DEF fix
  <2> QED BY <1>0, <2>1
<1>2. ASSUME NEW m \in 1..NOFILE, m - 1 \in T PROVE m \in T
  <2>1. PICK g : fix(g, m - 1)
    BY <1>2
  <2> DEFINE h == [n \in 0..m |-> IF n < m THEN g[n] ELSE close_fd(g[m - 1], t[m - 1], locked)]
  <2>2. ASSUME NEW n \in 0..m
        PROVE  h[n] = IF n = 0 THEN o ELSE close_fd(h[n - 1], t[n - 1], locked)
    <3>1. CASE n = m
      BY <1>0, <3>1
    <3>2. CASE n < m
      <4>1. n \in 0..m - 1 /\ (n # 0 => n - 1 \in 0..m /\ n - 1 < m)
        BY <1>0, <3>2
      <4>2. g[n] = IF n = 0 THEN o ELSE close_fd(g[n - 1], t[n - 1], locked)
        BY <2>1, <4>1
      <4> QED BY <3>2, <4>1, <4>2
    <3> QED BY <1>0, <3>1, <3>2
  <2>3. fix(h, m)
    BY <2>2
  <2> HIDE DEF fix, h
  <2> QED BY <1>0, <2>3
<1>3. \E g : fix(g, NOFILE)
  <2>1. NOFILE \in T
    <3> HIDE DEF T
    <3>1. T \in SUBSET (0..NOFILE)
      BY DEF T
    <3> QED BY <1>0, <1>1, <1>2, <3>1, Climb
  <2> QED BY <2>1
<1> QED BY <1>3, Zenon DEF closing

\* Its steps.
LEMMA ClosingSteps ==
  ASSUME Counting, NEW o, NEW t, NEW locked
  PROVE  /\ closing(o, t, locked)[0] = o
         /\ \A n \in 1..NOFILE : closing(o, t, locked)[n] = close_fd(closing(o, t, locked)[n - 1], t[n - 1], locked)
<1> DEFINE C == closing(o, t, locked)
<1>1. C = [n \in 0..NOFILE |-> IF n = 0 THEN o ELSE close_fd(C[n - 1], t[n - 1], locked)]
  BY ClosingDef
<1> HIDE DEF C
<1>2. \A n \in 0..NOFILE : C[n] = IF n = 0 THEN o ELSE close_fd(C[n - 1], t[n - 1], locked)
  BY <1>1, Zenon
<1>3. 0 \in 0..NOFILE /\ \A n \in 1..NOFILE : n \in 0..NOFILE /\ n # 0
  BY SizesAssumption
<1>4. C[0] = o /\ \A n \in 1..NOFILE : C[n] = close_fd(C[n - 1], t[n - 1], locked)
  BY <1>2, <1>3
<1> QED BY <1>4 DEF C

\* The loop of duping is what its equation says.
LEMMA DupingDef ==
  ASSUME Counting, NEW o, NEW t
  PROVE  duping(o, t) = [n \in 0..NOFILE |->
            IF n = 0 THEN o ELSE dup_fd(duping(o, t)[n - 1], t[n - 1])]
<1> DEFINE body(g, m) ==
        [n \in 0..m |-> IF n = 0 THEN o ELSE dup_fd(g[n - 1], t[n - 1])]
<1> DEFINE fix(g, m) == g = body(g, m)
<1> DEFINE T == {m \in 0..NOFILE : \E g : fix(g, m)}
<1>0. NOFILE \in Nat
  BY SizesAssumption
<1>1. 0 \in T
  <2>1. fix([n \in 0..0 |-> o], 0)
    OBVIOUS
  <2> HIDE DEF fix
  <2> QED BY <1>0, <2>1
<1>2. ASSUME NEW m \in 1..NOFILE, m - 1 \in T PROVE m \in T
  <2>1. PICK g : fix(g, m - 1)
    BY <1>2
  <2> DEFINE h == [n \in 0..m |-> IF n < m THEN g[n] ELSE dup_fd(g[m - 1], t[m - 1])]
  <2>2. ASSUME NEW n \in 0..m
        PROVE  h[n] = IF n = 0 THEN o ELSE dup_fd(h[n - 1], t[n - 1])
    <3>1. CASE n = m
      BY <1>0, <3>1
    <3>2. CASE n < m
      <4>1. n \in 0..m - 1 /\ (n # 0 => n - 1 \in 0..m /\ n - 1 < m)
        BY <1>0, <3>2
      <4>2. g[n] = IF n = 0 THEN o ELSE dup_fd(g[n - 1], t[n - 1])
        BY <2>1, <4>1
      <4> QED BY <3>2, <4>1, <4>2
    <3> QED BY <1>0, <3>1, <3>2
  <2>3. fix(h, m)
    BY <2>2
  <2> HIDE DEF fix, h
  <2> QED BY <1>0, <2>3
<1>3. \E g : fix(g, NOFILE)
  <2>1. NOFILE \in T
    <3> HIDE DEF T
    <3>1. T \in SUBSET (0..NOFILE)
      BY DEF T
    <3> QED BY <1>0, <1>1, <1>2, <3>1, Climb
  <2> QED BY <2>1
<1> QED BY <1>3, Zenon DEF duping

\* Its steps.
LEMMA DupingSteps ==
  ASSUME Counting, NEW o, NEW t
  PROVE  /\ duping(o, t)[0] = o
         /\ \A n \in 1..NOFILE : duping(o, t)[n] = dup_fd(duping(o, t)[n - 1], t[n - 1])
<1> DEFINE C == duping(o, t)
<1>1. C = [n \in 0..NOFILE |-> IF n = 0 THEN o ELSE dup_fd(C[n - 1], t[n - 1])]
  BY DupingDef
<1> HIDE DEF C
<1>2. \A n \in 0..NOFILE : C[n] = IF n = 0 THEN o ELSE dup_fd(C[n - 1], t[n - 1])
  BY <1>1, Zenon
<1>3. 0 \in 0..NOFILE /\ \A n \in 1..NOFILE : n \in 0..NOFILE /\ n # 0
  BY SizesAssumption
<1>4. C[0] = o /\ \A n \in 1..NOFILE : C[n] = dup_fd(C[n - 1], t[n - 1])
  BY <1>2, <1>3
<1> QED BY <1>4 DEF C
-----------------------------------------------------------------------------
(* What the operations do to the tables.                                     *)

\* The kinds of files can be told apart.
LEMMA KindFacts ==
  /\ NoKind \in Kinds /\ DeviceKind \in Kinds /\ NoKind # DeviceKind
  /\ NoKind.tag = "None" /\ DeviceKind.tag = "Device"
  /\ \A i : InodeKind(i).tag = "Inode" /\ InodeKind(i).inode = i
  /\ \A x : PipeKind(x).tag = "Pipe" /\ PipeKind(x).pipe = x
  /\ \A i \in Inodes : InodeKind(i) \in Kinds
  /\ \A x \in Pipes : PipeKind(x) \in Kinds
<1>1. NoKind.tag = "None" /\ DeviceKind.tag = "Device"
  BY DEF NoKind, DeviceKind
<1>2. \A i : InodeKind(i).tag = "Inode" /\ InodeKind(i).inode = i
  BY DEF InodeKind
<1>3. \A x : PipeKind(x).tag = "Pipe" /\ PipeKind(x).pipe = x
  BY DEF PipeKind
<1>4. /\ NoKind \in Kinds /\ DeviceKind \in Kinds
      /\ \A i \in Inodes : InodeKind(i) \in Kinds
      /\ \A x \in Pipes : PipeKind(x) \in Kinds
  BY DEF Kinds
<1> QED BY <1>1, <1>2, <1>3, <1>4

\* A file that is not in use.
LEMMA UnusedFacts ==
  /\ UnusedFile \in FileRec /\ UnusedFile.refcnt = 0 /\ UnusedFile.kind = NoKind
  /\ ~UnusedFile.readable /\ ~UnusedFile.writable
BY KindFacts DEF UnusedFile, FileRec

\* Files with the same contents are the same.
LEMMA FileEq ==
  ASSUME NEW r \in FileRec, NEW s \in FileRec, r.refcnt = s.refcnt, r.kind = s.kind,
         r.readable <=> s.readable, r.writable <=> s.writable
  PROVE  r = s
<1>1. r.readable = s.readable /\ r.writable = s.writable
  BY Zenon DEF FileRec
<1> QED BY <1>1 DEF FileRec

\* Tables with the same contents are the same.
LEMMA ObjEq ==
  ASSUME NEW o \in Obj, NEW q \in Obj,
         o.file = q.file, o.pipe = q.pipe, o.iref = q.iref, o.panic <=> q.panic
  PROVE  o = q
<1>1. o.panic = q.panic
  BY Zenon DEF Obj
<1> QED BY <1>1 DEF Obj

\* The tables o with the parts given.
Built(o, file, pipe, iref) == [file |-> file, pipe |-> pipe, iref |-> iref, panic |-> o.panic]

\* Setting one entry of a part.
LEMMA SetPipe ==
  ASSUME NEW o \in Obj, NEW x \in Pipes, NEW y
  PROVE  [o EXCEPT !.pipe[x] = y] = Built(o, o.file, [o.pipe EXCEPT ![x] = y], o.iref)
BY DEF Obj, Built

\* A change of one reference count of an inode, as a whole record.
LEMMA SetIref ==
  ASSUME NEW o \in Obj, NEW i \in Inodes, NEW n
  PROVE  [o EXCEPT !.iref[i] = n] = Built(o, o.file, o.pipe, [o.iref EXCEPT ![i] = n])
BY DEF Obj, Built

\* An assertion that holds changes nothing.
LEMMA PanicNot ==
  ASSUME NEW o \in Obj, NEW ok \in BOOLEAN, ok
  PROVE  Panic(o, ok) = o
<1>1. (o.panic \/ ~ok) = o.panic
  BY Zenon DEF Obj
<1> QED BY <1>1 DEF Panic, Obj

Bumped(r, n) == [r EXCEPT !.refcnt = r.refcnt + n]

\* file::dup of an open file.
LEMMA DupGives ==
  ASSUME NEW o \in Obj, NEW f \in Files, o.file[f].refcnt > 0
  PROVE  file_dup(o, f) = Built(o, [o.file EXCEPT ![f] = Bumped(o.file[f], 1)], o.pipe, o.iref)
<1>1. Panic(o, o.file[f].refcnt > 0) = o
  BY PanicNot, Zenon
<1> QED BY <1>1 DEF file_dup, Built, Bumped, Obj

\* file::close of one of several references.
LEMMA CloseShared ==
  ASSUME NEW o \in Obj, NEW f \in Files, o.file[f].refcnt > 1, NEW locked
  PROVE  file_close(o, f, locked) =
            Built(o, [o.file EXCEPT ![f] = Bumped(o.file[f], -1)], o.pipe, o.iref)
<1>0. o.file[f].refcnt \in Nat
  BY DEF Obj, FileRec
<1>1. Panic(o, o.file[f].refcnt > 0) = o
  <2>1. o.file[f].refcnt > 0
    BY <1>0
  <2> QED BY <2>1, PanicNot, Zenon
<1>2. file_close(o, f, locked) = [o EXCEPT !.file[f].refcnt = @ - 1]
  BY <1>0, <1>1 DEF file_close
<1>3. o.file[f].refcnt - 1 = o.file[f].refcnt + (-1)
  BY <1>0
<1> QED BY <1>2, <1>3 DEF Built, Bumped, Obj

Dropped(o, f) == [o.file EXCEPT ![f] = UnusedFile]

\* A file slot that file::close has reset.
LEMMA DroppedIs ==
  ASSUME NEW o \in Obj, NEW f \in Files
  PROVE  /\ [o EXCEPT !.file[f] = UnusedFile] = Built(o, Dropped(o, f), o.pipe, o.iref)
         /\ Built(o, Dropped(o, f), o.pipe, o.iref) \in Obj
BY UnusedFacts DEF Built, Dropped, Obj

\* file::close of the last reference: to a device, or to a file that has not been
\* given a kind yet ...
LEMMA CloseLast ==
  ASSUME NEW o \in Obj, NEW f \in Files, o.file[f].refcnt = 1, NEW locked,
         o.file[f].kind = NoKind \/ o.file[f].kind = DeviceKind
  PROVE  file_close(o, f, locked) = Built(o, Dropped(o, f), o.pipe, o.iref)
<1>1. o.file[f].kind.tag # "Inode" /\ o.file[f].kind.tag # "Pipe"
  BY KindFacts
<1> QED BY <1>1, DroppedIs DEF file_close

Unheld(o, f, i) == Built(o, Dropped(o, f), o.pipe, [o.iref EXCEPT ![i] = o.iref[i] - 1])

\* ... to an inode ...
LEMMA CloseLastInode ==
  ASSUME NEW o \in Obj, NEW f \in Files, o.file[f].refcnt = 1, NEW locked,
         NEW i \in Inodes, o.file[f].kind = InodeKind(i), o.iref[i] >= 1
  PROVE  file_close(o, f, locked) = Unheld(o, f, i)
<1> DEFINE q == Built(o, Dropped(o, f), o.pipe, o.iref)
<1>1. o.file[f].kind.tag = "Inode" /\ o.file[f].kind.inode = i
  BY KindFacts
<1>2. q \in Obj /\ q = [o EXCEPT !.file[f] = UnusedFile] /\ q.iref = o.iref
      /\ q.file = Dropped(o, f) /\ q.pipe = o.pipe /\ q.panic = o.panic
  BY DroppedIs DEF Built
<1>3. file_close(o, f, locked) = iput(q, i)
  BY <1>1, <1>2 DEF file_close
<1> HIDE DEF q
<1>4. Panic(q, q.iref[i] >= 1) = q
  BY <1>2, PanicNot, Zenon
<1>5. iput(q, i) = [q EXCEPT !.iref[i] = q.iref[i] - 1]
  BY <1>4 DEF iput
<1>6. iput(q, i) = Built(q, q.file, q.pipe, [q.iref EXCEPT ![i] = q.iref[i] - 1])
  BY <1>2, <1>5, Zenon DEF Obj, Built
<1> QED BY <1>2, <1>3, <1>6 DEF Built, Unheld

\* What an end's closing leaves of a pipe.
Shut(y, wr) == [used |-> y.used /\ ((y.readopen /\ wr) \/ (y.writeopen /\ ~wr)),
                readopen |-> y.readopen /\ wr, writeopen |-> y.writeopen /\ ~wr]

Unpiped(o, f, x) ==
    Built(o, Dropped(o, f), [o.pipe EXCEPT ![x] = Shut(o.pipe[x], o.file[f].writable)], o.iref)

\* ... and to an end of a pipe, which is not done under p.lock.
LEMMA CloseLastPipe ==
  ASSUME NEW o \in Obj, NEW f \in Files, o.file[f].refcnt = 1,
         NEW x \in Pipes, o.file[f].kind = PipeKind(x)
  PROVE  file_close(o, f, FALSE) = Unpiped(o, f, x)
<1> DEFINE q == Built(o, Dropped(o, f), o.pipe, o.iref)
<1>1. o.file[f].kind.tag = "Pipe" /\ o.file[f].kind.pipe = x
  BY KindFacts
<1>2. q \in Obj /\ q = [o EXCEPT !.file[f] = UnusedFile] /\ q.iref = o.iref
      /\ q.file = Dropped(o, f) /\ q.pipe = o.pipe /\ q.panic = o.panic
  BY DroppedIs DEF Built
<1>3. file_close(o, f, FALSE) = pipe_close(q, x, o.file[f].writable, FALSE)
  BY <1>1, <1>2 DEF file_close
<1> HIDE DEF q
<1>4. Panic(q, ~FALSE) = q
  BY <1>2, PanicNot, Zenon
<1>5. pipe_close(q, x, o.file[f].writable, FALSE)
        = [q EXCEPT !.pipe[x] = Shut(q.pipe[x], o.file[f].writable)]
  BY <1>2, <1>4, Zenon DEF pipe_close, Shut, Obj
<1>6. pipe_close(q, x, o.file[f].writable, FALSE)
        = Built(q, q.file, [q.pipe EXCEPT ![x] = Shut(q.pipe[x], o.file[f].writable)], q.iref)
  BY <1>2, <1>5, Zenon DEF Obj, Built
<1> QED BY <1>2, <1>3, <1>6, Zenon DEF Built, Unpiped

\* Inodes referred to once more or once less.
LEMMA InodeGives ==
  ASSUME NEW o \in Obj, NEW i \in Inodes
  PROVE  /\ iget(o, i) = Built(o, o.file, o.pipe, [o.iref EXCEPT ![i] = o.iref[i] + 1])
         /\ o.iref[i] >= 1 => idup(o, i) = iget(o, i)
         /\ o.iref[i] >= 1 =>
              iput(o, i) = Built(o, o.file, o.pipe, [o.iref EXCEPT ![i] = o.iref[i] - 1])
<1>1. iget(o, i) = Built(o, o.file, o.pipe, [o.iref EXCEPT ![i] = o.iref[i] + 1])
  BY SetIref DEF iget
<1>2. ASSUME o.iref[i] >= 1
      PROVE  /\ idup(o, i) = iget(o, i)
             /\ iput(o, i) = Built(o, o.file, o.pipe, [o.iref EXCEPT ![i] = o.iref[i] - 1])
  <2>1. Panic(o, o.iref[i] >= 1) = o
    BY <1>2, PanicNot, Zenon
  <2>2. idup(o, i) = iget(o, i)
    BY <2>1 DEF idup, iget
  <2>3. iput(o, i) = [o EXCEPT !.iref[i] = o.iref[i] - 1]
    BY <2>1 DEF iput
  <2> QED BY <2>2, <2>3, SetIref
<1> QED BY <1>1, <1>2
-----------------------------------------------------------------------------
(* Counting descriptors.                                                     *)

\* Tables ot with v at descriptor fd of process p.
Set(ot, p, fd, v) == [ot EXCEPT ![p] = [ot[p] EXCEPT ![fd] = v]]

\* There are finitely many references to a file.
LEMMA RefsFinite ==
  ASSUME Counting, NEW ot, NEW f
  PROVE  IsFiniteSet(Refs(ot, f)) /\ Cardinality(Refs(ot, f)) \in Nat
<1>1. IsFiniteSet(Procs) /\ IsFiniteSet(Fds)
  <2>1. NPROC \in Int /\ NOFILE - 1 \in Int
    BY SizesAssumption
  <2> QED BY <2>1 DEF Counting, Interval, Procs, Fds
<1>2. IsFiniteSet(Procs \X Fds)
  BY <1>1 DEF Counting, Product
<1>3. Refs(ot, f) \in SUBSET (Procs \X Fds)
  BY DEF Refs
<1> QED BY <1>2, <1>3 DEF Counting, Subset, CardinalityType

\* Which references to f there are when one descriptor has changed.
LEMMA RefsSet ==
  ASSUME NEW ot \in Tables, NEW p \in Procs, NEW fd \in Fds, NEW v, NEW f
  PROVE  Refs(Set(ot, p, fd, v), f) =
            IF f = v THEN Refs(ot, f) \cup {<<p, fd>>} ELSE Refs(ot, f) \ {<<p, fd>>}
<1>1. ASSUME NEW a \in Procs, NEW b \in Fds
      PROVE  Set(ot, p, fd, v)[a][b] = IF <<a, b>> = <<p, fd>> THEN v ELSE ot[a][b]
  BY DEF Set, Tables
<1>2. ASSUME NEW d \in Procs \X Fds
      PROVE  Set(ot, p, fd, v)[d[1]][d[2]] = IF d = <<p, fd>> THEN v ELSE ot[d[1]][d[2]]
  <2>1. PICK a \in Procs, b \in Fds : d = <<a, b>>
    OBVIOUS
  <2> QED BY <1>1, <2>1
<1>3. <<p, fd>> \in Procs \X Fds
  OBVIOUS
<1> QED BY <1>2, <1>3 DEF Refs

\* A descriptor that referred to f is closed.
LEMMA RefsLess ==
  ASSUME Counting, NEW ot \in Tables, NEW p \in Procs, NEW fd \in Fds, NEW f \in Files,
         ot[p][fd] = f
  PROVE  /\ Cardinality(Refs(Set(ot, p, fd, Null), f)) = Cardinality(Refs(ot, f)) - 1
         /\ \A g \in Files \ {f} : Refs(Set(ot, p, fd, Null), g) = Refs(ot, g)
         /\ Cardinality(Refs(ot, f)) \in Nat /\ Cardinality(Refs(ot, f)) >= 1
<1>1. \A g \in Files : g # Null
  BY DEF Files, Null
<1>2. <<p, fd>> \in Refs(ot, f) /\ \A g \in Files \ {f} : <<p, fd>> \notin Refs(ot, g)
  BY DEF Refs
<1>3. \A g \in Files : Refs(Set(ot, p, fd, Null), g) = Refs(ot, g) \ {<<p, fd>>}
  BY <1>1, RefsSet
<1>4. Cardinality(Refs(ot, f) \ {<<p, fd>>}) = Cardinality(Refs(ot, f)) - 1
      /\ Cardinality(Refs(ot, f) \ {<<p, fd>>}) \in Nat
  BY <1>2, RefsFinite DEF Counting, RemoveElement, CardinalityType
<1>5. Cardinality(Refs(ot, f)) \in Nat
  BY RefsFinite
<1>6. Cardinality(Refs(ot, f)) >= 1
  BY <1>4, <1>5
<1>7. \A g \in Files \ {f} : Refs(Set(ot, p, fd, Null), g) = Refs(ot, g)
  BY <1>2, <1>3
<1> QED BY <1>3, <1>4, <1>5, <1>6, <1>7, Zenon

\* A free descriptor is set to f.
LEMMA RefsMore ==
  ASSUME Counting, NEW ot \in Tables, NEW p \in Procs, NEW fd \in Fds, NEW f \in Files,
         ot[p][fd] = Null
  PROVE  /\ Cardinality(Refs(Set(ot, p, fd, f), f)) = Cardinality(Refs(ot, f)) + 1
         /\ \A g \in Files \ {f} : Refs(Set(ot, p, fd, f), g) = Refs(ot, g)
<1>1. \A g \in Files : g # Null
  BY DEF Files, Null
<1>2. \A g \in Files : <<p, fd>> \notin Refs(ot, g)
  BY <1>1 DEF Refs
<1>3. /\ Refs(Set(ot, p, fd, f), f) = Refs(ot, f) \cup {<<p, fd>>}
      /\ \A g \in Files \ {f} : Refs(Set(ot, p, fd, f), g) = Refs(ot, g) \ {<<p, fd>>}
  BY RefsSet
<1>4. Cardinality(Refs(ot, f) \cup {<<p, fd>>}) = Cardinality(Refs(ot, f)) + 1
  BY <1>2, RefsFinite, Zenon DEF Counting, AddElement
<1> QED BY <1>2, <1>3, <1>4
-----------------------------------------------------------------------------
(* The invariant of the tables, one descriptor at a time.                    *)

\* The files' kinds and modes are those of o.
SameKinds(o, file) ==
    \A f \in Files : /\ file[f].kind = o.file[f].kind
                     /\ file[f].readable = o.file[f].readable
                     /\ file[f].writable = o.file[f].writable

\* A pipe whose entry and whose files' modes stay as they are.
LEMMA PipeSame ==
  ASSUME NEW o, NEW q, NEW x, PipeOK(o, x), Ends(q, x) = Ends(o, x), q.pipe[x] = o.pipe[x],
         \A f \in Ends(o, x) : /\ q.file[f].readable = o.file[f].readable
                               /\ q.file[f].writable = o.file[f].writable
  PROVE  PipeOK(q, x)
<1>1. \A f \in Ends(q, x) : q.file[f].readable <=> ~q.file[f].writable
  BY Zenon DEF PipeOK
<1>2. \A f, g \in Ends(q, x) : (q.file[f].writable <=> q.file[g].writable) => f = g
  BY Zenon DEF PipeOK
<1>3. /\ q.pipe[x].readopen <=> \E f \in Ends(q, x) : q.file[f].readable
      /\ q.pipe[x].writeopen <=> \E f \in Ends(q, x) : q.file[f].writable
      /\ q.pipe[x].used <=> (q.pipe[x].readopen \/ q.pipe[x].writeopen)
  BY Zenon DEF PipeOK
<1> QED BY <1>1, <1>2, <1>3 DEF PipeOK

\* Pipes and inodes do not depend on how often a file is referred to.
LEMMA KindsKeep ==
  ASSUME NEW o \in Obj, NEW file, SameKinds(o, file), NEW cw, NEW ps
  PROVE  LET q == Built(o, file, o.pipe, o.iref)
         IN  /\ PipesOK(o) => PipesOK(q)
             /\ Counted(o, cw, ps) => Counted(q, cw, ps)
<1> DEFINE q == Built(o, file, o.pipe, o.iref)
<1>1. q.file = file /\ q.pipe = o.pipe /\ q.iref = o.iref
  BY DEF Built
<1> HIDE DEF q
<1>2. \A x : Ends(q, x) = Ends(o, x)
  BY <1>1 DEF SameKinds, Ends
<1>3. \A i : Held(q, i) = Held(o, i)
  BY <1>1 DEF SameKinds, Held
<1>4. Counted(o, cw, ps) => Counted(q, cw, ps)
  BY <1>1, <1>3 DEF Counted
<1>5. ASSUME NEW x \in Pipes, PipeOK(o, x)
      PROVE  PipeOK(q, x)
  <2>1. \A f \in Ends(o, x) : /\ q.file[f].readable = o.file[f].readable
                              /\ q.file[f].writable = o.file[f].writable
    BY <1>1 DEF SameKinds, Ends
  <2> QED BY <1>1, <1>2, <1>5, <2>1, PipeSame
<1>6. PipesOK(o) => PipesOK(q)
  BY <1>5 DEF PipesOK
<1> QED BY <1>4, <1>6 DEF q

\* q has the files of o, but for file f, which is r.
Changed(o, q, f, r) == q.file = [o.file EXCEPT ![f] = r]

\* What a pipe and an inode are referred to by when one file has changed.
LEMMA ChangedSets ==
  ASSUME NEW o \in Obj, NEW q, NEW f \in Files, NEW r, Changed(o, q, f, r)
  PROVE  /\ q.file[f] = r /\ \A g \in Files \ {f} : q.file[g] = o.file[g]
         /\ \A i : Held(q, i) = IF r.kind = InodeKind(i) THEN Held(o, i) \cup {f}
                                                         ELSE Held(o, i) \ {f}
         /\ \A x : Ends(q, x) = IF r.kind = PipeKind(x) THEN Ends(o, x) \cup {f}
                                                        ELSE Ends(o, x) \ {f}
<1>1. q.file[f] = r /\ \A g \in Files \ {f} : q.file[g] = o.file[g]
  BY DEF Changed, Obj
<1> QED BY <1>1 DEF Held, Ends

\* The count of the changed file is right if it agrees with the new descriptors.
LEMMA ChangedCount ==
  ASSUME NEW o \in Obj, NEW q, NEW f \in Files, NEW r, Changed(o, q, f, r),
         NEW ot, NEW nt, FilesOK(o, ot),
         r.refcnt = Cardinality(Refs(nt, f)), r.refcnt = 0 => r = UnusedFile,
         \A g \in Files \ {f} : Refs(nt, g) = Refs(ot, g)
  PROVE  FilesOK(q, nt)
<1>1. q.file[f] = r /\ \A g \in Files \ {f} : q.file[g] = o.file[g]
  BY ChangedSets
<1> QED BY <1>1 DEF FilesOK

\* The owners of an inode are finitely many.
LEMMA OwnersFinite ==
  ASSUME Counting, NEW o, NEW i, NEW cw, NEW ps
  PROVE  /\ IsFiniteSet(Held(o, i)) /\ Cardinality(Held(o, i)) \in Nat
         /\ IsFiniteSet(Here(cw, ps, i)) /\ Cardinality(Here(cw, ps, i)) \in Nat
<1>1. IsFiniteSet(Files) /\ IsFiniteSet(Procs)
  <2>1. NPROC \in Int /\ NFILE \in Int
    BY SizesAssumption
  <2> QED BY <2>1 DEF Counting, Interval, Procs, Files
<1>2. Held(o, i) \in SUBSET Files /\ Here(cw, ps, i) \in SUBSET Procs
  BY DEF Held, Here
<1> QED BY <1>1, <1>2 DEF Counting, Subset, CardinalityType

\* Tables with new parts of the right type are tables.
LEMMA BuiltFacts ==
  ASSUME NEW o \in Obj, NEW file \in [Files -> FileRec], NEW pipe \in [Pipes -> PipeRec],
         NEW iref \in [Inodes -> Nat]
  PROVE  /\ Built(o, file, pipe, iref) \in Obj
         /\ Built(o, file, pipe, iref).file = file
         /\ Built(o, file, pipe, iref).pipe = pipe
         /\ Built(o, file, pipe, iref).iref = iref
         /\ Built(o, file, pipe, iref).panic = o.panic
BY DEF Built, Obj

\* Entries with new parts of the right type.
LEMMA BumpedFacts ==
  ASSUME NEW r \in FileRec, NEW n \in Int, r.refcnt + n \in Nat
  PROVE  /\ Bumped(r, n) \in FileRec /\ Bumped(r, n).refcnt = r.refcnt + n
         /\ Bumped(r, n).kind = r.kind
         /\ Bumped(r, n).readable = r.readable /\ Bumped(r, n).writable = r.writable
BY DEF Bumped, FileRec

\* Closing one of several references keeps the tables in order.
LEMMA CloseOneShared ==
  ASSUME Counting, NEW o, NEW ot \in Tables, NEW cw, NEW ps, Good(o, ot, cw, ps),
         NEW p \in Procs, NEW fd \in Fds, NEW f \in Files, ot[p][fd] = f,
         o.file[f].refcnt # 1
  PROVE  Good(file_close(o, f, FALSE), Set(ot, p, fd, Null), cw, ps)
<1> DEFINE r == Bumped(o.file[f], -1)
           file == [o.file EXCEPT ![f] = r]
           q == Built(o, file, o.pipe, o.iref)
<1>1. o \in Obj /\ ~o.panic /\ FilesOK(o, ot) /\ PipesOK(o) /\ Counted(o, cw, ps)
  BY DEF Good
<1>2. o.file \in [Files -> FileRec] /\ o.pipe \in [Pipes -> PipeRec]
      /\ o.iref \in [Inodes -> Nat] /\ o.file[f] \in FileRec /\ o.file[f].refcnt \in Nat
  BY <1>1 DEF Obj, FileRec
<1>3. /\ o.file[f].refcnt = Cardinality(Refs(ot, f)) /\ o.file[f].refcnt > 1
      /\ o.file[f].refcnt + (-1) \in Nat /\ o.file[f].refcnt + (-1) # 0
      /\ o.file[f].refcnt + (-1) = Cardinality(Refs(ot, f)) - 1
  <2>1. o.file[f].refcnt = Cardinality(Refs(ot, f))
    BY <1>1 DEF FilesOK
  <2>2. Cardinality(Refs(ot, f)) >= 1
    BY RefsLess
  <2> QED BY <1>2, <2>1, <2>2
<1>4. file_close(o, f, FALSE) = q
  BY <1>1, <1>3, CloseShared, Zenon
<1>5. r \in FileRec /\ r.refcnt = Cardinality(Refs(ot, f)) - 1 /\ r.refcnt # 0
      /\ r.kind = o.file[f].kind /\ r.readable = o.file[f].readable
      /\ r.writable = o.file[f].writable
  BY <1>2, <1>3, BumpedFacts
<1> HIDE DEF r
<1>6. file \in [Files -> FileRec] /\ SameKinds(o, file)
  BY <1>2, <1>5 DEF SameKinds
<1>7. PipesOK(q) /\ Counted(q, cw, ps)
  <2> HIDE DEF file
  <2> QED BY <1>1, <1>6, KindsKeep
<1>8. q \in Obj /\ ~q.panic /\ Changed(o, q, f, r)
  <2>1. q \in Obj /\ q.file = file /\ q.panic = o.panic
    <3> HIDE DEF file
    <3> QED BY <1>1, <1>2, <1>6, BuiltFacts
  <2> QED BY <1>1, <2>1, Zenon DEF Changed
<1> HIDE DEF q
<1>9. FilesOK(q, Set(ot, p, fd, Null))
  <2>1. /\ Cardinality(Refs(Set(ot, p, fd, Null), f)) = Cardinality(Refs(ot, f)) - 1
        /\ \A g \in Files \ {f} : Refs(Set(ot, p, fd, Null), g) = Refs(ot, g)
    BY RefsLess
  <2>2. r.refcnt = Cardinality(Refs(Set(ot, p, fd, Null), f)) /\ (r.refcnt = 0 => r = UnusedFile)
    BY <1>5, <2>1
  <2>3. q.file[f] = r /\ \A g \in Files \ {f} : q.file[g] = o.file[g]
    BY <1>1, <1>8, ChangedSets
  <2> QED BY <1>1, <2>1, <2>2, <2>3, Zenon DEF FilesOK
<1> QED BY <1>4, <1>7, <1>8, <1>9, Zenon DEF Good

\* What is left of the files of o in q when nothing in nt refers to f any more.
Left(o, q, f, nt) ==
    /\ FilesOK(q, nt)
    /\ \A i : Held(q, i) = Held(o, i) \ {f}
    /\ \A x : Ends(q, x) = Ends(o, x) \ {f}
    /\ \A g \in Files \ {f} : q.file[g] = o.file[g]

\* The last reference to f is closed.
LEMMA DropFile ==
  ASSUME Counting, NEW o, NEW ot \in Tables, NEW cw, NEW ps, Good(o, ot, cw, ps),
         NEW p \in Procs, NEW fd \in Fds, NEW f \in Files, ot[p][fd] = f,
         o.file[f].refcnt = 1, NEW q, Changed(o, q, f, UnusedFile)
  PROVE  Left(o, q, f, Set(ot, p, fd, Null))
<1>1. o \in Obj /\ FilesOK(o, ot)
  BY DEF Good
<1>2. /\ Cardinality(Refs(Set(ot, p, fd, Null), f)) = 0
      /\ \A g \in Files \ {f} : Refs(Set(ot, p, fd, Null), g) = Refs(ot, g)
  <2>1. Cardinality(Refs(ot, f)) = 1
    BY <1>1 DEF FilesOK
  <2> QED BY <2>1, RefsLess
<1>3. FilesOK(q, Set(ot, p, fd, Null))
  BY <1>1, <1>2, UnusedFacts, ChangedCount
<1>4. \A i : NoKind # InodeKind(i) /\ NoKind # PipeKind(i)
  BY KindFacts
<1> QED BY <1>1, <1>3, <1>4, UnusedFacts, ChangedSets DEF Left

\* Taking away what is not there.
LEMMA MinusOther ==
  ASSUME NEW S, NEW f, f \notin S
  PROVE  S \ {f} = S
OBVIOUS

\* The last reference to a device is closed.
LEMMA CloseOneDevice ==
  ASSUME Counting, NEW o, NEW ot \in Tables, NEW cw, NEW ps, Good(o, ot, cw, ps),
         NEW p \in Procs, NEW fd \in Fds, NEW f \in Files, ot[p][fd] = f,
         o.file[f].refcnt = 1, o.file[f].kind = NoKind \/ o.file[f].kind = DeviceKind
  PROVE  Good(file_close(o, f, FALSE), Set(ot, p, fd, Null), cw, ps)
<1> DEFINE q == Built(o, Dropped(o, f), o.pipe, o.iref)
<1>1. o \in Obj /\ ~o.panic /\ FilesOK(o, ot) /\ PipesOK(o) /\ Counted(o, cw, ps)
  BY DEF Good
<1>2. file_close(o, f, FALSE) = q
  BY <1>1, CloseLast, Zenon
<1>3. /\ q \in Obj /\ ~q.panic /\ q.pipe = o.pipe /\ q.iref = o.iref
      /\ Changed(o, q, f, UnusedFile)
  BY <1>1, DroppedIs, Zenon DEF Built, Dropped, Changed
<1> HIDE DEF q
<1>4. /\ FilesOK(q, Set(ot, p, fd, Null))
      /\ \A i : Held(q, i) = Held(o, i) \ {f}
      /\ \A x : Ends(q, x) = Ends(o, x) \ {f}
      /\ \A g \in Files \ {f} : q.file[g] = o.file[g]
  <2>1. Left(o, q, f, Set(ot, p, fd, Null))
    BY <1>3, DropFile
  <2> QED BY <2>1 DEF Left
<1>5. \A i : f \notin Held(o, i) /\ f \notin Ends(o, i)
  BY KindFacts DEF Held, Ends
<1>6. Counted(q, cw, ps)
  <2>1. \A i : Held(q, i) = Held(o, i)
    BY <1>4, <1>5
  <2> QED BY <1>1, <1>3, <2>1 DEF Counted
<1>7. ASSUME NEW x \in Pipes PROVE PipeOK(q, x)
  <2>1. Ends(q, x) = Ends(o, x) /\ PipeOK(o, x) /\ q.pipe[x] = o.pipe[x]
    BY <1>1, <1>3, <1>4, <1>5, SMTT(30) DEF PipesOK
  <2>2. \A g \in Ends(o, x) : q.file[g] = o.file[g]
    BY <1>4, <1>5 DEF Ends
  <2> QED BY <2>1, <2>2, PipeSame
<1> QED BY <1>2, <1>3, <1>4, <1>6, <1>7, Zenon DEF Good, PipesOK

\* The last reference to a file on disk is closed: its inode has one owner less.
LEMMA CloseOneInode ==
  ASSUME Counting, NEW o, NEW ot \in Tables, NEW cw, NEW ps, Good(o, ot, cw, ps),
         NEW p \in Procs, NEW fd \in Fds, NEW f \in Files, ot[p][fd] = f,
         o.file[f].refcnt = 1, NEW j \in Inodes, o.file[f].kind = InodeKind(j)
  PROVE  Good(file_close(o, f, FALSE), Set(ot, p, fd, Null), cw, ps)
<1> DEFINE iref == [o.iref EXCEPT ![j] = o.iref[j] - 1]
           q == Built(o, Dropped(o, f), o.pipe, iref)
<1>1. o \in Obj /\ ~o.panic /\ FilesOK(o, ot) /\ PipesOK(o) /\ Counted(o, cw, ps)
  BY DEF Good
<1>2. o.iref \in [Inodes -> Nat] /\ o.pipe \in [Pipes -> PipeRec] /\ o.file \in [Files -> FileRec]
  BY <1>1 DEF Obj
<1>3. f \in Held(o, j) /\ (\A i : i # j => f \notin Held(o, i)) /\ \A x : f \notin Ends(o, x)
  BY KindFacts DEF Held, Ends
<1>4. /\ Cardinality(Held(o, j) \ {f}) = Cardinality(Held(o, j)) - 1
      /\ Cardinality(Held(o, j)) \in Nat /\ Cardinality(Held(o, j)) >= 1
      /\ Cardinality(Here(cw, ps, j)) \in Nat
  <2>1. IsFiniteSet(Held(o, j)) /\ Cardinality(Held(o, j)) \in Nat
        /\ Cardinality(Here(cw, ps, j)) \in Nat
    BY OwnersFinite
  <2>2. /\ Cardinality(Held(o, j) \ {f}) = Cardinality(Held(o, j)) - 1
        /\ Cardinality(Held(o, j) \ {f}) \in Nat
    BY <1>3, <2>1 DEF Counting, RemoveElement, CardinalityType
  <2> QED BY <2>1, <2>2
<1>5. o.iref[j] >= 1 /\ o.iref[j] \in Nat
  BY <1>1, <1>2, <1>4 DEF Counted
<1>6. file_close(o, f, FALSE) = q
  BY <1>1, <1>5, CloseLastInode, Zenon DEF Unheld
<1>7. iref \in [Inodes -> Nat]
  BY <1>2, <1>5
<1>8. /\ q \in Obj /\ ~q.panic /\ q.pipe = o.pipe /\ q.iref = iref
      /\ Changed(o, q, f, UnusedFile)
  <2>1. Dropped(o, f) \in [Files -> FileRec]
    BY <1>2, UnusedFacts DEF Dropped
  <2> HIDE DEF iref
  <2>2. q \in Obj /\ q.file = Dropped(o, f) /\ q.pipe = o.pipe /\ q.iref = iref /\ q.panic = o.panic
    BY <1>1, <1>2, <1>7, <2>1, BuiltFacts
  <2> QED BY <1>1, <2>2, Zenon DEF Dropped, Changed
<1> HIDE DEF q
<1>9. /\ FilesOK(q, Set(ot, p, fd, Null))
      /\ \A i : Held(q, i) = Held(o, i) \ {f}
      /\ \A x : Ends(q, x) = Ends(o, x) \ {f}
      /\ \A g \in Files \ {f} : q.file[g] = o.file[g]
  <2>1. Left(o, q, f, Set(ot, p, fd, Null))
    BY <1>8, DropFile
  <2> QED BY <2>1 DEF Left
<1>10. ASSUME NEW i \in Inodes
       PROVE  /\ q.iref[i] >= Cardinality(Held(q, i)) + Cardinality(Here(cw, ps, i))
              /\ i # Root => q.iref[i] = Cardinality(Held(q, i)) + Cardinality(Here(cw, ps, i))
  <2>1. CASE i = j
    <3>1. /\ q.iref[i] = o.iref[j] - 1
          /\ Cardinality(Held(q, i)) = Cardinality(Held(o, j)) - 1
      BY <1>2, <1>4, <1>8, <1>9, <2>1, Zenon
    <3>2. /\ o.iref[j] >= Cardinality(Held(o, j)) + Cardinality(Here(cw, ps, j))
          /\ j # Root => o.iref[j] = Cardinality(Held(o, j)) + Cardinality(Here(cw, ps, j))
      BY <1>1 DEF Counted
    <3> QED BY <1>4, <1>5, <2>1, <3>1, <3>2
  <2>2. CASE i # j
    <3>1. q.iref[i] = o.iref[i]
      BY <1>2, <1>8, <2>2
    <3>2. Held(q, i) = Held(o, i)
      <4>1. f \notin Held(o, i) /\ Held(q, i) = Held(o, i) \ {f}
        BY <1>3, <1>9, <2>2
      <4> QED BY <4>1
    <3> QED BY <1>1, <3>1, <3>2 DEF Counted
  <2> QED BY <2>1, <2>2
<1>11. ASSUME NEW x \in Pipes PROVE PipeOK(q, x)
  <2>1. Ends(q, x) = Ends(o, x) /\ PipeOK(o, x) /\ q.pipe[x] = o.pipe[x]
    BY <1>1, <1>3, <1>8, <1>9, MinusOther, Zenon DEF PipesOK
  <2>2. \A g \in Ends(o, x) : q.file[g] = o.file[g]
    BY <1>3, <1>9 DEF Ends
  <2> QED BY <2>1, <2>2, PipeSame
<1> QED BY <1>6, <1>8, <1>9, <1>10, <1>11, Zenon DEF Good, PipesOK, Counted

\* The last reference to an end of a pipe is closed: that end is shut, the other
\* is not, and the pipe is free when both are.
LEMMA CloseOnePipe ==
  ASSUME Counting, NEW o, NEW ot \in Tables, NEW cw, NEW ps, Good(o, ot, cw, ps),
         NEW p \in Procs, NEW fd \in Fds, NEW f \in Files, ot[p][fd] = f,
         o.file[f].refcnt = 1, NEW y \in Pipes, o.file[f].kind = PipeKind(y)
  PROVE  Good(file_close(o, f, FALSE), Set(ot, p, fd, Null), cw, ps)
<1> DEFINE s == Shut(o.pipe[y], o.file[f].writable)
           pipe == [o.pipe EXCEPT ![y] = s]
           q == Built(o, Dropped(o, f), pipe, o.iref)
<1>1. o \in Obj /\ ~o.panic /\ FilesOK(o, ot) /\ PipesOK(o) /\ Counted(o, cw, ps)
  BY DEF Good
<1>2. o.iref \in [Inodes -> Nat] /\ o.pipe \in [Pipes -> PipeRec] /\ o.file \in [Files -> FileRec]
  BY <1>1 DEF Obj
<1>3. f \in Ends(o, y) /\ (\A x : x # y => f \notin Ends(o, x)) /\ \A i : f \notin Held(o, i)
  BY KindFacts DEF Held, Ends
<1>4. file_close(o, f, FALSE) = q
  BY <1>1, CloseLastPipe, Zenon DEF Unpiped
<1>5. /\ s \in PipeRec
      /\ s.readopen <=> o.pipe[y].readopen /\ o.file[f].writable
      /\ s.writeopen <=> o.pipe[y].writeopen /\ ~o.file[f].writable
      /\ s.used <=> o.pipe[y].used /\ (s.readopen \/ s.writeopen)
  <2>1. o.pipe[y] \in PipeRec /\ o.file[f] \in FileRec
    BY <1>2
  <2>2. s \in PipeRec
    BY <2>1 DEF Shut, PipeRec, FileRec
  <2> QED BY <2>2, Zenon DEF Shut
<1> HIDE DEF s
<1>6. pipe \in [Pipes -> PipeRec] /\ pipe[y] = s /\ \A x \in Pipes : x # y => pipe[x] = o.pipe[x]
  BY <1>2, <1>5
<1>7. /\ q \in Obj /\ ~q.panic /\ q.pipe = pipe /\ q.iref = o.iref
      /\ Changed(o, q, f, UnusedFile)
  <2>1. Dropped(o, f) \in [Files -> FileRec]
    BY <1>2, UnusedFacts DEF Dropped
  <2> HIDE DEF pipe
  <2>2. q \in Obj /\ q.file = Dropped(o, f) /\ q.pipe = pipe /\ q.iref = o.iref /\ q.panic = o.panic
    BY <1>1, <1>2, <1>6, <2>1, BuiltFacts
  <2> QED BY <1>1, <2>2, Zenon DEF Dropped, Changed
<1> HIDE DEF q
<1>8. /\ FilesOK(q, Set(ot, p, fd, Null))
      /\ \A i : Held(q, i) = Held(o, i) \ {f}
      /\ \A x : Ends(q, x) = Ends(o, x) \ {f}
      /\ \A g \in Files \ {f} : q.file[g] = o.file[g]
  <2>1. Left(o, q, f, Set(ot, p, fd, Null))
    BY <1>7, DropFile
  <2> QED BY <2>1 DEF Left
<1>9. Counted(q, cw, ps)
  <2>1. \A i : Held(q, i) = Held(o, i)
    BY <1>3, <1>8, MinusOther, ZenonT(30)
  <2> QED BY <1>1, <1>7, <2>1 DEF Counted
<1>10. ASSUME NEW x \in Pipes, x # y PROVE PipeOK(q, x)
  <2>0. f \notin Ends(o, x) /\ Ends(q, x) = Ends(o, x) \ {f}
    BY <1>3, <1>8, <1>10
  <2>1. Ends(q, x) = Ends(o, x) /\ PipeOK(o, x) /\ q.pipe[x] = o.pipe[x]
    BY <1>1, <1>6, <1>7, <1>10, <2>0 DEF PipesOK
  <2>2. \A g \in Ends(o, x) : q.file[g] = o.file[g]
    BY <1>3, <1>8, <1>10 DEF Ends
  <2> QED BY <2>1, <2>2, PipeSame
<1>11. PipeOK(q, y)
  <2>1. PipeOK(o, y) /\ q.pipe[y] = s
    BY <1>1, <1>6, <1>7 DEF PipesOK
  <2>2. \A g \in Ends(q, y) : g \in Ends(o, y) /\ g # f /\ q.file[g] = o.file[g]
    BY <1>8 DEF Ends
  <2>3. \A g \in Ends(o, y) : g # f => g \in Ends(q, y)
    BY <1>8
  <2>4. /\ \A g \in Ends(q, y) : q.file[g].readable <=> ~q.file[g].writable
        /\ \A g, h \in Ends(q, y) : (q.file[g].writable <=> q.file[h].writable) => g = h
    BY <2>1, <2>2, ZenonT(30) DEF PipeOK
  <2>5. s.readopen <=> \E g \in Ends(q, y) : q.file[g].readable
    BY <1>3, <1>5, <2>1, <2>2, <2>3, Zenon DEF PipeOK
  <2>6. s.writeopen <=> \E g \in Ends(q, y) : q.file[g].writable
    BY <1>3, <1>5, <2>1, <2>2, <2>3, Zenon DEF PipeOK
  <2>7. s.used <=> (s.readopen \/ s.writeopen)
    BY <1>5, <2>1, Zenon DEF PipeOK
  <2> QED BY <2>1, <2>4, <2>5, <2>6, <2>7 DEF PipeOK
<1> QED BY <1>4, <1>7, <1>8, <1>9, <1>10, <1>11, Zenon DEF Good, PipesOK

\* Closing a descriptor keeps the tables in order.
LEMMA CloseOne ==
  ASSUME Counting, NEW o, NEW ot \in Tables, NEW cw, NEW ps, Good(o, ot, cw, ps),
         NEW p \in Procs, NEW fd \in Fds, NEW f \in Files, ot[p][fd] = f
  PROVE  Good(file_close(o, f, FALSE), Set(ot, p, fd, Null), cw, ps)
<1>1. o.file[f].kind \in Kinds
  BY DEF Good, Obj, FileRec
<1>2. CASE o.file[f].refcnt # 1
  BY <1>2, CloseOneShared, Zenon
<1>3. CASE o.file[f].refcnt = 1 /\ (o.file[f].kind = NoKind \/ o.file[f].kind = DeviceKind)
  BY <1>3, CloseOneDevice, Zenon
<1>4. CASE o.file[f].refcnt = 1 /\ \E j \in Inodes : o.file[f].kind = InodeKind(j)
  BY <1>4, CloseOneInode, Zenon
<1>5. CASE o.file[f].refcnt = 1 /\ \E y \in Pipes : o.file[f].kind = PipeKind(y)
  BY <1>5, CloseOnePipe, Zenon
<1> QED BY <1>1, <1>2, <1>3, <1>4, <1>5, Zenon DEF Kinds

\* Referring to an open file once more keeps the tables in order.
LEMMA DupOne ==
  ASSUME Counting, NEW o, NEW ot \in Tables, NEW cw, NEW ps, Good(o, ot, cw, ps),
         NEW p \in Procs, NEW fd \in Fds, NEW f \in Files, ot[p][fd] = Null,
         o.file[f].refcnt > 0
  PROVE  Good(file_dup(o, f), Set(ot, p, fd, f), cw, ps)
<1> DEFINE r == Bumped(o.file[f], 1)
           file == [o.file EXCEPT ![f] = r]
           q == Built(o, file, o.pipe, o.iref)
<1>1. o \in Obj /\ ~o.panic /\ FilesOK(o, ot) /\ PipesOK(o) /\ Counted(o, cw, ps)
  BY DEF Good
<1>2. o.file \in [Files -> FileRec] /\ o.pipe \in [Pipes -> PipeRec]
      /\ o.iref \in [Inodes -> Nat] /\ o.file[f] \in FileRec /\ o.file[f].refcnt \in Nat
  BY <1>1 DEF Obj, FileRec
<1>3. /\ o.file[f].refcnt = Cardinality(Refs(ot, f))
      /\ o.file[f].refcnt + 1 \in Nat /\ o.file[f].refcnt + 1 # 0
  BY <1>1, <1>2 DEF FilesOK
<1>4. file_dup(o, f) = q
  BY <1>1, DupGives
<1>5. r \in FileRec /\ r.refcnt = Cardinality(Refs(ot, f)) + 1 /\ r.refcnt # 0
      /\ r.kind = o.file[f].kind /\ r.readable = o.file[f].readable
      /\ r.writable = o.file[f].writable
  BY <1>2, <1>3, BumpedFacts
<1> HIDE DEF r
<1>6. file \in [Files -> FileRec] /\ SameKinds(o, file)
  BY <1>2, <1>5 DEF SameKinds
<1>7. PipesOK(q) /\ Counted(q, cw, ps)
  <2> HIDE DEF file
  <2> QED BY <1>1, <1>6, KindsKeep
<1>8. q \in Obj /\ ~q.panic /\ Changed(o, q, f, r)
  <2>1. q \in Obj /\ q.file = file /\ q.panic = o.panic
    <3> HIDE DEF file
    <3>1. q.file = file /\ q.panic = o.panic
      BY Zenon DEF Built
    <3>2. Built(o, file, o.pipe, o.iref) \in Obj
      BY <1>1, <1>2, <1>6, BuiltFacts, Zenon
    <3> QED BY <3>1, <3>2, Zenon
  <2> QED BY <1>1, <2>1, Zenon DEF Changed
<1> HIDE DEF q
<1>9. FilesOK(q, Set(ot, p, fd, f))
  <2>1. /\ Cardinality(Refs(Set(ot, p, fd, f), f)) = Cardinality(Refs(ot, f)) + 1
        /\ \A g \in Files \ {f} : Refs(Set(ot, p, fd, f), g) = Refs(ot, g)
    BY RefsMore
  <2>2. r.refcnt = Cardinality(Refs(Set(ot, p, fd, f), f)) /\ (r.refcnt = 0 => r = UnusedFile)
    BY <1>5, <2>1
  <2>3. q.file[f] = r /\ \A g \in Files \ {f} : q.file[g] = o.file[g]
    BY <1>2, <1>8 DEF Changed
  <2> QED BY <1>1, <2>1, <2>2, <2>3 DEF FilesOK
<1> QED BY <1>4, <1>7, <1>8, <1>9 DEF Good
-----------------------------------------------------------------------------
(* The loops of fork, exit and freeproc.                                     *)

\* close_open_files closes every descriptor of p and keeps the tables in order.
LEMMA CloseAllGood ==
  ASSUME Counting, NEW o, NEW ot \in Tables, NEW cw, NEW ps, Good(o, ot, cw, ps), NEW p \in Procs
  PROVE  Good(close_all(o, ot[p], FALSE), [ot EXCEPT ![p] = NoFiles], cw, ps)
<1> DEFINE done(n) == [k \in Fds |-> IF k < n THEN Null ELSE ot[p][k]]
           rest(n) == [ot EXCEPT ![p] = done(n)]
           at(n) == closing(o, ot[p], FALSE)[n]
           T == {n \in 0..NOFILE : Good(at(n), rest(n), cw, ps)}
<1>0. /\ NOFILE \in Nat /\ \A k \in Fds : k \in Nat /\ k < NOFILE
      /\ \A n \in 1..NOFILE : n - 1 \in Fds /\ n - 1 \in 0..NOFILE
  BY SizesAssumption DEF Fds
<1>1. /\ at(0) = o
      /\ \A n \in 1..NOFILE : at(n) = close_fd(at(n - 1), ot[p][n - 1], FALSE)
  <2> DEFINE no == FALSE
             C == closing(o, ot[p], no)
  <2> HIDE DEF no
  <2>1. C[0] = o /\ \A n \in 1..NOFILE : C[n] = close_fd(C[n - 1], ot[p][n - 1], no)
    BY ClosingSteps
  <2> QED BY <2>1, Zenon DEF no
<1> HIDE DEF at
<1>2. \A n \in 0..NOFILE : rest(n) \in Tables
  BY DEF Tables
<1>3. rest(0) = ot /\ rest(NOFILE) = [ot EXCEPT ![p] = NoFiles]
  <2>1. done(0) = ot[p]
    BY <1>0 DEF Tables
  <2>2. done(NOFILE) = NoFiles
    BY <1>0 DEF NoFiles
  <2> QED BY <2>1, <2>2, Zenon DEF Tables
<1>4. 0 \in T
  <2>1. 0 \in 0..NOFILE
    BY <1>0
  <2> HIDE DEF rest
  <2> QED BY <1>1, <1>3, <2>1
<1>5. ASSUME NEW n \in 1..NOFILE, n - 1 \in T PROVE n \in T
  <2> DEFINE f == ot[p][n - 1]
  <2>1. n - 1 \in Fds /\ n - 1 \in 0..NOFILE /\ rest(n - 1) \in Tables
        /\ Good(at(n - 1), rest(n - 1), cw, ps)
    BY <1>0, <1>2, <1>5
  <2>2. rest(n - 1)[p][n - 1] = f
    BY <1>0, <2>1 DEF Tables
  <2>3. \A k \in Fds : k < n <=> (k < n - 1 \/ k = n - 1)
    BY <1>0
  <2>4. CASE f = Null
    <3>1. done(n) = done(n - 1)
      BY <2>1, <2>3, <2>4
    <3>2. at(n) = at(n - 1)
      BY <1>1, <2>4, Zenon DEF close_fd
    <3>3. rest(n) = rest(n - 1) /\ n \in 0..NOFILE
      <4> HIDE DEF done
      <4> QED BY <1>0, <3>1
    <3> HIDE DEF rest
    <3> QED BY <2>1, <3>2, <3>3
  <2>5. CASE f # Null
    <3>1. f \in Files
      BY <2>1, <2>5 DEF Tables
    <3>2. at(n) = file_close(at(n - 1), f, FALSE)
      BY <1>1, <2>5, Zenon DEF close_fd
    <3>3. rest(n) = Set(rest(n - 1), p, n - 1, Null)
      <4>1. done(n) = [done(n - 1) EXCEPT ![n - 1] = Null]
        BY <2>1, <2>3, Zenon
      <4> QED BY <4>1, Zenon DEF Set, Tables
    <3>4. Good(file_close(at(n - 1), f, FALSE), Set(rest(n - 1), p, n - 1, Null), cw, ps)
      <4> HIDE DEF rest, f
      <4> QED BY <2>1, <2>2, <3>1, CloseOne, Zenon
    <3>5. n \in 0..NOFILE
      BY <1>0
    <3> HIDE DEF rest
    <3> QED BY <3>2, <3>3, <3>4, <3>5, Zenon
  <2> QED BY <2>4, <2>5
<1>6. NOFILE \in T
  <2> HIDE DEF T
  <2>1. T \in SUBSET (0..NOFILE)
    BY DEF T
  <2> QED BY <1>0, <1>4, <1>5, <2>1, Climb
<1>7. Good(at(NOFILE), [ot EXCEPT ![p] = NoFiles], cw, ps)
  BY <1>3, <1>6
<1> QED BY <1>7, Zenon DEF at, close_all

\* fork duplicates every descriptor of p into the empty table of c.
LEMMA DupAllGood ==
  ASSUME Counting, NEW o, NEW ot \in Tables, NEW cw, NEW ps, Good(o, ot, cw, ps),
         NEW p \in Procs, NEW c \in Procs, c # p, ot[c] = NoFiles
  PROVE  Good(dup_all(o, ot[p]), [ot EXCEPT ![c] = ot[p]], cw, ps)
<1> DEFINE done(n) == [k \in Fds |-> IF k < n THEN ot[p][k] ELSE Null]
           rest(n) == [ot EXCEPT ![c] = done(n)]
           at(n) == duping(o, ot[p])[n]
           T == {n \in 0..NOFILE : Good(at(n), rest(n), cw, ps)}
<1>0. /\ NOFILE \in Nat /\ \A k \in Fds : k \in Nat /\ k < NOFILE
      /\ \A n \in 1..NOFILE : n - 1 \in Fds /\ n - 1 \in 0..NOFILE
  BY SizesAssumption DEF Fds
<1>1. /\ at(0) = o
      /\ \A n \in 1..NOFILE : at(n) = dup_fd(at(n - 1), ot[p][n - 1])
  BY DupingSteps
<1> HIDE DEF at
<1>2. \A n \in 0..NOFILE : rest(n) \in Tables /\ rest(n)[p] = ot[p]
  BY DEF Tables
<1>3. rest(0) = ot /\ rest(NOFILE) = [ot EXCEPT ![c] = ot[p]]
  <2>1. done(0) = ot[c]
    BY <1>0 DEF NoFiles
  <2>2. done(NOFILE) = ot[p]
    BY <1>0 DEF Tables
  <2> QED BY <2>1, <2>2, Zenon DEF Tables
<1>4. 0 \in T
  <2>1. 0 \in 0..NOFILE
    BY <1>0
  <2> HIDE DEF rest
  <2> QED BY <1>1, <1>3, <2>1
<1>5. ASSUME NEW n \in 1..NOFILE, n - 1 \in T PROVE n \in T
  <2> DEFINE f == ot[p][n - 1]
  <2>1. n - 1 \in Fds /\ n - 1 \in 0..NOFILE /\ rest(n - 1) \in Tables
        /\ rest(n - 1)[p] = ot[p] /\ Good(at(n - 1), rest(n - 1), cw, ps)
    BY <1>0, <1>2, <1>5
  <2>2. rest(n - 1)[c][n - 1] = Null
    BY <1>0, <2>1 DEF Tables
  <2>3. \A k \in Fds : k < n <=> (k < n - 1 \/ k = n - 1)
    BY <1>0
  <2>4. CASE f = Null
    <3>1. done(n) = done(n - 1)
      BY <2>1, <2>3, <2>4
    <3>2. at(n) = at(n - 1)
      BY <1>1, <2>4 DEF dup_fd
    <3>3. rest(n) = rest(n - 1) /\ n \in 0..NOFILE
      <4> HIDE DEF done
      <4> QED BY <1>0, <3>1
    <3> HIDE DEF rest
    <3> QED BY <2>1, <3>2, <3>3
  <2>5. CASE f # Null
    <3>1. f \in Files
      BY <2>1, <2>5 DEF Tables
    <3>2. at(n) = file_dup(at(n - 1), f)
      BY <1>1, <2>5 DEF dup_fd
    <3>3. rest(n) = Set(rest(n - 1), c, n - 1, f)
      <4>1. done(n) = [done(n - 1) EXCEPT ![n - 1] = f]
        BY <2>1, <2>3, Zenon
      <4> QED BY <4>1, Zenon DEF Set, Tables
    <3>4. at(n - 1).file[f].refcnt > 0
      <4> HIDE DEF rest, f
      <4>1. rest(n - 1)[p][n - 1] = f
        BY <2>1 DEF f
      <4>2. /\ Cardinality(Refs(rest(n - 1), f)) >= 1
            /\ Cardinality(Refs(rest(n - 1), f)) \in Nat
        BY <2>1, <3>1, <4>1, RefsLess
      <4>3. at(n - 1).file[f].refcnt = Cardinality(Refs(rest(n - 1), f))
        BY <2>1, <3>1 DEF Good, FilesOK
      <4> QED BY <4>2, <4>3
    <3>5. Good(file_dup(at(n - 1), f), Set(rest(n - 1), c, n - 1, f), cw, ps)
      <4> HIDE DEF rest, f
      <4> QED BY <2>1, <2>2, <3>1, <3>4, DupOne, Zenon
    <3>6. n \in 0..NOFILE
      BY <1>0
    <3> HIDE DEF rest
    <3> QED BY <3>2, <3>3, <3>5, <3>6
  <2> QED BY <2>4, <2>5
<1>6. NOFILE \in T
  <2> HIDE DEF T
  <2>1. T \in SUBSET (0..NOFILE)
    BY DEF T
  <2> QED BY <1>0, <1>4, <1>5, <2>1, Climb
<1>7. Good(at(NOFILE), [ot EXCEPT ![c] = ot[p]], cw, ps)
  BY <1>3, <1>6
<1> QED BY <1>7 DEF at, dup_all

\* freeproc finds nothing to close in an empty table.
LEMMA CloseNothing ==
  ASSUME Counting, NEW o, NEW locked
  PROVE  close_all(o, NoFiles, locked) = o
<1> DEFINE C == closing(o, NoFiles, locked)
           T == {n \in 0..NOFILE : C[n] = o}
<1>0. NOFILE \in Nat /\ \A n \in 1..NOFILE : NoFiles[n - 1] = Null
  BY SizesAssumption DEF NoFiles, Fds
<1>1. C[0] = o /\ \A n \in 1..NOFILE : C[n] = close_fd(C[n - 1], NoFiles[n - 1], locked)
  BY ClosingSteps
<1> HIDE DEF C
<1>3. 0 \in T
  BY <1>0, <1>1
<1>4. ASSUME NEW n \in 1..NOFILE, n - 1 \in T PROVE n \in T
  <2>1. n \in 0..NOFILE /\ n # 0 /\ C[n - 1] = o
    BY <1>0, <1>4
  <2>2. C[n] = close_fd(C[n - 1], NoFiles[n - 1], locked)
    BY <1>1, <2>1
  <2> QED BY <1>0, <2>1, <2>2 DEF close_fd
<1>5. NOFILE \in T
  <2> HIDE DEF T
  <2>1. T \in SUBSET (0..NOFILE)
    BY DEF T
  <2> QED BY <1>0, <1>3, <1>4, <2>1, Climb
<1> QED BY <1>5 DEF close_all, C
-----------------------------------------------------------------------------
(* Inodes referred to, files made.                                           *)

\* Tables q that differ from o in the counts of inodes only.
Recounted(o, q, iref) ==
    /\ q \in Obj /\ q.file = o.file /\ q.pipe = o.pipe /\ q.iref = iref
    /\ q.panic = o.panic
    /\ \A i : Held(q, i) = Held(o, i)
    /\ \A ot : FilesOK(o, ot) => FilesOK(q, ot)
    /\ PipesOK(o) => PipesOK(q)

\* They count files and pipes as before.
LEMMA IrefOnly ==
  ASSUME NEW o \in Obj, NEW iref \in [Inodes -> Nat], NEW q,
         q = Built(o, o.file, o.pipe, iref)
  PROVE  Recounted(o, q, iref)
<1>1. /\ o.file \in [Files -> FileRec] /\ o.pipe \in [Pipes -> PipeRec]
  BY DEF Obj
<1>2. q \in Obj /\ q.file = o.file /\ q.pipe = o.pipe /\ q.iref = iref /\ q.panic = o.panic
  BY <1>1, BuiltFacts
<1>3. (\A i : Held(q, i) = Held(o, i)) /\ \A x : Ends(q, x) = Ends(o, x)
  BY <1>2 DEF Held, Ends
<1>4. \A ot : FilesOK(o, ot) => FilesOK(q, ot)
  BY <1>2 DEF FilesOK
<1>5. PipesOK(o) => PipesOK(q)
  BY <1>2, <1>3, ZenonT(30) DEF PipesOK, PipeOK
<1> QED BY <1>2, <1>3, <1>4, <1>5 DEF Recounted

\* A reference to an inode is taken and given back.
LEMMA GetPut ==
  ASSUME NEW o \in Obj, NEW i \in Inodes
  PROVE  iput(iget(o, i), i) = o
<1> DEFINE iref == [o.iref EXCEPT ![i] = o.iref[i] + 1]
           q == iget(o, i)
<1>1. o.iref \in [Inodes -> Nat] /\ o.iref[i] \in Nat
  BY DEF Obj
<1>2. iref \in [Inodes -> Nat] /\ iref[i] = o.iref[i] + 1 /\ iref[i] >= 1
      /\ [iref EXCEPT ![i] = iref[i] - 1] = o.iref
  BY <1>1
<1>3. q = Built(o, o.file, o.pipe, iref)
  BY InodeGives, Zenon
<1> HIDE DEF iref, q
<1>4. q \in Obj /\ q.file = o.file /\ q.pipe = o.pipe /\ q.iref = iref /\ q.panic = o.panic
  BY <1>2, <1>3, IrefOnly DEF Recounted
<1>5. iput(q, i) = Built(q, q.file, q.pipe, [q.iref EXCEPT ![i] = q.iref[i] - 1])
  BY <1>2, <1>4, InodeGives, Zenon
<1>6. iput(q, i) = Built(o, o.file, o.pipe, o.iref)
  BY <1>2, <1>4, <1>5, Zenon DEF Built
<1>7. Built(o, o.file, o.pipe, o.iref) = o
  BY DEF Built, Obj
<1> QED BY <1>6, <1>7 DEF q

NewFile(rd, wr, k) == [refcnt |-> 1, readable |-> rd, writable |-> wr, kind |-> k]

\* A file is allocated and given its modes and its kind.
LEMMA FileMade ==
  ASSUME NEW o \in Obj, NEW f \in Files, NEW rd \in BOOLEAN, NEW wr \in BOOLEAN, NEW k \in Kinds
  PROVE  /\ NewFile(rd, wr, k) \in FileRec
         /\ file_set(file_alloc(o, f), f, rd, wr, k)
              = Built(o, [o.file EXCEPT ![f] = NewFile(rd, wr, k)], o.pipe, o.iref)
<1> DEFINE a == file_alloc(o, f)
           fresh == [UnusedFile EXCEPT !.refcnt = 1]
<1>1. /\ a.file = [o.file EXCEPT ![f] = fresh] /\ a.pipe = o.pipe /\ a.iref = o.iref
      /\ a = Built(o, a.file, a.pipe, a.iref) /\ a.panic = o.panic
  BY DEF file_alloc, Obj, Built
<1>2. a.file[f] = fresh
  BY <1>1 DEF Obj
<1>3. [fresh EXCEPT !.readable = rd, !.writable = wr, !.kind = k] = NewFile(rd, wr, k)
  <2> DEFINE n == NewFile(rd, wr, k)
             e == [fresh EXCEPT !.readable = rd, !.writable = wr, !.kind = k]
  <2>1. n \in FileRec /\ n.refcnt = 1 /\ (n.readable <=> rd) /\ (n.writable <=> wr) /\ n.kind = k
    BY DEF NewFile, FileRec
  <2>2. fresh \in FileRec /\ fresh.refcnt = 1
    BY UnusedFacts DEF FileRec
  <2> HIDE DEF fresh
  <2>3. e \in FileRec /\ e.refcnt = 1 /\ (e.readable <=> rd) /\ (e.writable <=> wr) /\ e.kind = k
    BY <2>2, Zenon DEF FileRec
  <2> HIDE DEF n, e
  <2>4. e = n
    BY <2>1, <2>3, FileEq
  <2> QED BY <2>4 DEF e, n
<1> HIDE DEF a
<1>4. file_set(a, f, rd, wr, k) = [a EXCEPT !.file[f] = NewFile(rd, wr, k)]
  BY <1>1, <1>2, <1>3 DEF file_set, Obj, Built
<1>5. [a EXCEPT !.file[f] = NewFile(rd, wr, k)]
        = Built(a, [a.file EXCEPT ![f] = NewFile(rd, wr, k)], a.pipe, a.iref)
  BY <1>1 DEF Built
<1>6. [a.file EXCEPT ![f] = NewFile(rd, wr, k)] = [o.file EXCEPT ![f] = NewFile(rd, wr, k)]
  BY <1>1 DEF Obj
<1>7. NewFile(rd, wr, k) \in FileRec
  BY DEF NewFile, FileRec
<1> QED BY <1>1, <1>4, <1>5, <1>6, <1>7 DEF a, Built

\* What q has of the files of o when f, free before, is now r.
More(o, q, f, r, nt) ==
    /\ FilesOK(q, nt)
    /\ \A i : f \notin Held(o, i) /\ f \notin Ends(o, i)
    /\ \A i : Held(q, i) = IF r.kind = InodeKind(i) THEN Held(o, i) \cup {f} ELSE Held(o, i)
    /\ \A x : Ends(q, x) = IF r.kind = PipeKind(x) THEN Ends(o, x) \cup {f} ELSE Ends(o, x)
    /\ q.file[f] = r /\ \A g \in Files \ {f} : q.file[g] = o.file[g]

\* A free file is given a descriptor.
LEMMA AddFile ==
  ASSUME Counting, NEW o \in Obj, NEW ot \in Tables, FilesOK(o, ot),
         NEW p \in Procs, NEW fd \in Fds, NEW f \in Files, ot[p][fd] = Null,
         o.file[f].refcnt = 0, NEW q, NEW r, Changed(o, q, f, r), r.refcnt = 1
  PROVE  More(o, q, f, r, Set(ot, p, fd, f))
<1>1. /\ Cardinality(Refs(Set(ot, p, fd, f), f)) = Cardinality(Refs(ot, f)) + 1
      /\ \A g \in Files \ {f} : Refs(Set(ot, p, fd, f), g) = Refs(ot, g)
  BY RefsMore
<1>2. q.file[f] = r /\ \A g \in Files \ {f} : q.file[g] = o.file[g]
  BY ChangedSets
<1>3. r.refcnt = Cardinality(Refs(Set(ot, p, fd, f), f)) /\ ~(r.refcnt = 0)
  <2>1. Cardinality(Refs(ot, f)) = 0
    BY DEF FilesOK
  <2> QED BY <1>1, <2>1
<1>4. FilesOK(q, Set(ot, p, fd, f))
  BY <1>1, <1>2, <1>3 DEF FilesOK
<1>5. \A i : f \notin Held(o, i) /\ f \notin Ends(o, i)
  <2>1. o.file[f].kind = NoKind
    BY UnusedFacts DEF FilesOK
  <2>2. \A i : NoKind # InodeKind(i) /\ NoKind # PipeKind(i)
    BY KindFacts
  <2> QED BY <2>1, <2>2 DEF Held, Ends
<1>6. \A i : Held(q, i) = IF r.kind = InodeKind(i) THEN Held(o, i) \cup {f} ELSE Held(o, i)
  BY <1>2, <1>5 DEF Held
<1>7. \A x : Ends(q, x) = IF r.kind = PipeKind(x) THEN Ends(o, x) \cup {f} ELSE Ends(o, x)
  BY <1>2, <1>5 DEF Ends
<1> QED BY <1>2, <1>4, <1>5, <1>6, <1>7 DEF More
-----------------------------------------------------------------------------
(* The system calls.                                                         *)

\* TypeOK in the terms of this module.
LEMMA TypeIs ==
  TypeOK <=> /\ obj \in Obj /\ ofile \in Tables /\ cwd \in [Procs -> Dirs]
             /\ pstate \in [Procs -> {"Unused", "Live", "Zombie"}]
BY DEF TypeOK, Obj, FileRec, PipeRec, Tables

\* The same of the next state.
LEMMA TypeIsNext ==
  TypeOK' <=> /\ obj' \in Obj /\ ofile' \in Tables /\ cwd' \in [Procs -> Dirs]
              /\ pstate' \in [Procs -> {"Unused", "Live", "Zombie"}]
BY DEF TypeOK, Obj, FileRec, PipeRec, Tables

\* The invariant after a step, in the terms of the next state's tables.
LEMMA NextInv ==
  ASSUME Good(obj', ofile', cwd', pstate'), ProcsOK(ofile', cwd', pstate'), ofile' \in Tables,
         cwd' \in [Procs -> Dirs], pstate' \in [Procs -> {"Unused", "Live", "Zombie"}]
  PROVE  IInv'
<1>1. TypeOK'
  BY TypeIsNext DEF Good
<1>2. Good(obj, ofile, cwd, pstate)'
  BY DEF Good, FilesOK, Refs, PipesOK, PipeOK, Ends, Counted, Held, Here
<1>3. ProcsOK(ofile, cwd, pstate)'
  BY DEF ProcsOK
<1> QED BY <1>1, <1>2, <1>3 DEF IInv

\* A call that returns with the tables in order keeps the invariant.
LEMMA ReturnKeeps ==
  ASSUME IInv, NEW p \in Procs, Call(p), NEW o, NEW t, t \in [Fds -> Files \cup {Null}],
         Return(p, o, t), Good(o, [ofile EXCEPT ![p] = t], cwd, pstate)
  PROVE  IInv'
<1>1. /\ ofile \in Tables /\ cwd \in [Procs -> Dirs]
      /\ pstate \in [Procs -> {"Unused", "Live", "Zombie"}] /\ ProcsOK(ofile, cwd, pstate)
  BY TypeIs DEF IInv
<1>2. /\ obj' = o /\ ofile' = [ofile EXCEPT ![p] = t] /\ cwd' = cwd /\ pstate' = pstate
  BY DEF Return
<1>3. pstate[p] = "Live"
  BY DEF Call
<1>4. ofile' \in Tables /\ \A a \in Procs : a # p => ofile'[a] = ofile[a]
  BY <1>1, <1>2 DEF Tables
<1>5. ProcsOK(ofile', cwd', pstate')
  BY <1>1, <1>2, <1>3, <1>4 DEF ProcsOK
<1> QED BY <1>1, <1>2, <1>4, <1>5, NextInv

\* A call that fails gives back what it took: nothing has changed.
LEMMA ReturnSame ==
  ASSUME IInv, NEW p \in Procs, Return(p, obj, ofile[p])
  PROVE  IInv'
<1>1. /\ Good(obj, ofile, cwd, pstate) /\ ProcsOK(ofile, cwd, pstate) /\ ofile \in Tables
      /\ cwd \in [Procs -> Dirs] /\ pstate \in [Procs -> {"Unused", "Live", "Zombie"}]
  BY TypeIs DEF IInv
<1>2. obj' = obj /\ ofile' = ofile /\ cwd' = cwd /\ pstate' = pstate
  BY <1>1 DEF Return, Tables
<1> QED BY <1>1, <1>2, NextInv

\* Free files are blank, and free pipes are shut and have no files.
LEMMA FreeFacts ==
  ASSUME NEW o, NEW ot, NEW cw, NEW ps, Good(o, ot, cw, ps)
  PROVE  /\ \A f \in Files : o.file[f].refcnt = 0 => o.file[f] = UnusedFile
         /\ \A x \in free_pipes(o) : /\ Ends(o, x) = {}
                                     /\ o.pipe[x] = [used |-> FALSE, readopen |-> FALSE,
                                                     writeopen |-> FALSE]
<1>1. \A f \in Files : o.file[f].refcnt = 0 => o.file[f] = UnusedFile
  BY DEF Good, FilesOK
<1>2. ASSUME NEW x \in Pipes, ~o.pipe[x].used
      PROVE  /\ Ends(o, x) = {}
             /\ o.pipe[x] = [used |-> FALSE, readopen |-> FALSE, writeopen |-> FALSE]
  <2>1. PipeOK(o, x)
    BY DEF Good, PipesOK
  <2>2. ~o.pipe[x].readopen /\ ~o.pipe[x].writeopen
    BY <1>2, <2>1, Zenon DEF PipeOK
  <2>3. \A f \in Ends(o, x) : FALSE
    BY <2>1, <2>2, Zenon DEF PipeOK
  <2>4. o.pipe[x] \in PipeRec
    BY DEF Good, Obj
  <2>5. o.pipe[x].used = FALSE /\ o.pipe[x].readopen = FALSE /\ o.pipe[x].writeopen = FALSE
    BY <1>2, <2>2, <2>4, Zenon DEF PipeRec
  <2>6. o.pipe[x] = [used |-> FALSE, readopen |-> FALSE, writeopen |-> FALSE]
    BY <2>4, <2>5, Zenon DEF PipeRec
  <2> QED BY <2>3, <2>6
<1> QED BY <1>1, <1>2 DEF free_pipes

\* The least free descriptor.
LEMMA FreeFd ==
  ASSUME Counting, NEW t \in [Fds -> Files \cup {Null}], free_fds(t) # {}
  PROVE  Min(free_fds(t)) \in Fds /\ t[Min(free_fds(t))] = Null
<1>1. free_fds(t) \in SUBSET Nat
  BY SizesAssumption DEF free_fds, Fds
<1>2. Min(free_fds(t)) \in free_fds(t)
  BY <1>1, MinIn
<1> QED BY <1>2 DEF free_fds

\* The least free file.
LEMMA FreeFile ==
  ASSUME Counting, NEW o, free_files(o) # {}
  PROVE  Min(free_files(o)) \in Files /\ o.file[Min(free_files(o))].refcnt = 0
<1>1. free_files(o) \in SUBSET Nat
  BY SizesAssumption DEF free_files, Files
<1>2. Min(free_files(o)) \in free_files(o)
  BY <1>1, MinIn
<1> QED BY <1>2 DEF free_files

\* The tables after sys_open has made file f for inode i.
Opened(o, f, rd, wr, i) ==
    LET o1 == file_alloc(iget(o, i), f)
    IN  IF i \in Devs THEN iput(file_set(o1, f, rd, wr, DeviceKind), i)
                      ELSE file_set(o1, f, rd, wr, InodeKind(i))

\* A device's inode is given back, and a file on disk keeps its own.
Lasting(o, f, rd, wr, i) ==
    IF i \in Devs
    THEN Built(o, [o.file EXCEPT ![f] = NewFile(rd, wr, DeviceKind)], o.pipe, o.iref)
    ELSE Built(o, [o.file EXCEPT ![f] = NewFile(rd, wr, InodeKind(i))], o.pipe,
               [o.iref EXCEPT ![i] = o.iref[i] + 1])

\* What sys_open has done then.
LEMMA OpenedIs ==
  ASSUME NEW o \in Obj, NEW f \in Files, NEW rd \in BOOLEAN, NEW wr \in BOOLEAN, NEW i \in Inodes
  PROVE  Opened(o, f, rd, wr, i) = Lasting(o, f, rd, wr, i)
<1> DEFINE g == iget(o, i)
           iref == [o.iref EXCEPT ![i] = o.iref[i] + 1]
<1>1. o.iref \in [Inodes -> Nat] /\ o.iref[i] \in Nat /\ o.file \in [Files -> FileRec]
      /\ o.pipe \in [Pipes -> PipeRec]
  BY DEF Obj
<1>2. iref \in [Inodes -> Nat] /\ iref[i] >= 1 /\ [iref EXCEPT ![i] = iref[i] - 1] = o.iref
  BY <1>1
<1>3. g = Built(o, o.file, o.pipe, iref)
  BY InodeGives, Zenon
<1> HIDE DEF iref, g
<1>4. g \in Obj /\ g.file = o.file /\ g.pipe = o.pipe /\ g.iref = iref /\ g.panic = o.panic
  BY <1>2, <1>3, IrefOnly DEF Recounted
<1>5. ASSUME NEW k \in Kinds
      PROVE  /\ NewFile(rd, wr, k) \in FileRec
             /\ file_set(file_alloc(g, f), f, rd, wr, k) =
                  Built(o, [o.file EXCEPT ![f] = NewFile(rd, wr, k)], o.pipe, iref)
  <2>1. /\ NewFile(rd, wr, k) \in FileRec
        /\ file_set(file_alloc(g, f), f, rd, wr, k) =
             Built(g, [g.file EXCEPT ![f] = NewFile(rd, wr, k)], g.pipe, g.iref)
    BY <1>4, FileMade
  <2> QED BY <1>4, <2>1 DEF Built
<1>6. CASE i \in Devs
  <2> DEFINE file == [o.file EXCEPT ![f] = NewFile(rd, wr, DeviceKind)]
             q == Built(o, file, o.pipe, iref)
  <2>1. NewFile(rd, wr, DeviceKind) \in FileRec /\ file_set(file_alloc(g, f), f, rd, wr, DeviceKind) = q
    BY <1>5, KindFacts
  <2>2. file \in [Files -> FileRec]
    BY <1>1, <2>1
  <2>3. Opened(o, f, rd, wr, i) = iput(q, i)
    BY <1>6, <2>1, Zenon DEF Opened, g
  <2> HIDE DEF file
  <2>4. q \in Obj /\ q.file = file /\ q.pipe = o.pipe /\ q.iref = iref /\ q.panic = o.panic
    BY <1>1, <1>2, <2>2, BuiltFacts, SMTT(30)
  <2> HIDE DEF q
  <2>5. iput(q, i) = Built(q, q.file, q.pipe, [q.iref EXCEPT ![i] = q.iref[i] - 1])
    BY <1>2, <2>4, InodeGives, Zenon
  <2>6. iput(q, i) = Built(o, file, o.pipe, o.iref)
    BY <1>2, <2>4, <2>5, Zenon DEF Built
  <2> QED BY <1>6, <2>3, <2>6 DEF file, Lasting
<1>7. CASE i \notin Devs
  <2>1. file_set(file_alloc(g, f), f, rd, wr, InodeKind(i)) =
          Built(o, [o.file EXCEPT ![f] = NewFile(rd, wr, InodeKind(i))], o.pipe, iref)
    BY <1>5, KindFacts
  <2>2. Opened(o, f, rd, wr, i) = file_set(file_alloc(g, f), f, rd, wr, InodeKind(i))
    BY <1>7, Zenon DEF Opened, g
  <2> QED BY <1>7, <2>1, <2>2 DEF iref, Lasting
<1> QED BY <1>6, <1>7

\* A file taken and dropped is blank again.
LEMMA DroppedBack ==
  ASSUME NEW o \in Obj, NEW f \in Files, o.file[f] = UnusedFile, NEW r, NEW q, Changed(o, q, f, r)
  PROVE  Dropped(q, f) = o.file
BY Zenon DEF Changed, Dropped, Obj

Undone(o, f, rd, wr, i) == file_close(Opened(o, f, rd, wr, i), f, FALSE)

\* open without a free descriptor: the file is closed and nothing remains of it.
LEMMA OpenUndone ==
  ASSUME NEW o \in Obj, NEW f \in Files, o.file[f] = UnusedFile,
         NEW rd \in BOOLEAN, NEW wr \in BOOLEAN, NEW i \in Inodes
  PROVE  Undone(o, f, rd, wr, i) = o
<1> DEFINE q == Opened(o, f, rd, wr, i)
           dev == NewFile(rd, wr, DeviceKind)
           ino == NewFile(rd, wr, InodeKind(i))
           iref == [o.iref EXCEPT ![i] = o.iref[i] + 1]
<1>1. o.iref \in [Inodes -> Nat] /\ o.iref[i] \in Nat /\ o.file \in [Files -> FileRec]
      /\ o.pipe \in [Pipes -> PipeRec] /\ o = Built(o, o.file, o.pipe, o.iref)
  BY DEF Obj, Built
<1>2. iref \in [Inodes -> Nat] /\ iref[i] >= 1 /\ [iref EXCEPT ![i] = iref[i] - 1] = o.iref
  BY <1>1
<1>3. /\ dev \in FileRec /\ dev.refcnt = 1 /\ dev.kind = DeviceKind
      /\ ino \in FileRec /\ ino.refcnt = 1 /\ ino.kind = InodeKind(i)
  <2>1. DeviceKind \in Kinds /\ InodeKind(i) \in Kinds
    BY KindFacts
  <2> QED BY <2>1, FileMade, Zenon DEF NewFile
<1>0. /\ i \in Devs => q = Built(o, [o.file EXCEPT ![f] = dev], o.pipe, o.iref)
      /\ i \notin Devs => q = Built(o, [o.file EXCEPT ![f] = ino], o.pipe, iref)
  BY OpenedIs DEF Lasting
<1> HIDE DEF dev, ino, iref, q
<1>4. ASSUME i \in Devs PROVE file_close(q, f, FALSE) = o
  <2> DEFINE file == [o.file EXCEPT ![f] = dev]
  <2>1. q = Built(o, file, o.pipe, o.iref)
    BY <1>0, <1>4
  <2>2. file \in [Files -> FileRec] /\ file[f] = dev
    BY <1>1, <1>3
  <2>3. q \in Obj /\ q.file = file /\ q.pipe = o.pipe /\ q.iref = o.iref /\ q.panic = o.panic
    <3> HIDE DEF file
    <3> QED BY <1>1, <2>1, <2>2, BuiltFacts
  <2>4. file_close(q, f, FALSE) = Built(q, Dropped(q, f), q.pipe, q.iref)
    BY <1>3, <2>2, <2>3, CloseLast, Zenon
  <2>5. Dropped(q, f) = o.file
    BY <2>3, DroppedBack DEF Changed
  <2> QED BY <1>1, <2>3, <2>4, <2>5, Zenon DEF Built
<1>5. ASSUME i \notin Devs PROVE file_close(q, f, FALSE) = o
  <2> DEFINE file == [o.file EXCEPT ![f] = ino]
  <2>1. q = Built(o, file, o.pipe, iref)
    BY <1>0, <1>5
  <2>2. file \in [Files -> FileRec] /\ file[f] = ino
    BY <1>1, <1>3
  <2>3. q \in Obj /\ q.file = file /\ q.pipe = o.pipe /\ q.iref = iref /\ q.panic = o.panic
    <3> HIDE DEF file
    <3> QED BY <1>1, <1>2, <2>1, <2>2, BuiltFacts
  <2>4. q.file[f].refcnt = 1 /\ q.file[f].kind = InodeKind(i) /\ q.iref[i] >= 1
    BY <1>2, <1>3, <2>2, <2>3
  <2>5. file_close(q, f, FALSE) = Unheld(q, f, i)
    BY <2>3, <2>4, CloseLastInode, Zenon
  <2>6. Dropped(q, f) = o.file
    BY <2>3, DroppedBack DEF Changed
  <2> QED BY <1>1, <1>2, <2>3, <2>5, <2>6, Zenon DEF Built, Unheld
<1> QED BY <1>4, <1>5, Zenon DEF Undone, q

\* A new file that is no end of a pipe leaves the pipes in order.
LEMMA MorePipes ==
  ASSUME NEW o \in Obj, NEW q, NEW f, NEW r, NEW nt, More(o, q, f, r, nt),
         \A x : r.kind # PipeKind(x), q.pipe = o.pipe, PipesOK(o)
  PROVE  PipesOK(q)
<1> SUFFICES ASSUME NEW x \in Pipes PROVE PipeOK(q, x)
  BY DEF PipesOK
<1>1. Ends(q, x) = Ends(o, x) /\ f \notin Ends(o, x)
  BY DEF More
<1>2. PipeOK(o, x) /\ q.pipe[x] = o.pipe[x]
  BY DEF PipesOK
<1>3. \A g \in Ends(o, x) : q.file[g] = o.file[g]
  BY <1>1 DEF More, Ends
<1> QED BY <1>1, <1>2, <1>3, PipeSame

\* One more reference and one more holder leave a count right.
LEMMA OneMore ==
  ASSUME NEW a \in Nat, NEW b \in Nat, NEW c \in Nat, a >= b + c
  PROVE  a + 1 >= (b + 1) + c /\ (a = b + c => a + 1 = (b + 1) + c)
OBVIOUS

\* open with a free descriptor: the file is counted, and so is its inode.
LEMMA OpenGood ==
  ASSUME Counting, NEW o, NEW ot \in Tables, NEW cw, NEW ps, Good(o, ot, cw, ps),
         NEW p \in Procs, NEW fd \in Fds, NEW f \in Files, ot[p][fd] = Null,
         o.file[f].refcnt = 0, NEW rd \in BOOLEAN, NEW wr \in BOOLEAN, NEW i \in Inodes
  PROVE  Good(Opened(o, f, rd, wr, i), Set(ot, p, fd, f), cw, ps)
<1> DEFINE q == Opened(o, f, rd, wr, i)
           dev == NewFile(rd, wr, DeviceKind)
           ino == NewFile(rd, wr, InodeKind(i))
           iref == [o.iref EXCEPT ![i] = o.iref[i] + 1]
           nt == Set(ot, p, fd, f)
<1>1. o \in Obj /\ ~o.panic /\ FilesOK(o, ot) /\ PipesOK(o) /\ Counted(o, cw, ps)
  BY DEF Good
<1>2. o.iref \in [Inodes -> Nat] /\ o.iref[i] \in Nat /\ o.file \in [Files -> FileRec]
      /\ o.pipe \in [Pipes -> PipeRec]
  BY <1>1 DEF Obj
<1>3. iref \in [Inodes -> Nat] /\ iref[i] = o.iref[i] + 1
      /\ \A j \in Inodes : j # i => iref[j] = o.iref[j]
  BY <1>2
<1>4. /\ dev \in FileRec /\ dev.refcnt = 1 /\ dev.kind = DeviceKind
      /\ ino \in FileRec /\ ino.refcnt = 1 /\ ino.kind = InodeKind(i)
  <2>1. DeviceKind \in Kinds /\ InodeKind(i) \in Kinds
    BY KindFacts
  <2> QED BY <1>1, <2>1, FileMade, Zenon DEF NewFile
<1>5. q = Lasting(o, f, rd, wr, i)
  BY <1>1, OpenedIs, Zenon
<1> HIDE DEF dev, ino, iref, q
<1>6. CASE i \in Devs
  <2> DEFINE file == [o.file EXCEPT ![f] = dev]
  <2>1. file \in [Files -> FileRec]
    BY <1>2, <1>4
  <2>2. q \in Obj /\ q.file = file /\ q.pipe = o.pipe /\ q.iref = o.iref /\ q.panic = o.panic
    <3>1. q = Built(o, file, o.pipe, o.iref)
      BY <1>5, <1>6, Zenon DEF Lasting, dev
    <3> HIDE DEF file
    <3>2. q.file = file /\ q.pipe = o.pipe /\ q.iref = o.iref /\ q.panic = o.panic
      BY <3>1, Zenon DEF Built
    <3>3. Built(o, file, o.pipe, o.iref) \in Obj
      BY <1>1, <1>2, <2>1, BuiltFacts, Zenon
    <3> QED BY <3>1, <3>2, <3>3, Zenon
  <2>3. Changed(o, q, f, dev)
    BY <2>2 DEF Changed
  <2>4. More(o, q, f, dev, nt)
    BY <1>1, <1>4, <2>3, AddFile
  <2>5. \A x : dev.kind # PipeKind(x) /\ dev.kind # InodeKind(x)
    BY <1>4, KindFacts
  <2>6. PipesOK(q)
    BY <1>1, <2>2, <2>4, <2>5, MorePipes
  <2>7. \A j : Held(q, j) = Held(o, j)
    BY <2>4, <2>5 DEF More
  <2>8. Counted(q, cw, ps)
    BY <1>1, <2>2, <2>7 DEF Counted
  <2>9. FilesOK(q, nt)
    BY <2>4 DEF More
  <2>10. ~q.panic
    BY <1>1, <2>2, Zenon
  <2> QED BY <2>2, <2>6, <2>8, <2>9, <2>10 DEF Good, q
<1>7. CASE i \notin Devs
  <2> DEFINE file == [o.file EXCEPT ![f] = ino]
  <2>1. file \in [Files -> FileRec]
    BY <1>2, <1>4
  <2>2. q \in Obj /\ q.file = file /\ q.pipe = o.pipe /\ q.iref = iref /\ q.panic = o.panic
    <3>1. q = Built(o, file, o.pipe, iref)
      BY <1>5, <1>7, Zenon DEF Lasting, ino, iref
    <3> HIDE DEF file
    <3>2. q.file = file /\ q.pipe = o.pipe /\ q.iref = iref /\ q.panic = o.panic
      BY <3>1, Zenon DEF Built
    <3>3. Built(o, file, o.pipe, iref) \in Obj
      BY <1>1, <1>2, <1>3, <2>1, BuiltFacts, Zenon
    <3> QED BY <3>1, <3>2, <3>3, Zenon
  <2>3. Changed(o, q, f, ino)
    BY <2>2 DEF Changed
  <2>4. More(o, q, f, ino, nt)
    BY <1>1, <1>4, <2>3, AddFile
  <2>5. (\A x : ino.kind # PipeKind(x)) /\ \A j : ino.kind = InodeKind(j) <=> j = i
    BY <1>4, KindFacts
  <2>6. PipesOK(q)
    BY <1>1, <2>2, <2>4, <2>5, MorePipes
  <2>7. /\ \A j : j # i => Held(q, j) = Held(o, j)
        /\ Held(q, i) = Held(o, i) \cup {f} /\ f \notin Held(o, i)
    BY <2>4, <2>5 DEF More
  <2>8. /\ Cardinality(Held(q, i)) = Cardinality(Held(o, i)) + 1
        /\ Cardinality(Held(o, i)) \in Nat /\ Cardinality(Here(cw, ps, i)) \in Nat
    BY <2>7, OwnersFinite, Zenon DEF Counting, AddElement
  <2>9. ASSUME NEW j \in Inodes
        PROVE  /\ q.iref[j] >= Cardinality(Held(q, j)) + Cardinality(Here(cw, ps, j))
               /\ j # Root => q.iref[j] = Cardinality(Held(q, j)) + Cardinality(Here(cw, ps, j))
    <3>1. /\ o.iref[j] >= Cardinality(Held(o, j)) + Cardinality(Here(cw, ps, j))
          /\ j # Root => o.iref[j] = Cardinality(Held(o, j)) + Cardinality(Here(cw, ps, j))
      BY <1>1 DEF Counted
    <3>2. CASE j # i
      <4>1. q.iref[j] = o.iref[j] /\ Held(q, j) = Held(o, j)
        BY <1>3, <2>2, <2>7, <3>2
      <4> QED BY <3>1, <4>1
    <3>3. CASE j = i
      <4>1. q.iref[j] = o.iref[i] + 1
        BY <1>3, <2>2, <3>3
      <4> DEFINE a == o.iref[i]
                 b == Cardinality(Held(o, i))
                 c == Cardinality(Here(cw, ps, i))
      <4>2. a \in Nat /\ b \in Nat /\ c \in Nat /\ a >= b + c /\ (j # Root => a = b + c)
        BY <1>2, <2>8, <3>1, <3>3, Zenon
      <4>3. q.iref[j] = a + 1 /\ Cardinality(Held(q, j)) = b + 1 /\ Cardinality(Here(cw, ps, j)) = c
        BY <2>8, <3>3, <4>1, Zenon
      <4>4. a + 1 >= (b + 1) + c /\ (a = b + c => a + 1 = (b + 1) + c)
        <5> HIDE DEF a, b, c
        <5> QED BY <4>2, OneMore, Zenon
      <4> QED BY <4>2, <4>3, <4>4, Zenon
    <3> QED BY <3>2, <3>3
  <2>10. FilesOK(q, nt)
    BY <2>4 DEF More
  <2>11. ~q.panic
    BY <1>1, <2>2, Zenon
  <2> QED BY <2>2, <2>6, <2>9, <2>10, <2>11 DEF Good, Counted, q
<1> QED BY <1>6, <1>7

\* Failing opens change nothing.
LEMMA OpenFailsKeeps ==
  ASSUME IInv, NEW p \in Procs, NEW i \in Inodes, NEW mode, NEW trunc,
         OpenFails(p, i, mode, trunc)
  PROVE  IInv'
<1>1. obj \in Obj
  BY DEF IInv, Good
<1>2. Return(p, obj, ofile[p])
  BY <1>1, GetPut DEF OpenFails
<1> QED BY <1>2, ReturnSame

\* sys_open.
LEMMA OpenKeeps ==
  ASSUME Counting, IInv, NEW p \in Procs, NEW i \in Inodes, NEW mode, NEW trunc, Open(p, i, mode, trunc)
  PROVE  IInv'
<1> DEFINE f == Min(free_files(obj))
           rd == mode # "O_WRONLY"
           wr == mode # "O_RDONLY"
           q == Opened(obj, f, rd, wr, i)
           fd == Min(free_fds(ofile[p]))
<1>1. /\ Good(obj, ofile, cwd, pstate) /\ obj \in Obj /\ ofile \in Tables
      /\ ofile[p] \in [Fds -> Files \cup {Null}] /\ Call(p)
  BY TypeIs DEF IInv, Good, Tables, Open
<1>2. /\ free_fds(ofile[p]) = {} => Return(p, file_close(q, f, FALSE), ofile[p])
      /\ free_fds(ofile[p]) # {} => Return(p, q, [ofile[p] EXCEPT ![fd] = f])
      /\ free_files(obj) # {}
  BY Zenon DEF Open, Opened
<1>3. f \in Files /\ obj.file[f].refcnt = 0 /\ obj.file[f] = UnusedFile
  BY <1>1, <1>2, FreeFile, FreeFacts
<1>4. rd \in BOOLEAN /\ wr \in BOOLEAN
  OBVIOUS
<1> HIDE DEF f, rd, wr
<1>5. CASE free_fds(ofile[p]) = {}
  <2>1. file_close(q, f, FALSE) = obj
    <3>1. Undone(obj, f, rd, wr, i) = obj
      <4>1. obj \in Obj /\ f \in Files /\ obj.file[f] = UnusedFile
        BY <1>1, <1>3, Zenon
      <4> QED BY <4>1, <1>4, OpenUndone
    <3> QED BY <3>1, Zenon DEF Undone
  <2>2. Return(p, obj, ofile[p])
    BY <1>2, <1>5, <2>1, Zenon
  <2> QED BY <2>2, ReturnSame
<1>6. CASE free_fds(ofile[p]) # {}
  <2>1. fd \in Fds /\ ofile[p][fd] = Null
    BY <1>1, <1>6, FreeFd
  <2> HIDE DEF fd
  <2>2. Good(q, Set(ofile, p, fd, f), cwd, pstate)
    BY <1>1, <1>3, <1>4, <2>1, OpenGood
  <2> HIDE DEF q
  <2>3. /\ [ofile[p] EXCEPT ![fd] = f] \in [Fds -> Files \cup {Null}]
        /\ Good(q, [ofile EXCEPT ![p] = [ofile[p] EXCEPT ![fd] = f]], cwd, pstate)
    BY <1>1, <1>3, <2>2, Zenon DEF Set
  <2>4. Return(p, q, [ofile[p] EXCEPT ![fd] = f])
    BY <1>2, <1>6 DEF fd, q
  <2> QED BY <1>1, <2>3, <2>4, ReturnKeeps
<1> QED BY <1>5, <1>6

\* sys_dup.
LEMMA DupKeeps ==
  ASSUME Counting, IInv, NEW p \in Procs, NEW fd \in Fds, Dup(p, fd)
  PROVE  IInv'
<1> DEFINE f == ofile[p][fd]
           nfd == Min(free_fds(ofile[p]))
           t == [ofile[p] EXCEPT ![nfd] = f]
<1>1. /\ Good(obj, ofile, cwd, pstate) /\ ofile \in Tables
      /\ ofile[p] \in [Fds -> Files \cup {Null}] /\ Call(p)
      /\ f # Null /\ free_fds(ofile[p]) # {} /\ Return(p, file_dup(obj, f), t)
  BY TypeIs DEF IInv, Tables, Dup
<1>2. f \in Files
  BY <1>1
<1>3. nfd \in Fds /\ ofile[p][nfd] = Null
  BY <1>1, FreeFd
<1>4. obj.file[f].refcnt > 0
  <2>1. obj.file[f].refcnt = Cardinality(Refs(ofile, f))
    BY <1>1, <1>2 DEF Good, FilesOK
  <2>2. Cardinality(Refs(ofile, f)) \in Nat /\ Cardinality(Refs(ofile, f)) >= 1
    BY <1>1, <1>2, RefsLess
  <2> QED BY <2>1, <2>2
<1> HIDE DEF f, nfd
<1>5. Good(file_dup(obj, f), Set(ofile, p, nfd, f), cwd, pstate)
  BY <1>1, <1>2, <1>3, <1>4, DupOne
<1>6. t \in [Fds -> Files \cup {Null}] /\ Set(ofile, p, nfd, f) = [ofile EXCEPT ![p] = t]
  BY <1>1, <1>2, Zenon DEF Set
<1> HIDE DEF t
<1> QED BY <1>1, <1>5, <1>6, ReturnKeeps, Zenon

\* sys_close.
LEMMA CloseKeeps ==
  ASSUME Counting, IInv, NEW p \in Procs, NEW fd \in Fds, Close(p, fd)
  PROVE  IInv'
<1> DEFINE f == ofile[p][fd]
           t == [ofile[p] EXCEPT ![fd] = Null]
<1>1. /\ Good(obj, ofile, cwd, pstate) /\ ofile \in Tables
      /\ ofile[p] \in [Fds -> Files \cup {Null}] /\ Call(p)
      /\ f # Null /\ Return(p, file_close(obj, f, FALSE), t)
  BY TypeIs, Zenon DEF IInv, Tables, Close
<1>2. f \in Files
  BY <1>1
<1>3. Good(file_close(obj, f, FALSE), Set(ofile, p, fd, Null), cwd, pstate)
  <2>1. ofile[p][fd] = f
    OBVIOUS
  <2> HIDE DEF f
  <2> QED BY <1>1, <1>2, <2>1, CloseOne, Zenon
<1>4. t \in [Fds -> Files \cup {Null}] /\ Set(ofile, p, fd, Null) = [ofile EXCEPT ![p] = t]
  BY <1>1 DEF Set
<1> HIDE DEF t
<1> QED BY <1>1, <1>3, <1>4, ReturnKeeps, Zenon
=============================================================================
