-------------------------- MODULE FileTableProofs --------------------------
(***************************************************************************)
(* Proofs about FileTable, for tables of any size: files, pipe ends and    *)
(* inode slots are counted exactly, and no assertion fails.                *)
(***************************************************************************)
EXTENDS FileTableLemmas
-----------------------------------------------------------------------------
(* sys_pipe.                                                                 *)
OpenPipe == [used |-> TRUE, readopen |-> TRUE, writeopen |-> TRUE]
HalfPipe == [used |-> TRUE, readopen |-> FALSE, writeopen |-> TRUE]
ShutPipe == [used |-> FALSE, readopen |-> FALSE, writeopen |-> FALSE]
Fresh == [UnusedFile EXCEPT !.refcnt = 1]
ReadEnd(x) == NewFile(TRUE, FALSE, PipeKind(x))
WriteEnd(x) == NewFile(FALSE, TRUE, PipeKind(x))

\* Pipes with the same contents are the same.
LEMMA PipeEq ==
  ASSUME NEW y \in PipeRec, NEW z \in PipeRec, y.used <=> z.used,
         y.readopen <=> z.readopen, y.writeopen <=> z.writeopen
  PROVE  y = z
<1>1. y.used = z.used /\ y.readopen = z.readopen /\ y.writeopen = z.writeopen
  BY Zenon DEF PipeRec
<1> QED BY <1>1 DEF PipeRec

\* The states a pipe goes through when its two ends are closed in turn.
LEMMA PipeFacts ==
  /\ OpenPipe \in PipeRec /\ OpenPipe.used /\ OpenPipe.readopen /\ OpenPipe.writeopen
  /\ HalfPipe \in PipeRec /\ HalfPipe.used /\ ~HalfPipe.readopen /\ HalfPipe.writeopen
  /\ ShutPipe \in PipeRec /\ ~ShutPipe.used /\ ~ShutPipe.readopen /\ ~ShutPipe.writeopen
BY DEF OpenPipe, HalfPipe, ShutPipe, PipeRec

\* pipe::close of the read end, then of the write end.
LEMMA ShutFacts ==
  /\ \A b \in BOOLEAN : ~b => Shut(OpenPipe, b) = HalfPipe
  /\ \A b \in BOOLEAN : b => Shut(HalfPipe, b) = ShutPipe
<1>1. ASSUME NEW y \in PipeRec, NEW b \in BOOLEAN
      PROVE  /\ Shut(y, b) \in PipeRec
             /\ Shut(y, b).used <=> y.used /\ ((y.readopen /\ b) \/ (y.writeopen /\ ~b))
             /\ Shut(y, b).readopen <=> y.readopen /\ b
             /\ Shut(y, b).writeopen <=> y.writeopen /\ ~b
  BY Zenon DEF Shut, PipeRec
<1>2. ASSUME NEW b \in BOOLEAN, ~b PROVE Shut(OpenPipe, b) = HalfPipe
  <2>1. OpenPipe \in PipeRec /\ HalfPipe \in PipeRec /\ Shut(OpenPipe, b) \in PipeRec
    BY <1>1, PipeFacts
  <2>2. /\ Shut(OpenPipe, b).used <=> HalfPipe.used
        /\ Shut(OpenPipe, b).readopen <=> HalfPipe.readopen
        /\ Shut(OpenPipe, b).writeopen <=> HalfPipe.writeopen
    BY <1>1, <1>2, PipeFacts, Zenon
  <2> QED BY <2>1, <2>2, PipeEq
<1>3. ASSUME NEW b \in BOOLEAN, b PROVE Shut(HalfPipe, b) = ShutPipe
  <2>1. HalfPipe \in PipeRec /\ ShutPipe \in PipeRec /\ Shut(HalfPipe, b) \in PipeRec
    BY <1>1, PipeFacts
  <2>2. /\ Shut(HalfPipe, b).used <=> ShutPipe.used
        /\ Shut(HalfPipe, b).readopen <=> ShutPipe.readopen
        /\ Shut(HalfPipe, b).writeopen <=> ShutPipe.writeopen
    BY <1>1, <1>3, PipeFacts, Zenon
  <2> QED BY <2>1, <2>2, PipeEq
<1> QED BY <1>2, <1>3

\* The files of a pipe.
LEMMA EndFacts ==
  ASSUME NEW x \in Pipes
  PROVE  /\ ReadEnd(x) \in FileRec /\ WriteEnd(x) \in FileRec
         /\ ReadEnd(x).refcnt = 1 /\ WriteEnd(x).refcnt = 1
         /\ ReadEnd(x).kind = PipeKind(x) /\ WriteEnd(x).kind = PipeKind(x)
         /\ ReadEnd(x).readable /\ ~ReadEnd(x).writable
         /\ ~WriteEnd(x).readable /\ WriteEnd(x).writable
<1>1. PipeKind(x) \in Kinds
  BY KindFacts
<1> QED BY <1>1 DEF ReadEnd, WriteEnd, NewFile, FileRec

\* A file that is allocated and has no kind yet.
LEMMA AllocIs ==
  ASSUME NEW o \in Obj, NEW f \in Files
  PROVE  /\ Fresh \in FileRec /\ Fresh.refcnt = 1 /\ Fresh.kind = NoKind
         /\ file_alloc(o, f) = Built(o, [o.file EXCEPT ![f] = Fresh], o.pipe, o.iref)
         /\ file_alloc(o, f) \in Obj
<1>1. Fresh \in FileRec /\ Fresh.refcnt = 1 /\ Fresh.kind = NoKind
  BY UnusedFacts DEF Fresh, FileRec
<1>2. file_alloc(o, f) = Built(o, [o.file EXCEPT ![f] = Fresh], o.pipe, o.iref)
  BY DEF file_alloc, Fresh, Obj, Built
<1>3. [o.file EXCEPT ![f] = Fresh] \in [Files -> FileRec] /\ o.pipe \in [Pipes -> PipeRec]
      /\ o.iref \in [Inodes -> Nat]
  BY <1>1 DEF Obj
<1> QED BY <1>1, <1>2, <1>3, BuiltFacts

\* What file::alloc leaves alone.
LEMMA AllocParts ==
  ASSUME NEW o \in Obj, NEW f \in Files
  PROVE  /\ file_alloc(o, f) \in Obj /\ file_alloc(o, f).file = [o.file EXCEPT ![f] = Fresh]
         /\ file_alloc(o, f).pipe = o.pipe /\ file_alloc(o, f).iref = o.iref
         /\ file_alloc(o, f).panic = o.panic
BY AllocIs DEF Built

\* It is given its modes and its kind.
LEMMA SetFresh ==
  ASSUME NEW o \in Obj, NEW f \in Files, o.file[f] = Fresh, NEW x \in Pipes
  PROVE  /\ file_set(o, f, TRUE, FALSE, PipeKind(x))
              = Built(o, [o.file EXCEPT ![f] = ReadEnd(x)], o.pipe, o.iref)
         /\ file_set(o, f, FALSE, TRUE, PipeKind(x))
              = Built(o, [o.file EXCEPT ![f] = WriteEnd(x)], o.pipe, o.iref)
<1> DEFINE er == [Fresh EXCEPT !.readable = TRUE, !.writable = FALSE, !.kind = PipeKind(x)]
           ew == [Fresh EXCEPT !.readable = FALSE, !.writable = TRUE, !.kind = PipeKind(x)]
<1>1. Fresh \in FileRec /\ Fresh.refcnt = 1 /\ PipeKind(x) \in Kinds
  BY AllocIs, KindFacts, Zenon
<1>2. er \in FileRec /\ er.refcnt = 1 /\ er.readable /\ ~er.writable /\ er.kind = PipeKind(x)
  BY <1>1, Zenon DEF FileRec
<1>3. ew \in FileRec /\ ew.refcnt = 1 /\ ~ew.readable /\ ew.writable /\ ew.kind = PipeKind(x)
  BY <1>1, Zenon DEF FileRec
<1>4. file_set(o, f, TRUE, FALSE, PipeKind(x)) = Built(o, [o.file EXCEPT ![f] = er], o.pipe, o.iref)
  BY DEF file_set, Obj, Built
<1>5. file_set(o, f, FALSE, TRUE, PipeKind(x)) = Built(o, [o.file EXCEPT ![f] = ew], o.pipe, o.iref)
  BY DEF file_set, Obj, Built
<1> HIDE DEF er, ew
<1>6. er = ReadEnd(x)
  BY <1>2, EndFacts, FileEq
<1>7. ew = WriteEnd(x)
  BY <1>3, EndFacts, FileEq
<1> QED BY <1>4, <1>5, <1>6, <1>7, Zenon

Unalloc(o, f) == file_close(file_alloc(o, f), f, FALSE)

\* A file that is allocated and closed at once.
LEMMA AllocUndone ==
  ASSUME NEW o \in Obj, NEW f \in Files, o.file[f] = UnusedFile
  PROVE  Unalloc(o, f) = o
<1> DEFINE q == file_alloc(o, f)
<1>1. /\ q \in Obj /\ Fresh.refcnt = 1 /\ Fresh.kind = NoKind
      /\ q = Built(o, [o.file EXCEPT ![f] = Fresh], o.pipe, o.iref)
  BY AllocIs
<1>2. /\ q.file = [o.file EXCEPT ![f] = Fresh] /\ q.pipe = o.pipe /\ q.iref = o.iref
      /\ q.panic = o.panic
  BY <1>1 DEF Built
<1> HIDE DEF q
<1>3. q.file[f].refcnt = 1 /\ q.file[f].kind = NoKind
  BY <1>1, <1>2 DEF Obj
<1>4. file_close(q, f, FALSE) = Built(q, Dropped(q, f), q.pipe, q.iref)
  BY <1>1, <1>3, CloseLast, Zenon
<1>5. Dropped(q, f) = o.file
  BY <1>2, DroppedBack DEF Changed
<1>6. Built(o, o.file, o.pipe, o.iref) = o
  BY DEF Built, Obj
<1> QED BY <1>2, <1>4, <1>5, <1>6, Zenon DEF Unalloc, Built, q

\* A pipe that is allocated.
LEMMA PipeAllocIs ==
  ASSUME NEW o \in Obj, NEW x \in Pipes
  PROVE  /\ pipe_alloc(o, x) = Built(o, o.file, [o.pipe EXCEPT ![x] = OpenPipe], o.iref)
         /\ pipe_alloc(o, x) \in Obj
<1>1. pipe_alloc(o, x) = Built(o, o.file, [o.pipe EXCEPT ![x] = OpenPipe], o.iref)
  BY SetPipe, Zenon DEF pipe_alloc, OpenPipe
<1>2. o.file \in [Files -> FileRec] /\ [o.pipe EXCEPT ![x] = OpenPipe] \in [Pipes -> PipeRec]
      /\ o.iref \in [Inodes -> Nat]
  BY PipeFacts DEF Obj
<1> QED BY <1>1, <1>2, BuiltFacts

\* The pipe that is given back at once.
LEMMA PipeAllocUndone ==
  ASSUME NEW o \in Obj, NEW x \in Pipes, o.pipe[x] = ShutPipe
  PROVE  free_allocated(pipe_alloc(o, x), x) = o
<1> DEFINE q == pipe_alloc(o, x)
<1>1. q \in Obj /\ q = Built(o, o.file, [o.pipe EXCEPT ![x] = OpenPipe], o.iref)
  BY PipeAllocIs
<1>2. /\ q.file = o.file /\ q.pipe = [o.pipe EXCEPT ![x] = OpenPipe] /\ q.iref = o.iref
      /\ q.panic = o.panic
  BY <1>1 DEF Built
<1> HIDE DEF q
<1>3. free_allocated(q, x) = Built(q, q.file, [q.pipe EXCEPT ![x] = ShutPipe], q.iref)
  <2>1. free_allocated(q, x) = [q EXCEPT !.pipe[x] = ShutPipe]
    BY DEF free_allocated, ShutPipe
  <2> QED BY <1>1, <2>1, SetPipe
<1>4. [q.pipe EXCEPT ![x] = ShutPipe] = o.pipe
  BY <1>2, Zenon DEF Obj
<1>5. Built(o, o.file, o.pipe, o.iref) = o
  BY DEF Built, Obj
<1> QED BY <1>2, <1>3, <1>4, <1>5 DEF Built, q

\* The least free pipe.
LEMMA FreePipe ==
  ASSUME Counting, NEW o, free_pipes(o) # {}
  PROVE  Min(free_pipes(o)) \in Pipes /\ Min(free_pipes(o)) \in free_pipes(o)
<1>1. free_pipes(o) \in SUBSET Nat
  BY SizesAssumption DEF free_pipes, Pipes
<1>2. Min(free_pipes(o)) \in free_pipes(o)
  BY <1>1, MinIn
<1> QED BY <1>2 DEF free_pipes

\* sys_pipe without two free files gives back the pipe and the one it found.
LEMMA PipeNoFileKeeps ==
  ASSUME Counting, IInv, NEW p \in Procs, PipeNoFile(p)
  PROVE  IInv'
<1> DEFINE x == Min(free_pipes(obj))
           o1 == pipe_alloc(obj, x)
           r == Min(free_files(o1))
           q == IF free_files(o1) = {} THEN o1 ELSE file_close(file_alloc(o1, r), r, FALSE)
<1>1. Good(obj, ofile, cwd, pstate) /\ obj \in Obj
  BY DEF IInv, Good
<1>2. free_pipes(obj) # {} /\ Return(p, free_allocated(q, x), ofile[p])
  BY Zenon DEF PipeNoFile
<1>3. x \in Pipes /\ obj.pipe[x] = ShutPipe
  BY <1>1, <1>2, FreePipe, FreeFacts DEF ShutPipe
<1> HIDE DEF x
<1>4. o1 \in Obj /\ o1.file = obj.file
  BY <1>1, <1>3, PipeAllocIs DEF Built
<1> HIDE DEF o1
<1>5. q = o1
  <2>1. CASE free_files(o1) = {}
    BY <2>1
  <2>2. CASE free_files(o1) # {}
    <3>1. r \in Files /\ o1.file[r] = UnusedFile
      BY <1>1, <1>4, <2>2, FreeFile, FreeFacts
    <3> HIDE DEF r
    <3>2. Unalloc(o1, r) = o1
      BY <1>4, <3>1, AllocUndone
    <3> QED BY <2>2, <3>2, Zenon DEF Unalloc
  <2> QED BY <2>1, <2>2, Zenon
<1> HIDE DEF q
<1>6. free_allocated(q, x) = obj
  BY <1>1, <1>3, <1>5, PipeAllocUndone DEF o1
<1> QED BY <1>2, <1>6, ReturnSame

\* The files after sys_pipe has made r and w the ends of a pipe.
TwoEnds(file, x, r, w) == [[file EXCEPT ![r] = ReadEnd(x)] EXCEPT ![w] = WriteEnd(x)]
Piped(o, x, r, w) == Built(o, TwoEnds(o.file, x, r, w), [o.pipe EXCEPT ![x] = OpenPipe], o.iref)

\* One pipe and two files are allocated, and the files are its ends.
LEMMA PipeMade ==
  ASSUME NEW o \in Obj, NEW x \in Pipes, NEW r \in Files, NEW w \in Files, r # w
  PROVE  /\ pipe_files(file_alloc(file_alloc(pipe_alloc(o, x), r), w), x, r, w) = Piped(o, x, r, w)
         /\ Piped(o, x, r, w) \in Obj
<1> DEFINE a == pipe_alloc(o, x)
           b == file_alloc(a, r)
           c == file_alloc(b, w)
           d == file_set(c, r, TRUE, FALSE, PipeKind(x))
           e == file_set(d, w, FALSE, TRUE, PipeKind(x))
<1>1. /\ a \in Obj /\ a.file = o.file /\ a.pipe = [o.pipe EXCEPT ![x] = OpenPipe]
      /\ a.iref = o.iref /\ a.panic = o.panic
  BY PipeAllocIs DEF Built
<1> HIDE DEF a
<1>2. /\ b \in Obj /\ b.file = [a.file EXCEPT ![r] = Fresh] /\ b.pipe = a.pipe
      /\ b.iref = a.iref /\ b.panic = a.panic
  BY <1>1, AllocParts
<1> HIDE DEF b
<1>3. /\ c \in Obj /\ c.file = [b.file EXCEPT ![w] = Fresh] /\ c.pipe = b.pipe
      /\ c.iref = b.iref /\ c.panic = b.panic
  BY <1>2, AllocParts
<1> HIDE DEF c
<1>4. c.file[r] = Fresh /\ c.file[w] = Fresh
  BY <1>1, <1>2, <1>3 DEF Obj
<1>5. d = Built(c, [c.file EXCEPT ![r] = ReadEnd(x)], c.pipe, c.iref)
  BY <1>3, <1>4, SetFresh, Zenon
<1> HIDE DEF d
<1>6. /\ d \in Obj /\ d.file = [c.file EXCEPT ![r] = ReadEnd(x)] /\ d.pipe = c.pipe
      /\ d.iref = c.iref /\ d.panic = c.panic
  <2>1. [c.file EXCEPT ![r] = ReadEnd(x)] \in [Files -> FileRec] /\ c.pipe \in [Pipes -> PipeRec]
        /\ c.iref \in [Inodes -> Nat]
    BY <1>3, EndFacts DEF Obj
  <2> QED BY <1>3, <1>5, <2>1, BuiltFacts
<1>7. d.file[w] = Fresh
  BY <1>3, <1>4, <1>6 DEF Obj
<1>8. e = Built(d, [d.file EXCEPT ![w] = WriteEnd(x)], d.pipe, d.iref)
  BY <1>6, <1>7, SetFresh, Zenon
<1>9. [d.file EXCEPT ![w] = WriteEnd(x)] = TwoEnds(o.file, x, r, w)
  BY <1>1, <1>2, <1>3, <1>6 DEF Obj, TwoEnds
<1>10. e = Piped(o, x, r, w)
  BY <1>1, <1>2, <1>3, <1>6, <1>8, <1>9, Zenon DEF Built, Piped
<1>11. Piped(o, x, r, w) \in Obj
  <2>1. TwoEnds(o.file, x, r, w) \in [Files -> FileRec] /\ o.iref \in [Inodes -> Nat]
        /\ [o.pipe EXCEPT ![x] = OpenPipe] \in [Pipes -> PipeRec]
    BY EndFacts, PipeFacts DEF Obj, TwoEnds
  <2> QED BY <2>1, BuiltFacts DEF Piped
<1> QED BY <1>10, <1>11, Zenon DEF pipe_files, a, b, c, d

\* The ends are closed again, the reading one first, and nothing remains.
LEMMA PipeUndone ==
  ASSUME NEW o \in Obj, NEW x \in Pipes, NEW r \in Files, NEW w \in Files, r # w,
         o.file[r] = UnusedFile, o.file[w] = UnusedFile, o.pipe[x] = ShutPipe
  PROVE  pipe_undo(Piped(o, x, r, w), r, w) = o
<1> DEFINE q == Piped(o, x, r, w)
           half == [o.pipe EXCEPT ![x] = HalfPipe]
           s == file_close(q, r, FALSE)
           u == file_close(s, w, FALSE)
<1>1. /\ q \in Obj /\ q.file = TwoEnds(o.file, x, r, w) /\ q.iref = o.iref
      /\ q.pipe = [o.pipe EXCEPT ![x] = OpenPipe] /\ q.panic = o.panic
  BY PipeMade DEF Piped, Built
<1> HIDE DEF q
<1>2. q.file[r] = ReadEnd(x) /\ q.pipe[x] = OpenPipe
  BY <1>1 DEF TwoEnds, Obj
<1>3. s = Built(q, Dropped(q, r), [q.pipe EXCEPT ![x] = Shut(q.pipe[x], q.file[r].writable)], q.iref)
  <2>1. q.file[r].refcnt = 1 /\ q.file[r].kind = PipeKind(x)
    BY <1>2, EndFacts
  <2>2. s = Unpiped(q, r, x)
    BY <1>1, <2>1, CloseLastPipe, Zenon
  <2> QED BY <2>2, Zenon DEF Unpiped
<1>4. Shut(q.pipe[x], q.file[r].writable) = HalfPipe
  <2>1. q.file[r].writable \in BOOLEAN /\ ~q.file[r].writable
    BY <1>2, EndFacts DEF FileRec
  <2> QED BY <1>2, <2>1, ShutFacts
<1>5. [q.pipe EXCEPT ![x] = HalfPipe] = half
  BY <1>1 DEF Obj
<1> HIDE DEF s
<1>6. /\ s \in Obj /\ s.file = Dropped(q, r) /\ s.pipe = half /\ s.iref = o.iref
      /\ s.panic = o.panic
  <2>1. /\ Dropped(q, r) \in [Files -> FileRec] /\ half \in [Pipes -> PipeRec]
        /\ q.iref \in [Inodes -> Nat]
    BY <1>1, UnusedFacts, PipeFacts DEF Obj, Dropped
  <2>2. s = Built(q, Dropped(q, r), half, q.iref)
    BY <1>3, <1>4, <1>5
  <2> HIDE DEF half
  <2> QED BY <1>1, <2>1, <2>2, BuiltFacts
<1>7. s.file[w] = WriteEnd(x) /\ s.pipe[x] = HalfPipe
  BY <1>1, <1>6 DEF TwoEnds, Dropped, Obj
<1>8. u = Built(s, Dropped(s, w), [s.pipe EXCEPT ![x] = Shut(s.pipe[x], s.file[w].writable)], s.iref)
  <2>1. s.file[w].refcnt = 1 /\ s.file[w].kind = PipeKind(x)
    BY <1>7, EndFacts
  <2>2. u = Unpiped(s, w, x)
    BY <1>6, <2>1, CloseLastPipe, Zenon
  <2> QED BY <2>2, Zenon DEF Unpiped
<1>9. Shut(s.pipe[x], s.file[w].writable) = ShutPipe
  <2>1. s.file[w].writable \in BOOLEAN /\ s.file[w].writable
    BY <1>7, EndFacts DEF FileRec
  <2> QED BY <1>7, <2>1, ShutFacts, Zenon
<1>10. [s.pipe EXCEPT ![x] = ShutPipe] = o.pipe
  BY <1>6, Zenon DEF Obj
<1>11. Dropped(s, w) = o.file
  BY <1>1, <1>6, Zenon DEF Dropped, TwoEnds, Obj
<1>12. Built(o, o.file, o.pipe, o.iref) = o
  BY DEF Built, Obj
<1> HIDE DEF u
<1>13. u = o
  BY <1>6, <1>8, <1>9, <1>10, <1>11, <1>12 DEF Built
<1> QED BY <1>13, Zenon DEF pipe_undo, q, s, u

\* sys_pipe with two free descriptors: each end is open and has one file.
LEMMA PipeGood ==
  ASSUME Counting, NEW o, NEW ot \in Tables, NEW cw, NEW ps, Good(o, ot, cw, ps), NEW p \in Procs,
         NEW rfd \in Fds, NEW wfd \in Fds, rfd # wfd, ot[p][rfd] = Null, ot[p][wfd] = Null,
         NEW r \in Files, NEW w \in Files, r # w, o.file[r].refcnt = 0, o.file[w].refcnt = 0,
         NEW x \in Pipes, x \in free_pipes(o)
  PROVE  Good(Piped(o, x, r, w), Set(Set(ot, p, rfd, r), p, wfd, w), cw, ps)
<1> DEFINE q == Piped(o, x, r, w)
           file == [o.file EXCEPT ![r] = ReadEnd(x)]
           m == Built(o, file, o.pipe, o.iref)
           mt == Set(ot, p, rfd, r)
           nt == Set(mt, p, wfd, w)
<1>1. o \in Obj /\ ~o.panic /\ FilesOK(o, ot) /\ PipesOK(o) /\ Counted(o, cw, ps)
  BY DEF Good
<1>2. o.iref \in [Inodes -> Nat] /\ o.file \in [Files -> FileRec] /\ o.pipe \in [Pipes -> PipeRec]
  BY <1>1 DEF Obj
<1>3. file \in [Files -> FileRec]
  BY <1>2, EndFacts
<1>4. m \in Obj /\ Changed(o, m, r, ReadEnd(x))
  <2>1. m \in Obj /\ m.file = file
    <3> HIDE DEF file
    <3> QED BY <1>1, <1>2, <1>3, BuiltFacts
  <2> HIDE DEF m
  <2> QED BY <2>1 DEF Changed
<1>5. /\ q \in Obj /\ ~q.panic /\ q.iref = o.iref /\ q.pipe = [o.pipe EXCEPT ![x] = OpenPipe]
      /\ Changed(m, q, w, WriteEnd(x))
  <2>1. q \in Obj
    BY <1>1, PipeMade
  <2>2. q.iref = o.iref /\ q.pipe = [o.pipe EXCEPT ![x] = OpenPipe] /\ q.panic = o.panic
    BY DEF Piped, Built
  <2>3. Changed(m, q, w, WriteEnd(x))
    BY DEF Changed, Piped, Built, TwoEnds
  <2>4. ~q.panic
    <3> HIDE DEF q
    <3> QED BY <1>1, <2>2, Zenon
  <2> QED BY <2>1, <2>2, <2>3, <2>4
<1> HIDE DEF m, q
<1>6. mt \in Tables /\ mt[p][wfd] = Null
  BY DEF Tables, Set
<1> HIDE DEF mt
<1>7. More(o, m, r, ReadEnd(x), mt)
  BY <1>1, <1>4, EndFacts, AddFile DEF mt
<1>8. m.file[w].refcnt = 0
  BY <1>7 DEF More
<1>9. FilesOK(m, mt)
  BY <1>7 DEF More
<1>10. More(m, q, w, WriteEnd(x), nt)
  BY <1>4, <1>5, <1>6, <1>8, <1>9, EndFacts, AddFile
<1>11. FilesOK(q, nt)
  BY <1>10 DEF More
<1>12. \A i : PipeKind(x) # InodeKind(i) /\ (PipeKind(x) = PipeKind(i) <=> i = x)
  BY KindFacts
<1>13. \A i : Held(q, i) = Held(o, i)
  <2>1. \A i : Held(m, i) = Held(o, i)
    BY <1>7, <1>12, EndFacts DEF More
  <2>2. \A i : Held(q, i) = Held(m, i)
    BY <1>10, <1>12, EndFacts DEF More
  <2> QED BY <2>1, <2>2
<1>14. Counted(q, cw, ps)
  BY <1>1, <1>5, <1>13 DEF Counted
<1>15. /\ q.file[r] = ReadEnd(x) /\ q.file[w] = WriteEnd(x)
       /\ \A g \in Files : g # r /\ g # w => q.file[g] = o.file[g]
  BY <1>7, <1>10 DEF More
<1>16. ASSUME NEW y \in Pipes, y # x PROVE PipeOK(q, y)
  <2>1. Ends(m, y) = Ends(o, y) /\ r \notin Ends(o, y)
    BY <1>7, <1>12, <1>16, EndFacts DEF More
  <2>2. Ends(q, y) = Ends(m, y) /\ w \notin Ends(m, y)
    BY <1>10, <1>12, <1>16, EndFacts DEF More
  <2>3. PipeOK(o, y) /\ q.pipe[y] = o.pipe[y]
    BY <1>1, <1>2, <1>5, <1>16 DEF PipesOK
  <2>4. \A g \in Ends(o, y) : q.file[g] = o.file[g]
    BY <1>15, <2>1, <2>2 DEF Ends
  <2> QED BY <2>1, <2>2, <2>3, <2>4, PipeSame
<1>17. PipeOK(q, x)
  <2>1. Ends(q, x) = {r, w}
    <3>1. Ends(o, x) = {}
      BY FreeFacts
    <3>2. Ends(m, x) = Ends(o, x) \cup {r}
      BY <1>7, <1>12, EndFacts DEF More
    <3>3. Ends(q, x) = Ends(m, x) \cup {w}
      BY <1>10, <1>12, EndFacts DEF More
    <3> QED BY <3>1, <3>2, <3>3
  <2>2. q.pipe[x] = OpenPipe
    BY <1>2, <1>5
  <2>3. /\ q.file[r].readable /\ ~q.file[r].writable
        /\ ~q.file[w].readable /\ q.file[w].writable
    BY <1>15, EndFacts
  <2>4. q.pipe[x].used /\ q.pipe[x].readopen /\ q.pipe[x].writeopen
    BY <2>2, PipeFacts
  <2>5. \A f \in Ends(q, x) : q.file[f].readable <=> ~q.file[f].writable
    BY <2>1, <2>3
  <2>6. \A f, g \in Ends(q, x) : (q.file[f].writable <=> q.file[g].writable) => f = g
    BY <2>1, <2>3
  <2>7. /\ r \in Ends(q, x) /\ w \in Ends(q, x)
    BY <2>1
  <2> QED BY <2>3, <2>4, <2>5, <2>6, <2>7 DEF PipeOK
<1> QED BY <1>5, <1>11, <1>14, <1>16, <1>17 DEF Good, PipesOK, mt, q

\* Of two free entries one is left when the other is taken.
LEMMA OneLeft ==
  ASSUME Counting, NEW S, Cardinality(S) >= 2, NEW a
  PROVE  S # {} /\ S \ {a} # {}
<1>1. Cardinality({}) = 0
  BY DEF Counting, EmptySet
<1>2. Cardinality({a}) = 1
  BY Zenon DEF Counting, Singleton
<1>3. S # {} /\ S # {a}
  BY <1>1, <1>2
<1> QED BY <1>3

\* sys_pipe.
LEMMA PipeKeeps ==
  ASSUME Counting, IInv, NEW p \in Procs, NEW bad \in BOOLEAN, Pipe(p, bad)
  PROVE  IInv'
<1> DEFINE x == Min(free_pipes(obj))
           r == Min(free_files(obj))
           o1 == file_alloc(pipe_alloc(obj, x), r)
           w == Min(free_files(o1))
           o2 == pipe_files(file_alloc(o1, w), x, r, w)
           rfd == Min(free_fds(ofile[p]))
           t1 == [ofile[p] EXCEPT ![rfd] = r]
           wfd == Min(free_fds(t1))
           t2 == [t1 EXCEPT ![wfd] = w]
<1>1. /\ Good(obj, ofile, cwd, pstate) /\ obj \in Obj /\ ofile \in Tables
      /\ ofile[p] \in [Fds -> Files \cup {Null}] /\ Call(p)
  BY TypeIs DEF IInv, Good, Tables, Pipe
<1>2. /\ free_pipes(obj) # {} /\ Cardinality(free_files(obj)) >= 2
      /\ \/ Return(p, pipe_undo(o2, r, w), ofile[p])
         \/ Cardinality(free_fds(ofile[p])) >= 2 /\ Return(p, o2, t2)
  <2>1. free_pipes(obj) # {} /\ Cardinality(free_files(obj)) >= 2
    BY DEF Pipe
  <2>2. \/ Return(p, pipe_undo(o2, r, w), ofile[p])
        \/ ~(Cardinality(free_fds(ofile[p])) < 2) /\ Return(p, o2, t2)
    BY DEF Pipe
  <2>3. Cardinality(free_fds(ofile[p])) \in Nat
    <3>1. IsFiniteSet(Fds)
      BY SizesAssumption DEF Counting, Interval, Fds
    <3>2. free_fds(ofile[p]) \in SUBSET Fds
      BY DEF free_fds
    <3> QED BY <3>1, <3>2 DEF Counting, Subset, CardinalityType
  <2>4. ~(Cardinality(free_fds(ofile[p])) < 2) => Cardinality(free_fds(ofile[p])) >= 2
    BY <2>3
  <2> QED BY <2>1, <2>2, <2>4
<1>3. x \in Pipes /\ x \in free_pipes(obj) /\ obj.pipe[x] = ShutPipe
  BY <1>1, <1>2, FreePipe, FreeFacts DEF ShutPipe
<1>4. r \in Files /\ obj.file[r].refcnt = 0
  BY <1>2, OneLeft, FreeFile
<1> HIDE DEF x, r
<1>5. o1 \in Obj /\ o1.file = [obj.file EXCEPT ![r] = Fresh] /\ Fresh.refcnt = 1
  <2>1. pipe_alloc(obj, x) \in Obj /\ pipe_alloc(obj, x).file = obj.file
    BY <1>1, <1>3, PipeAllocIs DEF Built
  <2> QED BY <1>4, <2>1, AllocIs, AllocParts
<1> HIDE DEF o1
<1>6. free_files(o1) = free_files(obj) \ {r}
  BY <1>1, <1>4, <1>5 DEF free_files, Obj
<1>7. w \in Files /\ o1.file[w].refcnt = 0
  BY <1>2, <1>6, OneLeft, FreeFile, Zenon
<1> HIDE DEF w
<1>8. w # r /\ obj.file[w].refcnt = 0
  BY <1>1, <1>4, <1>5, <1>7 DEF Obj
<1>9. o2 = Piped(obj, x, r, w)
  BY <1>1, <1>3, <1>4, <1>7, <1>8, PipeMade DEF o1
<1> HIDE DEF o2
<1>10. CASE Return(p, pipe_undo(o2, r, w), ofile[p])
  <2>1. obj.file[r] = UnusedFile /\ obj.file[w] = UnusedFile
    BY <1>1, <1>4, <1>7, <1>8, FreeFacts
  <2>2. pipe_undo(o2, r, w) = obj
    BY <1>1, <1>3, <1>4, <1>7, <1>8, <1>9, <2>1, PipeUndone
  <2> QED BY <1>10, <2>2, ReturnSame
<1>11. CASE Cardinality(free_fds(ofile[p])) >= 2 /\ Return(p, o2, t2)
  <2>1. rfd \in Fds /\ ofile[p][rfd] = Null
    BY <1>1, <1>11, OneLeft, FreeFd
  <2> HIDE DEF rfd
  <2>2. t1 \in [Fds -> Files \cup {Null}]
    BY <1>1, <1>4, Zenon
  <2>3. free_fds(t1) = free_fds(ofile[p]) \ {rfd}
    <3>1. r # Null
      BY <1>4 DEF Files, Null
    <3> QED BY <1>1, <2>1, <3>1 DEF free_fds
  <2>4. wfd \in Fds /\ t1[wfd] = Null
    <3> HIDE DEF t1
    <3> QED BY <1>11, <2>2, <2>3, OneLeft, FreeFd
  <2> HIDE DEF wfd
  <2>5. wfd # rfd /\ ofile[p][wfd] = Null
    <3>1. r # Null
      BY <1>4 DEF Files, Null
    <3> QED BY <1>1, <2>1, <2>4, <3>1
  <2>6. Good(o2, Set(Set(ofile, p, rfd, r), p, wfd, w), cwd, pstate)
    BY <1>1, <1>3, <1>4, <1>7, <1>8, <1>9, <2>1, <2>4, <2>5, PipeGood
  <2>7. t2 \in [Fds -> Files \cup {Null}] /\ Set(Set(ofile, p, rfd, r), p, wfd, w) = [ofile EXCEPT ![p] = t2]
    BY <1>1, <1>4, <1>7, Zenon DEF Set, Tables
  <2> HIDE DEF t2
  <2> QED BY <1>1, <1>11, <2>6, <2>7, ReturnKeeps, Zenon
<1> QED BY <1>2, <1>10, <1>11
-----------------------------------------------------------------------------
(* Working directories.                                                      *)

\* The counts change from o to q as the working directories do; a surplus is
\* allowed for the root only.
Moved(o, q, cw, ps, nc, np) ==
    \A j \in Inodes :
        /\ q.iref[j] + Cardinality(Here(cw, ps, j)) >= o.iref[j] + Cardinality(Here(nc, np, j))
        /\ j # Root => q.iref[j] + Cardinality(Here(cw, ps, j))
                          = o.iref[j] + Cardinality(Here(nc, np, j))

\* Then they stay right.
LEMMA CountedMoves ==
  ASSUME Counting, NEW o \in Obj, NEW q \in Obj, \A i : Held(q, i) = Held(o, i),
         NEW cw, NEW ps, NEW nc, NEW np, Counted(o, cw, ps), Moved(o, q, cw, ps, nc, np)
  PROVE  Counted(q, nc, np)
<1> SUFFICES ASSUME NEW j \in Inodes
             PROVE  /\ q.iref[j] >= Cardinality(Held(q, j)) + Cardinality(Here(nc, np, j))
                    /\ j # Root => q.iref[j] = Cardinality(Held(q, j)) + Cardinality(Here(nc, np, j))
  BY DEF Counted
<1> DEFINE a == o.iref[j]
           b == q.iref[j]
           h == Cardinality(Held(o, j))
           m == Cardinality(Here(cw, ps, j))
           n == Cardinality(Here(nc, np, j))
<1>1. a \in Nat /\ b \in Nat
  BY DEF Obj
<1>2. h \in Nat /\ m \in Nat
  BY OwnersFinite
<1>3. n \in Nat
  BY OwnersFinite
<1>4. a >= h + m /\ (j # Root => a = h + m)
  BY DEF Counted
<1>5. b + m >= a + n /\ (j # Root => b + m = a + n)
  BY DEF Moved
<1>6. Held(q, j) = Held(o, j)
  OBVIOUS
<1>7. SUFFICES b >= h + n /\ (j # Root => b = h + n)
  BY <1>6
<1> HIDE DEF a, b, h, m, n
<1> QED BY <1>1, <1>2, <1>3, <1>4, <1>5

\* A process has a reference to its working directory.
LEMMA CwdCounted ==
  ASSUME Counting, NEW o \in Obj, NEW cw, NEW ps, Counted(o, cw, ps), NEW p \in Procs,
         ps[p] # "Unused", cw[p] \in Inodes
  PROVE  o.iref[cw[p]] >= 1 /\ Cardinality(Here(cw, ps, cw[p])) >= 1
<1> DEFINE d == cw[p]
           H == Here(cw, ps, d)
<1>1. p \in H
  BY DEF Here
<1>2. IsFiniteSet(H) /\ Cardinality(H) \in Nat /\ Cardinality(Held(o, d)) \in Nat
  BY OwnersFinite
<1>3. Cardinality(H) >= 1
  <2> HIDE DEF H
  <2>1. Cardinality(H \ {p}) = Cardinality(H) - 1 /\ Cardinality(H \ {p}) \in Nat
    BY <1>1, <1>2 DEF Counting, RemoveElement, CardinalityType
  <2> QED BY <1>2, <2>1
<1>4. o.iref[d] >= Cardinality(Held(o, d)) + Cardinality(H) /\ o.iref[d] \in Nat
  BY DEF Counted, Obj
<1> HIDE DEF H
<1>5. o.iref[d] >= 1
  BY <1>2, <1>3, <1>4
<1> QED BY <1>3, <1>5 DEF H

\* A finite set with and without one element.
LEMMA PlusMinus ==
  ASSUME Counting, NEW H, IsFiniteSet(H), NEW p
  PROVE  /\ p \notin H => Cardinality(H \cup {p}) = Cardinality(H) + 1
         /\ p \in H => Cardinality(H \ {p}) = Cardinality(H) - 1
         /\ Cardinality(H) \in Nat
BY DEF Counting, AddElement, RemoveElement, CardinalityType

\* Taking a reference more than there are owners is allowed for the root.
LEMMA RootGood ==
  ASSUME Counting, NEW o, NEW ot, NEW cw, NEW ps, Good(o, ot, cw, ps)
  PROVE  Good(iget(o, Root), ot, cw, ps)
<1> DEFINE q == iget(o, Root)
           iref == [o.iref EXCEPT ![Root] = o.iref[Root] + 1]
<1>1. o \in Obj /\ ~o.panic /\ FilesOK(o, ot) /\ PipesOK(o) /\ Counted(o, cw, ps)
  BY DEF Good
<1>2. Root \in Inodes /\ o.iref \in [Inodes -> Nat]
  BY <1>1, SizesAssumption DEF Inodes, Obj
<1>3. iref \in [Inodes -> Nat] /\ q = Built(o, o.file, o.pipe, iref)
  <2>1. iref \in [Inodes -> Nat]
    BY <1>2
  <2>2. q = Built(o, o.file, o.pipe, iref)
    BY <1>1, <1>2, InodeGives, Zenon
  <2> QED BY <2>1, <2>2
<1> HIDE DEF q
<1>4. /\ q \in Obj /\ q.iref = iref /\ q.panic = o.panic /\ FilesOK(q, ot) /\ PipesOK(q)
      /\ \A i : Held(q, i) = Held(o, i)
  <2>1. Recounted(o, q, iref)
    BY <1>1, <1>3, IrefOnly, Zenon
  <2> QED BY <1>1, <2>1, Zenon DEF Recounted
<1>5. Counted(q, cw, ps)
  <2>1. \A j \in Inodes : /\ q.iref[j] >= o.iref[j] /\ q.iref[j] \in Nat /\ o.iref[j] \in Nat
                          /\ j # Root => q.iref[j] = o.iref[j]
    BY <1>2, <1>3, <1>4
  <2>2. \A j \in Inodes : Cardinality(Here(cw, ps, j)) \in Nat
    BY OwnersFinite
  <2>3. Moved(o, q, cw, ps, cw, ps)
    BY <2>1, <2>2 DEF Moved
  <2> QED BY <1>1, <1>4, <2>3, CountedMoves, Zenon
<1>6. ~q.panic
  BY <1>1, <1>4, Zenon
<1> QED BY <1>4, <1>5, <1>6 DEF Good, q

\* Reference counts iref that follow the owners from cw to nc.
Follows(iref, o, cw, ps, nc, np) ==
    \A j \in Inodes :
        iref[j] + Cardinality(Here(cw, ps, j)) = o.iref[j] + Cardinality(Here(nc, np, j))

\* They are right if they were.
LEMMA MoveGood ==
  ASSUME Counting, NEW o, NEW ot, NEW cw, NEW ps, NEW nc, NEW np, Good(o, ot, cw, ps),
         NEW iref \in [Inodes -> Nat], NEW q, q = Built(o, o.file, o.pipe, iref),
         Follows(iref, o, cw, ps, nc, np)
  PROVE  Good(q, ot, nc, np)
<1>1. o \in Obj /\ ~o.panic /\ FilesOK(o, ot) /\ PipesOK(o) /\ Counted(o, cw, ps)
  BY DEF Good
<1>2. /\ q \in Obj /\ q.iref = iref /\ q.panic = o.panic /\ FilesOK(q, ot) /\ PipesOK(q)
      /\ \A i : Held(q, i) = Held(o, i)
  <2>1. Recounted(o, q, iref)
    BY <1>1, IrefOnly, Zenon
  <2> QED BY <1>1, <2>1, Zenon DEF Recounted
<1>3. \A j \in Inodes : /\ o.iref[j] \in Nat
                        /\ Cardinality(Here(nc, np, j)) \in Nat
  BY <1>1, OwnersFinite DEF Obj
<1>4. Moved(o, q, cw, ps, nc, np)
  BY <1>2, <1>3 DEF Follows, Moved
<1>5. Counted(q, nc, np)
  BY <1>1, <1>2, <1>4, CountedMoves, Zenon
<1>6. ~q.panic
  BY <1>1, <1>2, Zenon
<1> QED BY <1>2, <1>5, <1>6 DEF Good

\* sys_chdir: the new directory is referred to before the old one is given up.
LEMMA ChdirKeeps ==
  ASSUME Counting, IInv, NEW p \in Procs, p # INITPROC, NEW i \in Inodes, Chdir(p, i)
  PROVE  IInv'
<1> DEFINE d == cwd[p]
           g == iget(obj, i)
           more == [obj.iref EXCEPT ![i] = obj.iref[i] + 1]
           iref == [more EXCEPT ![d] = more[d] - 1]
           nc == [cwd EXCEPT ![p] = i]
<1>1. /\ Good(obj, ofile, cwd, pstate) /\ obj \in Obj /\ Counted(obj, cwd, pstate)
      /\ ofile \in Tables /\ cwd \in [Procs -> Dirs] /\ ProcsOK(ofile, cwd, pstate)
      /\ pstate \in [Procs -> {"Unused", "Live", "Zombie"}]
      /\ ofile' = ofile /\ pstate' = pstate /\ pstate[p] = "Live"
  BY TypeIs DEF IInv, Good, Chdir, Call
<1>2. CASE i \notin Dirs
  <2>1. obj' = obj /\ cwd' = cwd
    BY <1>1, <1>2, GetPut DEF Chdir
  <2> QED BY <1>1, <2>1, NextInv
<1>3. CASE i \in Dirs
  <2>1. obj' = iput(g, d) /\ cwd' = nc
    BY <1>3 DEF Chdir
  <2>2. d \in Dirs /\ d \in Inodes /\ obj.iref \in [Inodes -> Nat]
    BY <1>1 DEF Inodes, Obj
  <2>3. obj.iref[d] >= 1 /\ obj.iref[d] \in Nat
    <3>1. obj.iref[d] >= 1
      BY <1>1, <2>2, CwdCounted
    <3> QED BY <2>2, <3>1
  <2>4. more \in [Inodes -> Nat] /\ more[d] >= 1 /\ more[d] \in Nat
    BY <2>2, <2>3
  <2>5. iref \in [Inodes -> Nat]
    <3> HIDE DEF more
    <3> QED BY <2>2, <2>4
  <2>6. g = Built(obj, obj.file, obj.pipe, more)
    BY <1>1, InodeGives, Zenon
  <2> HIDE DEF g, more
  <2>7. g \in Obj /\ g.file = obj.file /\ g.pipe = obj.pipe /\ g.iref = more /\ g.panic = obj.panic
    <3>1. Recounted(obj, g, more)
      BY <1>1, <2>4, <2>6, IrefOnly, Zenon
    <3> QED BY <3>1, Zenon DEF Recounted
  <2>8. iput(g, d) = Built(g, g.file, g.pipe, [g.iref EXCEPT ![d] = g.iref[d] - 1])
    BY <2>2, <2>4, <2>7, InodeGives, Zenon
  <2>9. iput(g, d) = Built(obj, obj.file, obj.pipe, iref)
    BY <2>7, <2>8 DEF Built
  <2>10. ASSUME NEW j \in Inodes
         PROVE  iref[j] + Cardinality(Here(cwd, pstate, j))
                  = obj.iref[j] + Cardinality(Here(nc, pstate, j))
    <3> DEFINE H == Here(cwd, pstate, j)
    <3>1. Here(nc, pstate, j) = IF j = i THEN H \cup {p} ELSE H \ {p}
      BY <1>1, <1>3 DEF Here
    <3>2. p \in H <=> j = d
      BY <1>1 DEF Here
    <3>3. IsFiniteSet(H)
      BY OwnersFinite
    <3>4. more[j] = (IF j = i THEN obj.iref[j] + 1 ELSE obj.iref[j]) /\ obj.iref[j] \in Nat
      BY <2>2 DEF more
    <3>5. iref[j] = IF j = d THEN more[j] - 1 ELSE more[j]
      BY <2>2, <2>4
    <3> DEFINE h == Cardinality(H)
               n == Cardinality(Here(nc, pstate, j))
    <3> HIDE DEF H, iref, d
    <3>6. h \in Nat
      BY <3>3 DEF Counting, CardinalityType
    <3>7. CASE j = i /\ j = d
      <4>1. Here(nc, pstate, j) = H
        BY <3>1, <3>2, <3>7, Zenon
      <4> QED BY <3>4, <3>5, <3>6, <3>7, <4>1 DEF H
    <3>8. CASE j = i /\ j # d
      <4>1. n = h + 1
        BY <3>1, <3>2, <3>3, <3>8, PlusMinus, Zenon
      <4>2. iref[j] = obj.iref[j] + 1
        BY <3>4, <3>5, <3>8
      <4> HIDE DEF h, n
      <4>3. iref[j] + h = obj.iref[j] + n
        BY <3>4, <3>6, <4>1, <4>2
      <4> QED BY <4>3 DEF h, n, H
    <3>9. CASE j # i /\ j = d
      <4>1. n = h - 1
        BY <3>1, <3>2, <3>3, <3>9, PlusMinus, Zenon
      <4>2. iref[j] = obj.iref[j] - 1
        BY <3>4, <3>5, <3>9
      <4> HIDE DEF h, n
      <4>3. iref[j] + h = obj.iref[j] + n
        BY <3>4, <3>6, <4>1, <4>2
      <4> QED BY <4>3 DEF h, n, H
    <3>10. CASE j # i /\ j # d
      <4>1. Here(nc, pstate, j) = H
        BY <3>1, <3>2, <3>10, Zenon
      <4> QED BY <3>4, <3>5, <3>6, <3>10, <4>1 DEF H
    <3> QED BY <3>7, <3>8, <3>9, <3>10
  <2> HIDE DEF iref, nc
  <2>11. Good(obj', ofile, nc, pstate)
    <3>1. Follows(iref, obj, cwd, pstate, nc, pstate)
      BY <2>10 DEF Follows
    <3>2. obj' = Built(obj, obj.file, obj.pipe, iref)
      BY <2>1, <2>9
    <3> QED BY <1>1, <2>5, <3>1, <3>2, MoveGood
  <2>12. nc \in [Procs -> Dirs] /\ nc[INITPROC] = cwd[INITPROC]
    <3>1. INITPROC \in Procs
      BY SizesAssumption DEF INITPROC, Procs
    <3> QED BY <1>1, <1>3, <3>1 DEF nc
  <2>13. ProcsOK(ofile, nc, pstate)
    BY <1>1, <2>12 DEF ProcsOK
  <2> QED BY <1>1, <2>1, <2>11, <2>12, <2>13, NextInv
<1> QED BY <1>2, <1>3

\* allocproc finds the root in the inode cache: init is in it.
LEMMA RootFound ==
  ASSUME Counting, IInv
  PROVE  root_ref(obj) = iget(obj, Root)
<1>1. /\ obj \in Obj /\ Counted(obj, cwd, pstate) /\ ProcsOK(ofile, cwd, pstate)
  BY DEF IInv, Good
<1>2. INITPROC \in Procs /\ Root \in Inodes
  BY SizesAssumption DEF INITPROC, Procs, Inodes
<1>3. obj.iref[Root] >= 1 /\ obj.iref[Root] \in Nat
  <2>1. cwd[INITPROC] = Root /\ pstate[INITPROC] # "Unused"
    BY <1>1 DEF ProcsOK
  <2>2. obj.iref[Root] >= 1
    BY <1>1, <1>2, <2>1, CwdCounted
  <2> QED BY <1>1, <1>2, <2>2 DEF Obj
<1>4. iget_ok(obj, Root)
  BY <1>2, <1>3 DEF iget_ok, cached
<1>5. Panic(obj, iget_ok(obj, Root)) = obj
  <2>1. iget_ok(obj, Root) \in BOOLEAN
    BY DEF iget_ok
  <2> QED BY <1>1, <1>4, <2>1, PanicNot, Zenon
<1> QED BY <1>5 DEF root_ref

\* freeproc of a process without files.
LEMMA FreeprocIs ==
  ASSUME Counting, NEW o, NEW d
  PROVE  freeproc(o, NoFiles, d) = iput(o, d)
<1> DEFINE yes == TRUE
<1> HIDE DEF yes
<1>1. close_all(o, NoFiles, yes) = o
  BY CloseNothing
<1> QED BY <1>1, Zenon DEF freeproc, yes

\* A fork that fails changes nothing.
LEMMA ForkFailsKeeps ==
  ASSUME Counting, IInv, NEW p \in Procs, NEW c \in Procs, ForkFails(p, c)
  PROVE  IInv'
<1>1. obj \in Obj /\ Root \in Inodes
  BY SizesAssumption DEF IInv, Good, Inodes
<1>2. obj' = freeproc(root_ref(obj), NoFiles, Root)
      /\ ofile' = ofile /\ cwd' = cwd /\ pstate' = pstate
  BY DEF ForkFails
<1>3. obj' = obj
  BY <1>1, <1>2, RootFound, FreeprocIs, GetPut
<1>4. /\ Good(obj, ofile, cwd, pstate) /\ ProcsOK(ofile, cwd, pstate) /\ ofile \in Tables
      /\ cwd \in [Procs -> Dirs] /\ pstate \in [Procs -> {"Unused", "Live", "Zombie"}]
  BY TypeIs DEF IInv
<1> QED BY <1>2, <1>3, <1>4, NextInv

\* fork: the child has the parent's files and its working directory.
LEMMA ForkKeeps ==
  ASSUME Counting, IInv, NEW p \in Procs, NEW c \in Procs, Fork(p, c)
  PROVE  IInv'
<1> DEFINE d == cwd[p]
           o1 == iget(obj, Root)
           o2 == dup_all(o1, ofile[p])
           nt == [ofile EXCEPT ![c] = ofile[p]]
           nc == [cwd EXCEPT ![c] = d]
           np == [pstate EXCEPT ![c] = "Live"]
           iref == [o2.iref EXCEPT ![d] = o2.iref[d] + 1]
<1>1. /\ Good(obj, ofile, cwd, pstate) /\ ofile \in Tables /\ cwd \in [Procs -> Dirs]
      /\ pstate \in [Procs -> {"Unused", "Live", "Zombie"}] /\ ProcsOK(ofile, cwd, pstate)
      /\ pstate[p] = "Live" /\ pstate[c] = "Unused"
  BY TypeIs DEF IInv, Fork, Call
<1>2. obj' = idup(o2, d) /\ ofile' = nt /\ cwd' = nc /\ pstate' = np
  BY RootFound DEF Fork
<1>3. c # p /\ ofile[c] = NoFiles /\ c # INITPROC
  BY <1>1 DEF ProcsOK
<1>4. Good(o1, ofile, cwd, pstate)
  BY <1>1, RootGood
<1> HIDE DEF o1
<1>5. Good(o2, nt, cwd, pstate)
  BY <1>1, <1>3, <1>4, DupAllGood
<1> HIDE DEF o2
<1>6. o2 \in Obj /\ Counted(o2, cwd, pstate) /\ o2.iref \in [Inodes -> Nat] /\ d \in Inodes /\ d \in Dirs
  BY <1>1, <1>5 DEF Good, Obj, Inodes
<1>7. o2.iref[d] >= 1
  BY <1>1, <1>6, CwdCounted
<1>8. iref \in [Inodes -> Nat]
  BY <1>6
<1>9. obj' = Built(o2, o2.file, o2.pipe, iref)
  BY <1>2, <1>6, <1>7, InodeGives, Zenon
<1>10. ASSUME NEW j \in Inodes
       PROVE  iref[j] + Cardinality(Here(cwd, pstate, j)) = o2.iref[j] + Cardinality(Here(nc, np, j))
  <2> DEFINE H == Here(cwd, pstate, j)
             h == Cardinality(H)
             n == Cardinality(Here(nc, np, j))
  <2>1. Here(nc, np, j) = IF j = d THEN H \cup {c} ELSE H
    BY <1>1 DEF Here
  <2>2. c \notin H
    BY <1>1 DEF Here
  <2>3. IsFiniteSet(H)
    BY OwnersFinite
  <2> HIDE DEF H
  <2>4. h \in Nat /\ n = IF j = d THEN h + 1 ELSE h
    BY <2>1, <2>2, <2>3, PlusMinus
  <2>5. iref[j] = (IF j = d THEN o2.iref[j] + 1 ELSE o2.iref[j]) /\ o2.iref[j] \in Nat
    BY <1>6
  <2> HIDE DEF h, n, iref, d
  <2>6. iref[j] + h = o2.iref[j] + n
    BY <2>4, <2>5
  <2> QED BY <2>6 DEF h, n, H
<1>11. nt \in Tables /\ nc \in [Procs -> Dirs] /\ np \in [Procs -> {"Unused", "Live", "Zombie"}]
  BY <1>1 DEF Tables
<1>12. ProcsOK(nt, nc, np)
  <2>1. INITPROC \in Procs
    BY SizesAssumption DEF INITPROC, Procs
  <2>2. /\ \A a \in Procs : a # c => nt[a] = ofile[a] /\ nc[a] = cwd[a] /\ np[a] = pstate[a]
        /\ np[c] = "Live"
    BY <1>1 DEF Tables
  <2> QED BY <1>1, <1>3, <2>1, <2>2 DEF ProcsOK
<1> HIDE DEF iref, nc, np, nt
<1>13. Good(obj', nt, nc, np)
  <2>1. Follows(iref, o2, cwd, pstate, nc, np)
    BY <1>10 DEF Follows
  <2> QED BY <1>5, <1>8, <1>9, <2>1, MoveGood
<1> QED BY <1>2, <1>11, <1>12, <1>13, NextInv

\* exit closes every file, and the process keeps its working directory.
LEMMA ExitKeeps ==
  ASSUME Counting, IInv, NEW p \in Procs, Exit(p)
  PROVE  IInv'
<1> DEFINE nt == [ofile EXCEPT ![p] = NoFiles]
           np == [pstate EXCEPT ![p] = "Zombie"]
           q == close_all(obj, ofile[p], FALSE)
<1>1. /\ Good(obj, ofile, cwd, pstate) /\ ofile \in Tables /\ cwd \in [Procs -> Dirs]
      /\ pstate \in [Procs -> {"Unused", "Live", "Zombie"}] /\ ProcsOK(ofile, cwd, pstate)
      /\ pstate[p] = "Live"
  BY TypeIs DEF IInv, Exit, Call
<1>2. obj' = q /\ ofile' = nt /\ pstate' = np /\ cwd' = cwd
  BY DEF Exit
<1>3. Good(q, nt, cwd, pstate)
  BY <1>1, CloseAllGood, Zenon
<1> HIDE DEF q
<1>4. \A j : Here(cwd, np, j) = Here(cwd, pstate, j)
  BY <1>1 DEF Here
<1>5. Good(q, nt, cwd, np)
  BY <1>3, <1>4, Zenon DEF Good, Counted
<1>6. nt \in Tables /\ np \in [Procs -> {"Unused", "Live", "Zombie"}]
  BY <1>1 DEF Tables, NoFiles
<1>7. ProcsOK(nt, cwd, np)
  <2>1. INITPROC \in Procs
    BY SizesAssumption DEF INITPROC, Procs
  <2>2. /\ \A a \in Procs : a # p => nt[a] = ofile[a] /\ np[a] = pstate[a]
        /\ nt[p] = NoFiles /\ np[p] = "Zombie"
    BY <1>1 DEF Tables
  <2> QED BY <1>1, <2>1, <2>2 DEF ProcsOK
<1> QED BY <1>1, <1>2, <1>5, <1>6, <1>7, NextInv

\* wait frees a zombie, which has no file left to close, and its directory.
LEMMA WaitKeeps ==
  ASSUME Counting, IInv, NEW p \in Procs, NEW c \in Procs, Wait(p, c)
  PROVE  IInv'
<1> DEFINE d == cwd[c]
           nt == [ofile EXCEPT ![c] = NoFiles]
           nc == [cwd EXCEPT ![c] = Root]
           np == [pstate EXCEPT ![c] = "Unused"]
           iref == [obj.iref EXCEPT ![d] = obj.iref[d] - 1]
<1>1. /\ Good(obj, ofile, cwd, pstate) /\ ofile \in Tables /\ cwd \in [Procs -> Dirs]
      /\ pstate \in [Procs -> {"Unused", "Live", "Zombie"}] /\ ProcsOK(ofile, cwd, pstate)
      /\ pstate[c] = "Zombie" /\ c # INITPROC
  BY TypeIs DEF IInv, Wait
<1>2. obj' = freeproc(obj, ofile[c], d) /\ ofile' = nt /\ cwd' = nc /\ pstate' = np
  BY DEF Wait
<1>3. ofile[c] = NoFiles
  BY <1>1 DEF ProcsOK
<1>4. obj \in Obj /\ Counted(obj, cwd, pstate) /\ obj.iref \in [Inodes -> Nat] /\ d \in Inodes
  BY <1>1 DEF Good, Obj, Inodes
<1>5. obj.iref[d] >= 1
  BY <1>1, <1>4, CwdCounted
<1>6. iref \in [Inodes -> Nat]
  BY <1>4, <1>5
<1>7. obj' = Built(obj, obj.file, obj.pipe, iref)
  <2>1. obj' = iput(obj, d)
    BY <1>2, <1>3, FreeprocIs
  <2> QED BY <1>4, <1>5, <2>1, InodeGives, Zenon
<1>8. ASSUME NEW j \in Inodes
      PROVE  iref[j] + Cardinality(Here(cwd, pstate, j)) = obj.iref[j] + Cardinality(Here(nc, np, j))
  <2> DEFINE H == Here(cwd, pstate, j)
             h == Cardinality(H)
             n == Cardinality(Here(nc, np, j))
  <2>1. Here(nc, np, j) = H \ {c}
    BY <1>1 DEF Here
  <2>2. c \in H <=> j = d
    BY <1>1 DEF Here
  <2>3. IsFiniteSet(H)
    BY OwnersFinite
  <2> HIDE DEF H
  <2>4. j # d => Here(nc, np, j) = H
    BY <2>1, <2>2, Zenon
  <2>5. h \in Nat /\ n = IF j = d THEN h - 1 ELSE h
    BY <2>1, <2>2, <2>3, <2>4, PlusMinus, Zenon
  <2>6. iref[j] = (IF j = d THEN obj.iref[j] - 1 ELSE obj.iref[j]) /\ obj.iref[j] \in Nat
    BY <1>4
  <2> HIDE DEF h, n, iref, d
  <2>7. iref[j] + h = obj.iref[j] + n
    BY <2>5, <2>6
  <2> QED BY <2>7 DEF h, n, H
<1>9. nt = ofile /\ nc \in [Procs -> Dirs] /\ np \in [Procs -> {"Unused", "Live", "Zombie"}]
  <2>1. nt = ofile
    BY <1>1, <1>3 DEF Tables
  <2> QED BY <1>1, <2>1, SizesAssumption
<1>10. ProcsOK(ofile, nc, np)
  <2>1. INITPROC \in Procs
    BY SizesAssumption DEF INITPROC, Procs
  <2>2. \A a \in Procs : a # c => nc[a] = cwd[a] /\ np[a] = pstate[a]
    BY <1>1
  <2> QED BY <1>1, <1>3, <2>1, <2>2 DEF ProcsOK
<1> HIDE DEF iref, nc, np, nt
<1>11. Good(obj', ofile, nc, np)
  <2>1. Follows(iref, obj, cwd, pstate, nc, np)
    BY <1>8 DEF Follows
  <2> QED BY <1>1, <1>6, <1>7, <2>1, MoveGood
<1> QED BY <1>1, <1>2, <1>9, <1>10, <1>11, NextInv
-----------------------------------------------------------------------------
(* The theorems.                                                             *)

\* userinit leaves the tables in order.
LEMMA InitInv ==
  ASSUME Counting, Init
  PROVE  IInv
<1>0. /\ NFILE \in Nat /\ NOFILE \in Nat /\ NPROC \in Nat /\ NPROC >= 1 /\ NFILE >= 3 /\ NOFILE >= 3
      /\ Root \in Dirs /\ Root \in Inodes /\ INITPROC \in Procs
  BY SizesAssumption DEF INITPROC, Procs, Inodes
<1> DEFINE Start(f) == [refcnt |-> 1, readable |-> f = 1, writable |-> f # 1, kind |-> DeviceKind]
<1>1. /\ obj.file = [f \in Files |-> IF f <= 3 THEN Start(f) ELSE UnusedFile]
      /\ obj.pipe = [x \in Pipes |-> ShutPipe]
      /\ obj.iref = [i \in Inodes |-> IF i = Root THEN 1 ELSE 0]
      /\ ~obj.panic
      /\ ofile = [p \in Procs |-> [fd \in Fds |->
                     IF p = INITPROC /\ fd < 3 THEN fd + 1 ELSE Null]]
      /\ cwd = [p \in Procs |-> Root]
      /\ pstate = [p \in Procs |-> IF p = INITPROC THEN "Live" ELSE "Unused"]
  BY DEF Init, ShutPipe
<1>2. \A f \in Files : Start(f) \in FileRec /\ Start(f).refcnt = 1 /\ Start(f).kind = DeviceKind
  BY KindFacts DEF FileRec
<1> HIDE DEF Start
<1>3. obj \in Obj
  <2>1. obj.file \in [Files -> FileRec]
    BY <1>1, <1>2, UnusedFacts
  <2>2. obj.pipe \in [Pipes -> PipeRec]
    BY <1>1, PipeFacts
  <2>3. obj.iref \in [Inodes -> Nat]
    BY <1>1
  <2>4. obj = [file |-> obj.file, pipe |-> obj.pipe, iref |-> obj.iref, panic |-> FALSE]
    BY DEF Init
  <2>5. \A a \in [Files -> FileRec], b \in [Pipes -> PipeRec], c \in [Inodes -> Nat] :
            [file |-> a, pipe |-> b, iref |-> c, panic |-> FALSE] \in Obj
    BY DEF Obj
  <2> QED BY <2>1, <2>2, <2>3, <2>4, <2>5, Zenon
<1>4. ofile \in Tables /\ cwd \in [Procs -> Dirs] /\ pstate \in [Procs -> {"Unused", "Live", "Zombie"}]
  <2>1. \A fd \in Fds : fd < 3 => fd + 1 \in Files
    BY <1>0 DEF Fds, Files
  <2>2. ofile \in Tables
    BY <1>1, <2>1 DEF Tables
  <2> QED BY <1>0, <1>1, <2>2
<1>5. \A f \in Files : IF f <= 3 THEN /\ obj.file[f].refcnt = 1 /\ obj.file[f].kind = DeviceKind
                       ELSE obj.file[f] = UnusedFile
  BY <1>1, <1>2
<1>6. ASSUME NEW f \in Files
      PROVE  /\ obj.file[f].refcnt = Cardinality(Refs(ofile, f))
             /\ obj.file[f].refcnt = 0 => obj.file[f] = UnusedFile
  <2>1. f \in Nat /\ f # Null
    BY <1>0 DEF Files, Null
  <2>2. \A a \in Procs, b \in Fds : ofile[a][b] = IF a = INITPROC /\ b < 3 THEN b + 1 ELSE Null
    BY <1>1
  <2>3. CASE f <= 3
    <3>1. <<INITPROC, f - 1>> \in Procs \X Fds /\ f - 1 \in Fds /\ f - 1 < 3
      BY <1>0, <2>1, <2>3 DEF Fds, Files
    <3>2. \A a \in Procs, b \in Fds : ofile[a][b] = f <=> a = INITPROC /\ b = f - 1
      <4>1. \A b \in Fds : b \in Nat
        BY <1>0 DEF Fds
      <4> QED BY <2>1, <2>2, <3>1, <4>1
    <3>3. \A e \in Procs \X Fds : ofile[e[1]][e[2]] = f <=> e = <<INITPROC, f - 1>>
      <4> TAKE e \in Procs \X Fds
      <4>1. PICK a \in Procs, b \in Fds : e = <<a, b>>
        OBVIOUS
      <4> QED BY <3>2, <4>1
    <3>4. Refs(ofile, f) = {<<INITPROC, f - 1>>}
      BY <3>1, <3>3 DEF Refs
    <3>5. Cardinality(Refs(ofile, f)) = 1
      BY <3>4, Zenon DEF Counting, Singleton
    <3> QED BY <1>5, <2>3, <3>5
  <2>4. CASE ~(f <= 3)
    <3>1. \A a \in Procs, b \in Fds : ofile[a][b] # f
      <4>1. \A b \in Fds : b \in Nat
        BY <1>0 DEF Fds
      <4> QED BY <2>1, <2>2, <2>4, <4>1
    <3>2. Refs(ofile, f) = {}
      <4>1. ASSUME NEW e \in Procs \X Fds PROVE ofile[e[1]][e[2]] # f
        <5>1. PICK a \in Procs, b \in Fds : e = <<a, b>>
          OBVIOUS
        <5> QED BY <3>1, <5>1
      <4> QED BY <4>1 DEF Refs
    <3>3. Cardinality(Refs(ofile, f)) = 0
      BY <3>2 DEF Counting, EmptySet
    <3> QED BY <1>5, <2>4, <3>3, UnusedFacts
  <2> QED BY <2>3, <2>4
<1>7. \A f \in Files : obj.file[f].kind = NoKind \/ obj.file[f].kind = DeviceKind
  BY <1>5, UnusedFacts
<1>8. \A i : Held(obj, i) = {} /\ Ends(obj, i) = {}
  <2>1. \A i : /\ NoKind # InodeKind(i) /\ NoKind # PipeKind(i)
               /\ DeviceKind # InodeKind(i) /\ DeviceKind # PipeKind(i)
    BY KindFacts
  <2> QED BY <1>7, <2>1 DEF Held, Ends
<1>9. ASSUME NEW x \in Pipes PROVE PipeOK(obj, x)
  <2>1. obj.pipe[x] = ShutPipe
    BY <1>1
  <2>2. ~obj.pipe[x].used /\ ~obj.pipe[x].readopen /\ ~obj.pipe[x].writeopen
    BY <2>1, PipeFacts
  <2> QED BY <1>8, <2>2 DEF PipeOK
<1>10. ASSUME NEW i \in Inodes
       PROVE  obj.iref[i] = Cardinality(Held(obj, i)) + Cardinality(Here(cwd, pstate, i))
  <2>1. Cardinality(Held(obj, i)) = 0
    BY <1>8 DEF Counting, EmptySet
  <2>2. Here(cwd, pstate, i) = IF i = Root THEN {INITPROC} ELSE {}
    BY <1>0, <1>1 DEF Here
  <2>3. Cardinality(Here(cwd, pstate, i)) = IF i = Root THEN 1 ELSE 0
    BY <2>2 DEF Counting, EmptySet, Singleton
  <2> QED BY <1>1, <2>1, <2>3
<1>11. Counted(obj, cwd, pstate)
  <2>1. \A i \in Inodes : obj.iref[i] \in Nat
    BY <1>1
  <2>2. \A i \in Inodes : obj.iref[i] >= Cardinality(Held(obj, i)) + Cardinality(Here(cwd, pstate, i))
    BY <1>10, <2>1
  <2> QED BY <1>10, <2>2 DEF Counted
<1>12. Good(obj, ofile, cwd, pstate)
  BY <1>1, <1>3, <1>6, <1>9, <1>11 DEF Good, FilesOK, PipesOK
<1>13. ProcsOK(ofile, cwd, pstate)
  <2>1. \A p \in Procs : p # INITPROC => ofile[p] = NoFiles
    BY <1>1 DEF NoFiles
  <2> QED BY <1>0, <1>1, <2>1 DEF ProcsOK
<1> QED BY <1>3, <1>4, <1>12, <1>13, TypeIs DEF IInv

\* Every call keeps the tables in order.
LEMMA NextKeeps ==
  ASSUME Counting, IInv, [Next]_vars
  PROVE  IInv'
<1>1. CASE UNCHANGED vars
  <2>1. obj' = obj /\ ofile' = ofile /\ cwd' = cwd /\ pstate' = pstate
    BY <1>1 DEF vars
  <2>2. /\ Good(obj, ofile, cwd, pstate) /\ ProcsOK(ofile, cwd, pstate) /\ ofile \in Tables
        /\ cwd \in [Procs -> Dirs] /\ pstate \in [Procs -> {"Unused", "Live", "Zombie"}]
    BY TypeIs DEF IInv
  <2> QED BY <2>1, <2>2, NextInv
<1>2. CASE Next
  <2>1. PICK p \in Procs :
           \/ \E i \in Inodes, mode \in Modes, trunc \in BOOLEAN :
               OpenFails(p, i, mode, trunc) \/ Open(p, i, mode, trunc)
           \/ \E fd \in Fds : Dup(p, fd) \/ Close(p, fd)
           \/ PipeNoFile(p)
           \/ \E bad \in BOOLEAN : Pipe(p, bad)
           \/ p # INITPROC /\ \E i \in Inodes : Chdir(p, i)
           \/ \E c \in Procs : ForkFails(p, c) \/ Fork(p, c) \/ Wait(p, c)
           \/ Exit(p)
    BY <1>2 DEF Next
  <2>2. CASE \E i \in Inodes, mode \in Modes, trunc \in BOOLEAN :
               OpenFails(p, i, mode, trunc) \/ Open(p, i, mode, trunc)
    BY <2>2, OpenFailsKeeps, OpenKeeps
  <2>3. CASE \E fd \in Fds : Dup(p, fd) \/ Close(p, fd)
    BY <2>3, DupKeeps, CloseKeeps
  <2>4. CASE PipeNoFile(p)
    BY <2>4, PipeNoFileKeeps
  <2>5. CASE \E bad \in BOOLEAN : Pipe(p, bad)
    BY <2>5, PipeKeeps
  <2>6. CASE p # INITPROC /\ \E i \in Inodes : Chdir(p, i)
    BY <2>6, ChdirKeeps
  <2>7. CASE \E c \in Procs : ForkFails(p, c) \/ Fork(p, c) \/ Wait(p, c)
    BY <2>7, ForkFailsKeeps, ForkKeeps, WaitKeeps
  <2>8. CASE Exit(p)
    BY <2>8, ExitKeeps
  <2> QED BY <2>1, <2>2, <2>3, <2>4, <2>5, <2>6, <2>7, <2>8
<1> QED BY <1>1, <1>2

\* What the invariant says of counts, pipe ends, inodes and assertions.
LEMMA InvGives ==
  ASSUME IInv
  PROVE  RefcntIsExact /\ PipeEndsMatchFiles /\ InodesKeptWhileOwned /\ NoPanic
<1>1. /\ TypeOK /\ obj \in Obj /\ ~obj.panic /\ FilesOK(obj, ofile) /\ PipesOK(obj)
      /\ Counted(obj, cwd, pstate)
  BY DEF IInv, Good
<1>2. RefcntIsExact
  BY <1>1 DEF RefcntIsExact, FilesOK, Refs
<1>3. ASSUME NEW f \in Files, NEW k, k # NoKind, obj.file[f].kind = k
      PROVE  obj.file[f].refcnt > 0
  <2>1. obj.file[f].refcnt \in Nat
    BY <1>1 DEF Obj, FileRec
  <2>2. obj.file[f].refcnt # 0
    BY <1>1, <1>3, UnusedFacts DEF FilesOK
  <2> QED BY <2>1, <2>2
<1>4. \A i : NoKind # InodeKind(i) /\ NoKind # PipeKind(i)
  BY KindFacts
<1>5. PipeEndsMatchFiles
  <2>1. SUFFICES ASSUME NEW x \in Pipes,
                        NEW ends, ends = {f \in Files : obj.file[f].refcnt > 0 /\ obj.file[f].kind = PipeKind(x)}
                 PROVE  /\ obj.pipe[x].readopen <=> \E f \in ends : obj.file[f].readable
                        /\ obj.pipe[x].writeopen <=> \E f \in ends : obj.file[f].writable
                        /\ obj.pipe[x].used <=> ends # {}
    BY Zenon DEF PipeEndsMatchFiles
  <2>2. ends = Ends(obj, x)
    BY <1>3, <1>4, <2>1 DEF Ends
  <2>3. PipeOK(obj, x)
    BY <1>1 DEF PipesOK
  <2>4. (\E f \in ends : TRUE) <=> ends # {}
    OBVIOUS
  <2> QED BY <2>2, <2>3, <2>4, Zenon DEF PipeOK
<1>6. InodesKeptWhileOwned
  <2>1. ASSUME NEW i \in Inodes
        PROVE  owners(i) = Cardinality(Held(obj, i)) + Cardinality(Here(cwd, pstate, i))
    <3>1. {f \in Files : obj.file[f].refcnt > 0 /\ obj.file[f].kind = InodeKind(i)} = Held(obj, i)
      BY <1>3, <1>4 DEF Held
    <3> QED BY <3>1, Zenon DEF owners, Here
  <2> QED BY <1>1, <2>1 DEF InodesKeptWhileOwned, Counted
<1> QED BY <1>1, <1>2, <1>5, <1>6 DEF NoPanic
-----------------------------------------------------------------------------
(* The facts of Counting, from the library.                                  *)
Lib == INSTANCE FiniteSetTheorems

\* The library's finite sets and cardinalities are those of FileTable.
LEMMA SameSets ==
  \A S : (IsFiniteSet(S) <=> Lib!IsFiniteSet(S)) /\ Cardinality(S) = Lib!Cardinality(S)
<1>1. \A S : IsFiniteSet(S) <=> Lib!IsFiniteSet(S)
  BY DEF IsFiniteSet, Lib!IsFiniteSet
<1>2. \A S : Cardinality(S) = Lib!Cardinality(S)
  BY Zenon DEF Cardinality, Lib!Cardinality
<1> QED BY <1>1, <1>2

\* A nonempty set of naturals has a least element: the intervals below its
\* elements are finite sets, of which one contains no other.
LEMMA Least == LeastNumber
<1> SUFFICES ASSUME NEW T \in SUBSET Nat, T # {}
             PROVE  \E m \in T : \A k \in T : m <= k
  BY DEF LeastNumber
<1> DEFINE I == {0..n : n \in T}
<1>1. I \subseteq Lib!FiniteSubsetsOf(Nat) /\ I # {}
  <2>1. \A n \in Nat : Lib!IsFiniteSet(0..n) /\ 0..n \in SUBSET Nat
    BY Lib!FS_Interval
  <2> QED BY <2>1, Zenon DEF Lib!FiniteSubsetsOf
<1>2. Lib!IsWellFoundedOn(Lib!StrictSubsetOrdering(Nat), Lib!FiniteSubsetsOf(Nat))
  BY Lib!FS_StrictSubsetOrderingWellFounded
<1>3. PICK x \in I : \A y \in I : <<y, x>> \notin Lib!StrictSubsetOrdering(Nat)
  <2> HIDE DEF I
  <2> QED BY <1>1, <1>2, Lib!WFMin, Zenon
<1>4. PICK m \in T : x = 0..m
  OBVIOUS
<1>5. ASSUME NEW k \in T PROVE m <= k
  <2>1. SUFFICES ASSUME k < m PROVE FALSE
    OBVIOUS
  <2>2. 0..k \subseteq 0..m /\ 0..k # 0..m
    <3>1. m \in 0..m /\ m \notin 0..k
      BY <2>1
    <3> QED BY <2>1, <3>1
  <2>3. <<0..k, 0..m>> \in Lib!StrictSubsetOrdering(Nat)
    BY <2>2 DEF Lib!StrictSubsetOrdering
  <2> QED BY <1>3, <1>4, <2>3, Zenon
<1> QED BY <1>5

\* Counting holds of all sets.
LEMMA CountingHolds == Counting
<1>1. EmptySet
  BY SameSets, Lib!FS_EmptySet DEF EmptySet
<1>2. Singleton
  BY SameSets, Lib!FS_Singleton DEF Singleton
<1>3. CardinalityType
  BY SameSets, Lib!FS_CardinalityType DEF CardinalityType
<1>4. AddElement
  BY SameSets, Lib!FS_AddElement DEF AddElement
<1>5. RemoveElement
  BY SameSets, Lib!FS_RemoveElement DEF RemoveElement
<1>6. Subset
  BY SameSets, Lib!FS_Subset DEF Subset
<1>7. Product
  BY SameSets, Lib!FS_Product DEF Product
<1>8. Interval
  BY SameSets, Lib!FS_Interval DEF Interval
<1> QED BY <1>1, <1>2, <1>3, <1>4, <1>5, <1>6, <1>7, <1>8, Least DEF Counting

\* The counts of files, pipe ends and inode slots are kept by every system call,
\* at every size of the tables.
THEOREM InvariantHolds == Spec => []IInv
<1>1. Init => IInv
  BY InitInv, CountingHolds
<1>2. IInv /\ [Next]_vars => IInv'
  BY NextKeeps, CountingHolds
<1> QED BY <1>1, <1>2, PTL DEF Spec

\* A file's refcnt is the number of descriptors that refer to it: dup, fork,
\* close, exit and every failing open, pipe and fork keep it so.
THEOREM RefcntHolds == Spec => []RefcntIsExact
<1>1. IInv => RefcntIsExact
  BY InvGives
<1> QED BY <1>1, InvariantHolds, PTL

\* An end of a pipe is open exactly while a file stands for it, and its slot is
\* used exactly while an end is open.
THEOREM PipeEndsHold == Spec => []PipeEndsMatchFiles
<1>1. IInv => PipeEndsMatchFiles
  BY InvGives
<1> QED BY <1>1, InvariantHolds, PTL

\* No inode slot is given away while a file or a working directory refers to it,
\* and all but the root's are given up with the last owner.
THEOREM InodesHold == Spec => []InodesKeptWhileOwned
<1>1. IInv => InodesKeptWhileOwned
  BY InvGives
<1> QED BY <1>1, InvariantHolds, PTL

\* No assertion on a count fails, and no pipe is closed under p.lock.
THEOREM NoPanicHolds == Spec => []NoPanic
<1>1. IInv => NoPanic
  BY InvGives
<1> QED BY <1>1, InvariantHolds, PTL
=============================================================================
