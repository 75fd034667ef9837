------------------------------- MODULE Inodes -------------------------------
(***************************************************************************)
(* src/src/fs.rs up to itrunc and _writei: the block bitmap, the dinodes,  *)
(* the inode cache, and the blocks of an inode.  A system call runs        *)
(* without preemption (Proc), so its calls are composed as functions on    *)
(* one record `m`: the disk, the cache, and `ret`, what the last call      *)
(* returned (None where the code has None or 0).                           *)
(*                                                                         *)
(* A block is BSIZE cells.  A cell stands for a byte of a file, a          *)
(* directory entry or an address of an indirect block: a number, with a    *)
(* name in an entry.  The buffer cache between this and the disk is the    *)
(* module BufCache.                                                        *)
(***************************************************************************)
EXTENDS Integers, Sequences
LOCAL INSTANCE FiniteSetsExt
LOCAL INSTANCE SequencesExt

CONSTANTS BSIZE, NDIRECT, NINDIRECT,
          NBLOCKS,   \* data blocks: the block numbers DATASTART..FSSIZE - 1
          NINODES,   \* dinodes on disk, number 0 unused
          NINODE     \* slots of the inode cache

ASSUME InodesAssumption ==
    /\ BSIZE \in Nat \ {0} /\ NDIRECT \in Nat \ {0} /\ NINDIRECT \in 1..BSIZE
    /\ NBLOCKS \in Nat /\ NINODES \in Nat \ {0, 1} /\ NINODE \in Nat \ {0}

None == 0
Blocks == 1..NBLOCKS
Inums == 1..NINODES - 1
Slots == 1..NINODE
MAXFILE == NDIRECT + NINDIRECT
T_DIR == 1
T_FILE == 2

Cell(n, name) == [n |-> n, name |-> name]
Zero == Cell(0, "")
Zeros == [i \in 0..BSIZE - 1 |-> Zero]

\* Dinode, and the in-memory Inode around a copy of it.
FreeDinode == [typ |-> 0, nlink |-> 0, size |-> 0, addrs |-> [i \in 0..NDIRECT |-> None]]
EmptyInode == [inum |-> 0, refcnt |-> 0, valid |-> FALSE, di |-> FreeDinode]

\* init: a disk of zeros and an empty cache.
Blank == [used |-> {}, block |-> [b \in Blocks |-> Zeros],
          dinode |-> [i \in Inums |-> FreeDinode],
          icache |-> [s \in Slots |-> EmptyInode],
          panic |-> FALSE, ret |-> None, end |-> 0]

Ret(m, r) == [m EXCEPT !.ret = r]
Panic(m, ok) == [m EXCEPT !.panic = @ \/ ~ok]
-----------------------------------------------------------------------------
(* The bitmap.                                                               *)
claim(m, b) == [m EXCEPT !.used = @ \cup {b}, !.block[b] = Zeros, !.ret = b]

balloc(m) ==
    IF Blocks \subseteq m.used THEN Ret(m, None) ELSE claim(m, Min(Blocks \ m.used))

bfree(m, b) == [Panic(m, b \in m.used) EXCEPT !.used = @ \ {b}]
-----------------------------------------------------------------------------
(* The inode cache.                                                          *)
inodes_of(m, inum) == {s \in Slots : m.icache[s].refcnt > 0 /\ m.icache[s].inum = inum}
free_slots(m) == {s \in Slots : m.icache[s].refcnt = 0}

again(m, s) == Ret([m EXCEPT !.icache[s].refcnt = @ + 1], s)

iget(m, inum) ==
    IF inodes_of(m, inum) # {} THEN again(m, Min(inodes_of(m, inum)))
    ELSE IF free_slots(m) = {} THEN Ret(m, None)
    ELSE Ret([m EXCEPT !.icache[Min(free_slots(m))] =
                           [EmptyInode EXCEPT !.inum = inum, !.refcnt = 1]],
             Min(free_slots(m)))

idup(m, s) == again(Panic(m, m.icache[s].refcnt >= 1), s)

\* A slot whose count is 0 is only ever filled anew: what it held is dropped here.
iput(m, s) ==
    [Panic(m, m.icache[s].refcnt >= 1) EXCEPT
        !.icache[s] = IF @.refcnt > 1 THEN [@ EXCEPT !.refcnt = @ - 1] ELSE EmptyInode]

\* iput of s on the way out of a call that returns r.
put_ret(m, s, r) == Ret(iput(m, s), r)

ilock(m, s) ==
    IF m.icache[s].valid THEN m
    ELSE [m EXCEPT !.icache[s].valid = TRUE, !.icache[s].di = m.dinode[m.icache[s].inum]]

iupdate(m, s) == [m EXCEPT !.dinode[m.icache[s].inum] = m.icache[s].di]

ialloc(m, typ) ==
    LET unused == {i \in Inums : m.dinode[i].typ = 0}
    IN  IF unused = {} THEN Ret(m, None)
        ELSE iget([m EXCEPT !.dinode[Min(unused)] = [FreeDinode EXCEPT !.typ = typ]],
                  Min(unused))
-----------------------------------------------------------------------------
(* The blocks of the inode in slot s, which the caller has locked.           *)
bmap_lookup(m, di, bn) ==
    CASE bn < NDIRECT -> di.addrs[bn]
      [] bn \in NDIRECT..MAXFILE - 1 /\ di.addrs[NDIRECT] # None ->
            m.block[di.addrs[NDIRECT]][bn - NDIRECT].n
      [] OTHER -> None

\* addrs[i], allocated first if there is none.
addr_alloc(m, s, i) ==
    IF m.icache[s].di.addrs[i] # None THEN Ret(m, m.icache[s].di.addrs[i]) ELSE balloc(m)

set_addr(m, s, i) == IF m.ret = None THEN m ELSE [m EXCEPT !.icache[s].di.addrs[i] = m.ret]

\* Entry i of the indirect block b.
entry_alloc(m, b, i) == IF m.block[b][i].n # 0 THEN Ret(m, m.block[b][i].n) ELSE balloc(m)

set_entry(m, b, i) ==
    IF m.ret = None THEN m ELSE [m EXCEPT !.block[b][i] = Cell(m.ret, "")]

through_indirect(m, i) ==
    IF m.ret = None THEN m ELSE set_entry(entry_alloc(m, m.ret, i), m.ret, i)

bmap_alloc(m, s, bn) ==
    IF bn < NDIRECT THEN set_addr(addr_alloc(m, s, bn), s, bn)
    ELSE IF bn >= MAXFILE THEN Ret(m, None)
    ELSE through_indirect(set_addr(addr_alloc(m, s, NDIRECT), s, NDIRECT), bn - NDIRECT)

\* One turn of the loops of zero_fill and _writei: the part of src, a function
\* from offsets to cells, that falls into block bn.
put_block(m, bn, src, hi) ==
    IF m.ret = None THEN m
    ELSE [m EXCEPT !.end = Min({hi, (bn + 1) * BSIZE}),
                   !.block[m.ret] = [i \in 0..BSIZE - 1 |->
                       IF bn * BSIZE + i \in DOMAIN src THEN src[bn * BSIZE + i] ELSE @[i]]]

\* The loops: the offsets lo..hi - 1, up to m.end, where a block is missing.
put_cells(m, s, lo, hi, src) ==
    FoldLeft(LAMBDA t, bn : IF t.ret = None THEN t
                            ELSE put_block(bmap_alloc(t, s, bn), bn, src, hi),
             [m EXCEPT !.end = lo, !.ret = s],
             [k \in 1..((hi - 1) \div BSIZE) - (lo \div BSIZE) + 1 |-> (lo \div BSIZE) + k - 1])

zero_fill(m, s, from, to) == put_cells(m, s, from, to, [x \in from..to - 1 |-> Zero])

\* Wrong: the size that a filled gap gave is not saved when no data followed.
written_if_data(m, s, off, size_changed) ==
    IF m.end > off
    THEN Ret(iupdate([m EXCEPT !.icache[s].di.size = Max({@, m.end})], s), m.end - off)
    ELSE Ret(m, 0)

\* The end of _writei: the new size, and iupdate if anything was written.
written(m, s, off, size_changed) ==
    IF m.end > off \/ size_changed
    THEN Ret(iupdate([m EXCEPT !.icache[s].di.size = Max({@, m.end})], s), m.end - off)
    ELSE Ret(m, 0)

write_from(m, s, off, src, size_changed) ==
    written(put_cells(m, s, off, off + Len(src),
                      [x \in off..off + Len(src) - 1 |-> src[x - off + 1]]),
            s, off, size_changed)

after_gap(m, s, off, src) ==
    IF m.end < off THEN Ret(m, 0)
    ELSE write_from([m EXCEPT !.icache[s].di.size = off], s, off, src, TRUE)

\* Wrong: the gap below off is not filled.
writei_sparse(m, s, off, src) ==
    IF src = <<>> \/ off + Len(src) > MAXFILE * BSIZE THEN Ret(m, 0)
    ELSE write_from(m, s, off, src, FALSE)

writei(m, s, off, src) ==
    IF src = <<>> \/ off + Len(src) > MAXFILE * BSIZE THEN Ret(m, 0)
    ELSE IF off > m.icache[s].di.size
    THEN after_gap(zero_fill(m, s, m.icache[s].di.size, off), s, off, src)
    ELSE write_from(m, s, off, src, FALSE)

\* A block of the first n cells that is not there: readi panics when it comes to it.
hole(m, di, n) == \E bn \in 0..MAXFILE - 1 : bn * BSIZE < n /\ bmap_lookup(m, di, bn) = None

\* The first n cells of an inode without a hole there.
cells(m, di, n) ==
    [k \in 1..n |-> m.block[bmap_lookup(m, di, (k - 1) \div BSIZE)][(k - 1) % BSIZE]]

\* What _readi copies.
readi(m, di, off, n) == SubSeq(cells(m, di, di.size), off + 1, Min({off + n, di.size}))

\* The blocks itrunc frees, in its order.
freed(m, di) ==
    SelectSeq([i \in 1..NDIRECT |-> di.addrs[i - 1]]
              \o (IF di.addrs[NDIRECT] = None THEN <<>>
                  ELSE [i \in 1..NINDIRECT |-> m.block[di.addrs[NDIRECT]][i - 1].n])
              \o <<di.addrs[NDIRECT]>>,
              LAMBDA b : b # None)

\* Wrong: the addresses of the freed blocks stay in the inode.
itrunc_keeps(m, s) ==
    iupdate([FoldLeft(bfree, m, freed(m, m.icache[s].di)) EXCEPT !.icache[s].di.size = 0], s)

itrunc(m, s) ==
    iupdate([FoldLeft(bfree, m, freed(m, m.icache[s].di)) EXCEPT
                !.icache[s].di.addrs = FreeDinode.addrs, !.icache[s].di.size = 0], s)
=============================================================================
