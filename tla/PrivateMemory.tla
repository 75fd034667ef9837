--------------------------- MODULE PrivateMemory ---------------------------
(***************************************************************************)
(* What the kernel promises about user memory: every process has pages of  *)
(* its own, numbered from zero, and a stack; a new page is zero; fork      *)
(* copies all of it; exec replaces all of it; nobody else changes it.      *)
(***************************************************************************)
EXTENDS Integers, Sequences

CONSTANTS Slots, None

VARIABLE mem   \* by slot, [cells, stack]: the contents of the pages, or None

image(m) == m # None /\ \A i \in DOMAIN m.cells : m.cells[i] = "image"

\* The first process has its image and an empty stack.
MInit == \E q \in Slots :
    /\ image(mem[q]) /\ mem[q].stack = "zero"
    /\ \A r \in Slots \ {q} : mem[r] = None

\* One page of p is written.
MStore(p) ==
    \/ \E i \in DOMAIN mem[p].cells : mem' = [mem EXCEPT ![p].cells[i] = "value"]
    \/ mem' = [mem EXCEPT ![p].stack = "value"]

MFork(p) == \E q \in Slots : mem[q] = None /\ mem' = [mem EXCEPT ![q] = mem[p]]

\* sbrk adds pages at the end.
MGrow(p) == mem'[p] # None /\ \E n \in 1..Len(mem'[p].cells) :
    mem' = [mem EXCEPT ![p].cells = @ \o [i \in 1..n |-> "zero"]]

\* exec leaves nothing of the old contents.
MExec(p) ==
    /\ image(mem'[p]) /\ mem'[p].stack = "args"
    /\ \A r \in Slots \ {p} : mem'[r] = mem[r]

MFree(p) == mem' = [mem EXCEPT ![p] = None]

MNext == \E p \in Slots :
    /\ mem[p] # None
    /\ MStore(p) \/ MFork(p) \/ MGrow(p) \/ MExec(p) \/ MFree(p)

MSpec == MInit /\ [][MNext]_mem
=============================================================================
