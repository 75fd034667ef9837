-------------------------------- MODULE Cpu --------------------------------
(***************************************************************************)
(* src/src/cpu.rs: the interrupt state of the only hart.  A value of       *)
(* CpuState holds the nesting depth and saved flag of struct Cpu and       *)
(* sstatus.SIE.  The operations are functions on such values, so that an   *)
(* action can run several of them in the order the code does.              *)
(***************************************************************************)
EXTENDS Naturals

CpuState == [noff : Nat, intena : BOOLEAN, sie : BOOLEAN]

intr_off(c) == [c EXCEPT !.sie = FALSE]
intr_on(c) == [c EXCEPT !.sie = TRUE]

\* Wrong: the depth is counted but interrupts stay on.
push_off_unmasked(c) ==
    [noff   |-> c.noff + 1,
     intena |-> IF c.noff = 0 THEN c.sie ELSE c.intena,
     sie    |-> c.sie]

push_off(c) ==
    [noff   |-> c.noff + 1,
     intena |-> IF c.noff = 0 THEN c.sie ELSE c.intena,
     sie    |-> FALSE]

\* The two assertions of pop_off; a failed one stops it before it changes noff.
pop_off_ok(c) == ~c.sie /\ c.noff >= 1

pop_off(c) ==
    [noff   |-> IF c.noff >= 1 THEN c.noff - 1 ELSE 0,
     intena |-> c.intena,
     sie    |-> c.sie \/ (c.noff = 1 /\ c.intena)]

\* A critical section entered and left again: what `acquire ... release`
\* leaves behind.  At depth 0 it overwrites intena.
critical(c) == pop_off(push_off(c))

\* What the hardware does to SIE when a trap is taken in S-mode or U-mode.
trap(c) == [c EXCEPT !.sie = FALSE]
=============================================================================
