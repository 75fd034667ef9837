------------------------------ MODULE ProcTree ------------------------------
(***************************************************************************)
(* What fork, exit and wait promise to user programs, without slots, locks *)
(* or sleeping: processes are pids, each but the first has a parent, a     *)
(* process that has exited keeps its code until its parent is told.        *)
(***************************************************************************)
EXTENDS Integers

CONSTANT Codes       \* exit codes

VARIABLES live,      \* pids of processes that have not exited
          exited,    \* <<pid, code>> of those that have and are not reaped
          kin,       \* <<child, parent>> for every process not reaped
          lastpid,   \* pids up to this one have been given out
          told       \* the last answer of wait: who asked, which child, its code

tvars == <<live, exited, kin, lastpid, told>>

InitPid == 1

TInit ==
    /\ live = {InitPid} /\ exited = {} /\ kin = {}
    /\ lastpid = InitPid
    /\ told = [by |-> 0, pid |-> 0, xstate |-> 0]

\* fork in process p: a child with a pid never given out before.
TFork(p) ==
    /\ p \in live
    /\ lastpid' = lastpid + 1
    /\ live' = live \cup {lastpid + 1}
    /\ kin' = kin \cup {<<lastpid + 1, p>>}
    /\ UNCHANGED <<exited, told>>

\* A fork that fails for lack of memory may have used up a pid.
TForkFails ==
    /\ lastpid' = lastpid + 1
    /\ UNCHANGED <<live, exited, kin, told>>

\* exit in process p: its children, exited or not, become the first process's.
TExit(p, code) ==
    /\ p \in live
    /\ live' = live \ {p}
    /\ exited' = exited \cup {<<p, code>>}
    /\ kin' = IF p = InitPid THEN kin
              ELSE {<<k[1], IF k[2] = p THEN InitPid ELSE k[2]>> : k \in kin}
    /\ UNCHANGED <<lastpid, told>>

\* wait in process p reports an exited child, once.
TWait(p, z) ==
    /\ p \in live /\ z \in exited /\ <<z[1], p>> \in kin
    /\ exited' = exited \ {z}
    /\ kin' = kin \ {<<z[1], p>>}
    /\ told' = [by |-> p, pid |-> z[1], xstate |-> z[2]]
    /\ UNCHANGED <<live, lastpid>>

TNext ==
    \/ TForkFails
    \/ \E p \in live : \/ TFork(p)
                       \/ \E z \in exited : TWait(p, z)
                       \/ \E code \in Codes : TExit(p, code)

TSpec == TInit /\ [][TNext]_tvars
=============================================================================
