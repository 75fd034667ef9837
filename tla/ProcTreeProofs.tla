--------------------------- MODULE ProcTreeProofs ---------------------------
(***************************************************************************)
(* The process tree of Proc, for every size of the process table: parents  *)
(* stay alive and no wakeup is lost, by the inductive invariant Kinship;   *)
(* and the table implements ProcTree: the refinement mapping of Proc takes *)
(* the initial state to the initial state and every step to one step of    *)
(* the tree or to none.                                                    *)
(***************************************************************************)
EXTENDS ProcProofs

(* The process tree.  Only fork, exit and wait change pid or parent; other   *)
(* steps change state between values other than Unused and Zombie.           *)

SameKin == /\ UNCHANGED <<pid, parent>> /\ NEXT_PID' \in {NEXT_PID, NEXT_PID + 1}
           /\ \A p \in Procs : /\ state'[p] = "Unused" <=> state[p] = "Unused"
                               /\ state'[p] = "Zombie" <=> state[p] = "Zombie"

\* A step that changes no pid and no parent, and makes no slot used or free,
\* keeps Kinship.
LEMMA KinshipSame ==
    ASSUME TypeOK, Kinship, SameKin
    PROVE  Kinship'
  <1>1. INITPROC \in Procs
    BY NPROCAssumption DEF INITPROC, Procs
  <1>2. ParentIsAlive'
    BY DEF Kinship, ParentIsAlive, SameKin
  <1>3. ASSUME NEW p \in Procs PROVE pid'[p] < NEXT_PID'
    <2>1. pid[p] \in Nat /\ NEXT_PID \in Nat /\ pid[p] < NEXT_PID
      BY DEF Kinship, TypeOK
    <2>. QED BY <2>1 DEF SameKin
  <1>. QED BY <1>1, <1>2, <1>3 DEF Kinship, SameKin

\* init alone, its own kin.
LEMMA KinshipInit == Init => Kinship
  <1>1. INITPROC \in Procs
    BY NPROCAssumption DEF INITPROC, Procs
  <1>. QED BY <1>1 DEF Init, Kinship, ParentIsAlive, Null

\* The parts of Kinship as facts on one slot.
LEMMA KinshipOf ==
    ASSUME TypeOK, Kinship, NEW p \in Procs
    PROVE  /\ pid[p] < NEXT_PID /\ pid[p] \in Nat /\ NEXT_PID \in Nat
           /\ state[p] = "Unused" => parent[p] = Null
           /\ p # INITPROC /\ state[p] # "Unused" =>
                 /\ pid[p] > 1 /\ parent[p] \in Procs /\ state[parent[p]] # "Unused"
                 /\ state[parent[p]] = "Zombie" => parent[p] = INITPROC
                 /\ pid[parent[p]] < pid[p]
           /\ INITPROC \in Procs /\ state[INITPROC] # "Unused"
           /\ parent[INITPROC] = Null /\ pid[INITPROC] = 1
  <1>1. INITPROC \in Procs
    BY NPROCAssumption DEF INITPROC, Procs
  <1>. QED BY <1>1 DEF Kinship, ParentIsAlive, TypeOK

\* sys_fork keeps Kinship: the child is younger than its parent.
LEMMA KinshipFork ==
    ASSUME NEW p \in Procs, TypeOK, Control, Kinship, Fork(p)
    PROVE  Kinship'
  <1>0. state[p] = "Running"
    BY EcallHolds DEF Fork
  <1>1. PICK child \in Procs :
            /\ state[child] = "Unused" /\ NEXT_PID' = NEXT_PID + 1
            /\ pid' = [pid EXCEPT ![child] = NEXT_PID]
            /\ parent' = [parent EXCEPT ![child] = p]
            /\ state' = [state EXCEPT ![child] = "Runnable"]
    BY Zenon DEF Fork, first, unused
  <1>2. child # INITPROC /\ child # p
    BY <1>0, <1>1, KinshipOf
  <1>3. /\ pid'[child] = NEXT_PID /\ parent'[child] = p /\ state'[child] = "Runnable"
        /\ \A q \in Procs : q # child => pid'[q] = pid[q] /\ parent'[q] = parent[q]
                                         /\ state'[q] = state[q]
    BY <1>1 DEF TypeOK
  <1>4. ASSUME NEW q \in Procs, q # INITPROC, state'[q] # "Unused"
        PROVE  /\ parent'[q] \in Procs /\ state'[parent'[q]] # "Unused"
               /\ state'[parent'[q]] = "Zombie" => parent'[q] = INITPROC
               /\ pid'[parent'[q]] < pid'[q]
    <2>1. CASE q = child
      BY <1>0, <1>2, <1>3, <2>1, KinshipOf
    <2>2. CASE q # child
      <3>1. parent[q] \in Procs /\ parent[q] # child
        BY <1>1, <1>3, <1>4, <2>2, KinshipOf
      <3>2. /\ state[q] # "Unused" /\ parent'[q] = parent[q] /\ pid'[q] = pid[q]
            /\ pid'[parent[q]] = pid[parent[q]] /\ state'[parent[q]] = state[parent[q]]
        BY <1>3, <1>4, <2>2, <3>1
      <3>3. /\ state[parent[q]] # "Unused" /\ pid[parent[q]] < pid[q]
            /\ state[parent[q]] = "Zombie" => parent[q] = INITPROC
        BY <1>4, <3>2, KinshipOf
      <3>. QED BY <3>1, <3>2, <3>3
    <2>. QED BY <2>1, <2>2
  <1>5. INITPROC \in Procs /\ state'[INITPROC] # "Unused" /\ parent'[INITPROC] = Null
        /\ pid'[INITPROC] = 1
    BY <1>2, <1>3, KinshipOf
  <1>6. ASSUME NEW q \in Procs
        PROVE  /\ pid'[q] < NEXT_PID'
               /\ state'[q] = "Unused" => parent'[q] = Null
               /\ q # INITPROC /\ state'[q] # "Unused" => pid'[q] > 1
    <2>1. CASE q = child
      <3>1. NEXT_PID \in Nat /\ NEXT_PID > 1
        BY KinshipOf DEF TypeOK
      <3>. QED BY <1>1, <1>3, <2>1, <3>1
    <2>2. CASE q # child
      <3>1. pid[q] \in Nat /\ NEXT_PID \in Nat /\ pid[q] < NEXT_PID
        BY KinshipOf DEF TypeOK
      <3>2. pid'[q] = pid[q] /\ parent'[q] = parent[q] /\ state'[q] = state[q]
        BY <1>3, <2>2
      <3>3. /\ state[q] = "Unused" => parent[q] = Null
            /\ q # INITPROC /\ state[q] # "Unused" => pid[q] > 1
        BY KinshipOf
      <3>4. NEXT_PID' = NEXT_PID + 1
        BY <1>1
      <3>5. pid'[q] < NEXT_PID'
        BY <3>1, <3>2, <3>4
      <3>. QED BY <3>2, <3>3, <3>5
    <2>. QED BY <2>1, <2>2
  <1>. QED BY <1>4, <1>5, <1>6 DEF Kinship, ParentIsAlive

\* exit keeps Kinship: the children go to init.
LEMMA KinshipExit ==
    ASSUME NEW p \in Procs, NEW code, TypeOK, Control, Kinship, Exit(p, code)
    PROVE  Kinship'
  <1>0. state[p] = "Running"
    BY EcallHolds DEF Exit
  <1>1. pid' = pid /\ NEXT_PID' = NEXT_PID
    BY DEF Exit
  <1>2. \A q \in Procs : parent'[q] = IF p # INITPROC /\ parent[q] = p THEN INITPROC
                                                                       ELSE parent[q]
    BY DEF Exit, reparent
  <1>3. state' = [exit_wakeup(p) EXCEPT ![p] = "Zombie"]
        /\ exit_wakeup(p) \in [Procs -> States]
    BY WakeupType DEF Exit, exit_wakeup, reparent_wakeup, TypeOK
  <1>4. /\ state'[p] = "Zombie"
        /\ \A q \in Procs : /\ state'[q] = "Unused" <=> state[q] = "Unused"
                            /\ q # p => (state'[q] = "Zombie" <=> state[q] = "Zombie")
    BY <1>0, <1>3, ExitWakes
  <1>5. ASSUME NEW q \in Procs, q # INITPROC, state'[q] # "Unused"
        PROVE  /\ parent'[q] \in Procs /\ state'[parent'[q]] # "Unused"
               /\ state'[parent'[q]] = "Zombie" => parent'[q] = INITPROC
               /\ pid'[parent'[q]] < pid'[q]
    <2>1. /\ parent[q] \in Procs /\ state[parent[q]] # "Unused"
          /\ state[parent[q]] = "Zombie" => parent[q] = INITPROC
          /\ pid[parent[q]] < pid[q] /\ pid[q] > 1
      BY <1>4, <1>5, KinshipOf
    <2>2. INITPROC \in Procs /\ state[INITPROC] # "Unused" /\ pid[INITPROC] = 1
      BY KinshipOf
    <2>3. CASE p # INITPROC /\ parent[q] = p
      <3>1. parent'[q] = INITPROC
        BY <1>2, <2>3
      <3>. QED BY <1>1, <1>4, <2>1, <2>2, <3>1
    <2>4. CASE ~(p # INITPROC /\ parent[q] = p)
      <3>1. parent'[q] = parent[q]
        BY <1>2, <2>4
      <3>2. state'[parent[q]] # "Unused"
        BY <1>4, <2>1
      <3>3. state'[parent[q]] = "Zombie" => parent[q] = INITPROC
        BY <1>4, <2>1, <2>4
      <3>. QED BY <1>1, <2>1, <3>1, <3>2, <3>3
    <2>. QED BY <2>3, <2>4
  <1>6. /\ INITPROC \in Procs /\ state'[INITPROC] # "Unused" /\ parent'[INITPROC] = Null
        /\ pid'[INITPROC] = 1
    BY <1>1, <1>2, <1>4, KinshipOf DEF Null, Procs
  <1>7. ASSUME NEW q \in Procs
        PROVE  /\ pid'[q] < NEXT_PID'
               /\ state'[q] = "Unused" => parent'[q] = Null
               /\ q # INITPROC /\ state'[q] # "Unused" => pid'[q] > 1
    <2>1. /\ pid[q] < NEXT_PID
          /\ state[q] = "Unused" => parent[q] = Null
          /\ q # INITPROC /\ state[q] # "Unused" => pid[q] > 1
      BY KinshipOf
    <2>2. p # Null
      BY DEF Null, Procs
    <2>3. parent[q] = Null => parent'[q] = Null
      BY <1>2, <2>2
    <2>. QED BY <1>1, <1>4, <2>1, <2>3
  <1>. QED BY <1>5, <1>6, <1>7 DEF Kinship, ParentIsAlive

\* Reaping in wait keeps Kinship: nobody is the child of a zombie but init's.
LEMMA KinshipReap ==
    ASSUME NEW p \in Procs, NEW ptr, NEW c, TypeOK, Kinship, state[p] = "Running",
           wait_reap(p, ptr, c)
    PROVE  Kinship'
  <1>1. PICK child \in Procs : parent[child] = p /\ state[child] = "Zombie" /\ freeproc(child)
    BY DEF wait_reap, first, zombies, children
  <1>2. NEXT_PID' = NEXT_PID
    BY DEF wait_reap, wait_return
  <1>3. /\ pid'[child] = 0 /\ parent'[child] = Null /\ state'[child] = "Unused"
        /\ \A q \in Procs : q # child => pid'[q] = pid[q] /\ parent'[q] = parent[q]
                                         /\ state'[q] = state[q]
    BY <1>1 DEF freeproc, TypeOK
  <1>4. child # INITPROC
    BY <1>1, KinshipOf DEF Null, Procs
  <1>5. ASSUME NEW q \in Procs, q # INITPROC, state'[q] # "Unused"
        PROVE  /\ parent'[q] \in Procs /\ state'[parent'[q]] # "Unused"
               /\ state'[parent'[q]] = "Zombie" => parent'[q] = INITPROC
               /\ pid'[parent'[q]] < pid'[q]
    <2>1. q # child /\ parent[q] \in Procs /\ parent[q] # child
      BY <1>1, <1>3, <1>4, <1>5, KinshipOf
    <2>2. /\ parent'[q] = parent[q] /\ pid'[q] = pid[q] /\ state[q] # "Unused"
          /\ state'[parent[q]] = state[parent[q]] /\ pid'[parent[q]] = pid[parent[q]]
      BY <1>3, <1>5, <2>1
    <2>. QED BY <1>5, <2>1, <2>2, KinshipOf
  <1>6. /\ INITPROC \in Procs /\ state'[INITPROC] # "Unused" /\ parent'[INITPROC] = Null
        /\ pid'[INITPROC] = 1
    BY <1>3, <1>4, KinshipOf
  <1>7. ASSUME NEW q \in Procs
        PROVE  /\ pid'[q] < NEXT_PID'
               /\ state'[q] = "Unused" => parent'[q] = Null
               /\ q # INITPROC /\ state'[q] # "Unused" => pid'[q] > 1
    <2>0. pid[q] < NEXT_PID /\ pid[q] \in Nat /\ NEXT_PID \in Nat
      BY KinshipOf
    <2>1. NEXT_PID > 0
      BY <2>0
    <2>. QED BY <1>2, <1>3, <2>1, KinshipOf
  <1>. QED BY <1>5, <1>6, <1>7 DEF Kinship, ParentIsAlive

\* A step that is none of fork, exit, reaping, falling asleep and input: the
\* tree stays, nobody falls asleep and no input appears.
Quiet == /\ SameKin
         /\ \A p \in Procs : state'[p] = "Sleeping" =>
                                 state[p] = "Sleeping" /\ chan'[p] = chan[p]
         /\ avail' => avail

\* A quiet step loses no wakeup.
LEMMA QuietKeeps ==
    ASSUME TypeOK, Quiet, NoLostWakeup
    PROVE  NoLostWakeup'
  BY DEF Quiet, SameKin, NoLostWakeup, children, zombies

\* scheduler, returns from sched, failed forks and timer interrupts are quiet.
LEMMA QuietSteps ==
    ASSUME TypeOK, Control,
           \/ Scheduler \/ SchedulerTimer \/ Receive \/ Halted \/ UNCHANGED vars
           \/ \E p \in Procs :
                 \/ Forkret(p) \/ YieldReturn(p) \/ SleepReturn(p) \/ Usertrapret(p) \/ Kret(p)
                 \/ ForkFull(p) \/ ForkNoMemory(p) \/ UserTimer(p) \/ KernelTimer(p)
    PROVE  Quiet
  <1>0. ASSUME UNCHANGED <<state, pid, parent, NEXT_PID, avail>>,
               \A p \in Procs : state[p] = "Sleeping" => chan'[p] = chan[p]
        PROVE  Quiet
    BY <1>0 DEF Quiet, SameKin
  <1>1. CASE SchedulerRun
    <2>1. /\ state[si] = "Runnable" /\ si \in Procs /\ UNCHANGED <<pid, parent, NEXT_PID, chan, avail>>
          /\ state' = [state EXCEPT ![si] = "Running"]
      BY <1>1 DEF SchedulerRun, io
    <2>. QED BY <2>1 DEF Quiet, SameKin, TypeOK
  <1>2. CASE SchedulerTop \/ SchedulerSkip \/ SchedulerReturn \/ SchedulerTimer \/ Receive
             \/ Halted \/ UNCHANGED vars
    <2>1. UNCHANGED <<state, pid, parent, NEXT_PID, avail, chan>>
      BY <1>2 DEF SchedulerTop, SchedulerSkip, SchedulerReturn, SchedulerTimer, Receive, Halted,
                  vars, table, io
    <2>. QED BY <1>0, <2>1, Zenon
  <1>3. ASSUME NEW p \in Procs,
               Forkret(p) \/ YieldReturn(p) \/ Usertrapret(p) \/ Kret(p) \/ ForkFull(p)
        PROVE  Quiet
    <2>1. UNCHANGED <<state, pid, parent, NEXT_PID, avail, chan>>
      BY <1>3 DEF Forkret, YieldReturn, Usertrapret, Kret, ForkFull, table, io
    <2>. QED BY <1>0, <2>1
  <1>4. ASSUME NEW p \in Procs, SleepReturn(p) PROVE Quiet
    <2>1. on = p /\ UNCHANGED <<state, pid, parent, NEXT_PID, avail>>
          /\ chan' = [chan EXCEPT ![p] = 0]
      BY <1>4 DEF SleepReturn, At, io
    <2>2. state[p] = "Running"
      BY <2>1 DEF Control
    <2>. QED BY <1>0, <2>1, <2>2 DEF TypeOK
  <1>5. ASSUME NEW p \in Procs, ForkNoMemory(p) PROVE Quiet
    BY <1>5 DEF ForkNoMemory, Quiet, SameKin, io
  <1>6. ASSUME NEW p \in Procs, UserTimer(p) \/ KernelTimer(p) PROVE Quiet
    <2>1. on = p /\ UNCHANGED <<pid, parent, NEXT_PID, avail, chan>>
          /\ state' = [state EXCEPT ![p] = "Runnable"]
      BY <1>6, Zenon DEF UserTimer, KernelTimer, ecall, At, io, yield_cpu
    <2>2. state[p] = "Running"
      BY <2>1 DEF Control
    <2>. QED BY <2>1, <2>2 DEF Quiet, SameKin, TypeOK
  <1>. QED BY <1>1, <1>2, <1>3, <1>4, <1>5, <1>6 DEF Scheduler

\* Falling asleep in wait or in console::read: the condition was just tested.
LEMMA SleepTested ==
    ASSUME NEW p \in Procs, NEW ptr, NEW c, TypeOK, state[p] = "Running", NoLostWakeup,
           wait_sleep(p, ptr, c) \/ read_sleep(p, c)
    PROVE  SameKin /\ NoLostWakeup'
  <1>1. /\ UNCHANGED <<pid, parent, NEXT_PID, avail>>
        /\ state' = [state EXCEPT ![p] = "Sleeping"]
        /\ \/ chan' = [chan EXCEPT ![p] = p] /\ children(p) # {} /\ zombies(p) = {}
           \/ chan' = [chan EXCEPT ![p] = input_chan] /\ ~avail
    BY DEF wait_sleep, read_sleep, sleep, io
  <1>2. SameKin
    BY <1>1 DEF SameKin, TypeOK
  <1>3. \A q \in Procs : children(q)' = children(q) /\ zombies(q)' = zombies(q)
    BY <1>1, <1>2 DEF children, zombies, SameKin
  <1>4. ASSUME NEW q \in Procs, state'[q] = "Sleeping"
        PROVE  /\ chan'[q] = q => children(q)' # {} /\ zombies(q)' = {}
               /\ chan'[q] = input_chan => ~avail'
    <2>1. CASE q = p
      <3>1. p # input_chan
        BY NPROCAssumption DEF input_chan, Procs
      <3>2. \/ chan'[p] = p /\ children(p) # {} /\ zombies(p) = {}
            \/ chan'[p] = input_chan /\ ~avail
        BY <1>1 DEF TypeOK
      <3>3. children(p)' = children(p) /\ zombies(p)' = zombies(p) /\ avail' = avail
        BY <1>1, <1>3
      <3>. QED BY <2>1, <3>1, <3>2, <3>3
    <2>2. CASE q # p
      BY <1>1, <1>3, <1>4, <2>2 DEF TypeOK, NoLostWakeup
    <2>. QED BY <2>1, <2>2
  <1>. QED BY <1>2, <1>4 DEF NoLostWakeup

\* sys_fork loses no wakeup.
LEMMA ForkWakes ==
    ASSUME NEW p \in Procs, TypeOK, Control, Kinship, NoLostWakeup, Fork(p)
    PROVE  NoLostWakeup'
  <1>0. state[p] = "Running"
    BY EcallHolds DEF Fork
  <1>1. PICK child \in Procs :
            /\ parent' = [parent EXCEPT ![child] = p] /\ chan' = [chan EXCEPT ![child] = 0]
            /\ state' = [state EXCEPT ![child] = "Runnable"] /\ avail' = avail
            /\ parent[child] = Null
    BY Zenon DEF Fork, first, unused, io, Kinship
  <1>2. ASSUME NEW q \in Procs, state'[q] = "Sleeping"
        PROVE  /\ chan'[q] = q => children(q)' # {} /\ zombies(q)' = {}
               /\ chan'[q] = input_chan => ~avail'
    <2>1. q # child /\ q # p /\ state[q] = "Sleeping" /\ chan'[q] = chan[q]
      BY <1>0, <1>1, <1>2 DEF TypeOK
    <2>2. zombies(q)' \subseteq zombies(q)
      BY <1>1, <2>1 DEF zombies, children, TypeOK
    <2>3. children(q)' = {x \in Procs : parent'[x] = q}
      BY DEF children
    <2>4. chan[q] = q => children(q)' # {}
      <3>. SUFFICES ASSUME chan[q] = q PROVE children(q)' # {}
        OBVIOUS
      <3>1. PICK x \in Procs : parent[x] = q
        BY <2>1 DEF NoLostWakeup, children
      <3>2. x # child
        BY <1>1, <2>1, <3>1 DEF Null, Procs
      <3>. QED BY <1>1, <2>3, <3>1, <3>2 DEF TypeOK
    <2>. QED BY <1>1, <2>1, <2>2, <2>4 DEF NoLostWakeup
  <1>. QED BY <1>2 DEF NoLostWakeup

\* exit: the new zombie's parent, and init if it inherits a child, are woken.
LEMMA ExitKeepsWakeups ==
    ASSUME NEW p \in Procs, NEW code, TypeOK, Control, NoLostWakeup, Exit(p, code)
    PROVE  NoLostWakeup'
  <1>0. state[p] = "Running"
    BY EcallHolds DEF Exit
  <1>1. /\ chan' = chan /\ avail' = avail
        /\ state' = [exit_wakeup(p) EXCEPT ![p] = "Zombie"]
        /\ \A q \in Procs : parent'[q] = IF p # INITPROC /\ parent[q] = p THEN INITPROC
                                                                          ELSE parent[q]
    BY DEF Exit, reparent, io
  <1>2. /\ reparent_wakeup(p) \in [Procs -> States]
        /\ exit_wakeup(p) \in [Procs -> States]
    BY WakeupType DEF exit_wakeup, reparent_wakeup, TypeOK
  <1>3. ASSUME NEW q \in Procs, state'[q] = "Sleeping"
        PROVE  /\ chan'[q] = q => children(q)' # {} /\ zombies(q)' = {}
               /\ chan'[q] = input_chan => ~avail'
    <2>1. q # p /\ exit_wakeup(p)[q] = "Sleeping"
      BY <1>1, <1>2, <1>3
    <2>2. /\ reparent_wakeup(p)[q] = "Sleeping" /\ chan[q] # parent[p]
      <3>1. exit_wakeup(p)[q] =
                IF reparent_wakeup(p)[q] = "Sleeping" /\ chan[q] = parent[p]
                THEN "Runnable" ELSE reparent_wakeup(p)[q]
        BY <1>2 DEF exit_wakeup, wakeup
      <3>. QED BY <2>1, <3>1
    <2>3. /\ state[q] = "Sleeping"
          /\ p # INITPROC /\ children(p) # {} => chan[q] # INITPROC
      <3>1. wakeup(INITPROC, state)[q] =
                IF state[q] = "Sleeping" /\ chan[q] = INITPROC THEN "Runnable" ELSE state[q]
        BY DEF wakeup, TypeOK
      <3>2. CASE p # INITPROC /\ children(p) # {}
        BY <2>2, <3>1, <3>2 DEF reparent_wakeup
      <3>3. CASE ~(p # INITPROC /\ children(p) # {})
        BY <2>2, <3>3 DEF reparent_wakeup
      <3>. QED BY <3>2, <3>3
    <2>4. ASSUME chan[q] = q PROVE children(q)' # {} /\ zombies(q)' = {}
      <3>1. children(q) # {} /\ zombies(q) = {}
        BY <2>3, <2>4 DEF NoLostWakeup
      <3>2. \A x \in Procs : parent'[x] = q <=> parent[x] = q
        BY <1>1, <2>1, <2>3, <2>4 DEF children
      <3>3. parent'[p] # q
        BY <2>2, <2>4, <3>2
      <3>4. \A x \in Procs : x # p /\ state'[x] = "Zombie" => state[x] = "Zombie"
        BY <1>1, <1>2, ExitWakes
      <3>. QED BY <3>1, <3>2, <3>3, <3>4 DEF children, zombies
    <2>. QED BY <1>1, <2>3, <2>4 DEF NoLostWakeup
  <1>. QED BY <1>3 DEF NoLostWakeup

\* Reaping in wait loses no wakeup.
LEMMA ReapKeepsWakeups ==
    ASSUME NEW p \in Procs, NEW ptr, NEW c, TypeOK, NoLostWakeup, state[p] = "Running",
           wait_reap(p, ptr, c)
    PROVE  NoLostWakeup'
  <1>1. PICK child \in Procs :
            /\ parent[child] = p /\ state[child] = "Zombie" /\ avail' = avail
            /\ state' = [state EXCEPT ![child] = "Unused"]
            /\ parent' = [parent EXCEPT ![child] = Null] /\ chan' = [chan EXCEPT ![child] = 0]
    BY Zenon DEF wait_reap, wait_return, first, zombies, children, freeproc, io
  <1>2. ASSUME NEW q \in Procs, state'[q] = "Sleeping"
        PROVE  /\ chan'[q] = q => children(q)' # {} /\ zombies(q)' = {}
               /\ chan'[q] = input_chan => ~avail'
    <2>1. q # child /\ q # p /\ state[q] = "Sleeping" /\ chan'[q] = chan[q]
      BY <1>1, <1>2 DEF TypeOK
    <2>2. \A x \in Procs : /\ parent'[x] = q <=> parent[x] = q
                           /\ state'[x] = "Zombie" => state[x] = "Zombie"
      <3>1. q # Null
        BY DEF Null, Procs
      <3>. QED BY <1>1, <2>1, <3>1 DEF TypeOK
    <2>3. children(q)' = children(q) /\ zombies(q)' \subseteq zombies(q)
      BY <2>2 DEF children, zombies
    <2>. QED BY <1>1, <2>1, <2>3 DEF NoLostWakeup
  <1>. QED BY <1>2 DEF NoLostWakeup

\* The console interrupt loses no wakeup.
LEMMA IntrKeepsWakeups ==
    ASSUME TypeOK, NoLostWakeup, intr
    PROVE  SameKin /\ NoLostWakeup'
  <1>1. /\ UNCHANGED <<pid, parent, NEXT_PID, chan>>
        /\ \A q \in Procs : \/ state'[q] = state[q]
                            \/ state[q] = "Sleeping" /\ state'[q] = "Runnable"
        /\ avail' = avail \/ \A q \in Procs : chan[q] = input_chan => state'[q] # "Sleeping"
    BY WakeupEffect DEF intr, TypeOK
  <1>2. SameKin
    BY <1>1 DEF SameKin
  <1>3. \A q \in Procs : children(q)' = children(q) /\ zombies(q)' = zombies(q)
    BY <1>1, <1>2 DEF children, zombies, SameKin
  <1>. QED BY <1>1, <1>2, <1>3 DEF NoLostWakeup

\* wait keeps Kinship and loses no wakeup.
LEMMA TreeWait ==
    ASSUME NEW p \in Procs, NEW ptr, NEW c, TypeOK, Kinship, NoLostWakeup,
           state[p] = "Running", wait(p, ptr, c) \/ read(p, c)
    PROVE  Kinship' /\ NoLostWakeup'
  <1>1. CASE wait_reap(p, ptr, c)
    BY <1>1, KinshipReap, ReapKeepsWakeups
  <1>2. CASE wait_copyout_fails(p, ptr, c) \/ wait_no_child(p, c)
    <2>1. UNCHANGED <<state, pid, parent, NEXT_PID, chan, avail>>
      BY <1>2 DEF wait_copyout_fails, wait_no_child, wait_return, io
    <2>2. Quiet
      BY <2>1 DEF Quiet, SameKin
    <2>. QED BY <2>2, QuietKeeps, KinshipSame DEF Quiet
  <1>3. CASE wait_sleep(p, ptr, c) \/ read_sleep(p, c)
    BY <1>3, SleepTested, KinshipSame
  <1>4. CASE read_return(p, c)
    <2>1. UNCHANGED <<state, pid, parent, NEXT_PID, chan>> /\ ~avail'
      BY <1>4 DEF read_return, table
    <2>2. Quiet
      BY <2>1 DEF Quiet, SameKin
    <2>. QED BY <2>2, QuietKeeps, KinshipSame DEF Quiet
  <1>. QED BY <1>1, <1>2, <1>3, <1>4 DEF wait, read

\* Every step keeps Kinship and loses no wakeup.
LEMMA TreeNext ==
    TypeOK /\ Control /\ Kinship /\ NoLostWakeup /\ [Next]_vars => Kinship' /\ NoLostWakeup'
  <1>. SUFFICES ASSUME TypeOK, Control, Kinship, NoLostWakeup, [Next]_vars
                PROVE  Kinship' /\ NoLostWakeup'
    OBVIOUS
  <1>q. ASSUME Quiet PROVE Kinship' /\ NoLostWakeup'
    BY <1>q, QuietKeeps, KinshipSame DEF Quiet
  <1>1. CASE Scheduler \/ SchedulerTimer \/ Receive \/ Halted \/ UNCHANGED vars
    BY <1>1, <1>q, QuietSteps
  <1>2. ASSUME NEW p \in Procs, Kernel(p) PROVE Kinship' /\ NoLostWakeup'
    <2>1. CASE WaitAgain(p) \/ ReadAgain(p)
      <3>1. state[p] = "Running"
        BY <2>1 DEF WaitAgain, ReadAgain, At, Control
      <3>. QED BY <2>1, <3>1, TreeWait DEF WaitAgain, ReadAgain
    <2>. QED BY <1>2, <1>q, <2>1, QuietSteps DEF Kernel
  <1>3. ASSUME NEW p \in Procs, Syscall(p) PROVE Kinship' /\ NoLostWakeup'
    <2>1. CASE ForkFull(p) \/ ForkNoMemory(p)
      BY <2>1, <1>q, QuietSteps
    <2>2. CASE Fork(p)
      BY <2>2, KinshipFork, ForkWakes
    <2>3. CASE \E code \in ExitCodes \cup {KILLED} : Exit(p, code)
      BY <2>3, KinshipExit, ExitKeepsWakeups
    <2>4. CASE (\E ptr \in StatusPtrs : Wait(p, ptr)) \/ Read(p)
      <3>1. state[p] = "Running"
        BY <2>4, EcallHolds DEF Wait, Read
      <3>. QED BY <2>4, <3>1, TreeWait DEF Wait, Read
    <2>. QED BY <1>3, <2>1, <2>2, <2>3, <2>4 DEF Syscall
  <1>4. ASSUME NEW p \in Procs, UserTimer(p) \/ KernelTimer(p) PROVE Kinship' /\ NoLostWakeup'
    BY <1>4, <1>q, QuietSteps
  <1>5. CASE External
    <2>1. intr
      BY <1>5 DEF External, KernelExternal, UserExternal
    <2>. QED BY <2>1, IntrKeepsWakeups, KinshipSame
  <1>. QED BY <1>1, <1>2, <1>3, <1>4, <1>5 DEF Next

\* Nobody sleeps at first.
LEMMA WakeupsInit == Init => NoLostWakeup
  BY DEF Init, NoLostWakeup

\* No parent pointer outlives its target, and following parents ends at init.
THEOREM ParentsAlive == Spec => []ParentIsAlive
  <1>1. Kinship => ParentIsAlive
    BY DEF Kinship
  <1>. QED
    BY <1>1, TypeCorrect, ControlCorrect, KinshipInit, WakeupsInit, TreeNext, PTL DEF Spec

\* No process sleeps through the exit of a child or the arrival of a line.
THEOREM WakeupsNotLost == Spec => []NoLostWakeup
  BY TypeCorrect, ControlCorrect, KinshipInit, WakeupsInit, TreeNext, PTL DEF Spec
-----------------------------------------------------------------------------
\* The parts of the refinement mapping.
live == {pid[p] : p \in Used \ Zombies}
exited == {<<pid[p], xstate[p]>> : p \in Zombies}
Kids == {q \in Used : parent[q] # Null}
kin == {<<pid[p], pid[parent[p]]>> : p \in Kids}

\* No two processes have the same pid.
PidsDistinct == \A p, q \in Used : pid[p] = pid[q] => p = q

\* What the process table has to satisfy for the mapping to work.
Whole == TypeOK /\ Control /\ Kinship /\ PidsDistinct

\* What the invariant says of a slot in use.
LEMMA UsedFacts ==
    ASSUME TypeOK, Kinship
    PROVE  /\ Used \subseteq Procs /\ Zombies \subseteq Used
           /\ \A p \in Kids : parent[p] \in Used
           /\ \A p \in Used : pid[p] < NEXT_PID /\ pid[p] \in Nat
           /\ INITPROC \in Used /\ pid[INITPROC] = 1 /\ INITPROC \notin Kids
           /\ \A p \in Used : p # INITPROC => pid[p] > 1
           /\ NEXT_PID \in Nat
  <1>1. \A p \in Procs : p \in Used <=> state[p] # "Unused"
    BY DEF Used
  <1>2. Zombies \subseteq Used
    BY DEF Used, Zombies
  <1>3. INITPROC \in Used /\ pid[INITPROC] = 1 /\ INITPROC \notin Kids
    BY <1>1, NPROCAssumption DEF Kinship, INITPROC, Procs, Kids
  <1>4. ASSUME NEW p \in Kids PROVE parent[p] \in Used
    BY <1>1, <1>3, KinshipOf DEF Kids, Used
  <1>5. ASSUME NEW p \in Used
        PROVE  pid[p] < NEXT_PID /\ pid[p] \in Nat /\ (p # INITPROC => pid[p] > 1)
    BY KinshipOf DEF Used
  <1>. QED BY <1>2, <1>3, <1>4, <1>5 DEF Used, TypeOK

\* A step that leaves the tree alone, or only uses up a pid.
SameTree == /\ UNCHANGED <<pid, parent, xstate, waited, Used, Zombies>>
            /\ NEXT_PID' \in {NEXT_PID, NEXT_PID + 1}

\* A step that leaves pids, parents and states as the tree sees them is a
\* stutter of it.
LEMMA SameTreeMaps ==
    ASSUME TypeOK, SameTree
    PROVE  [Tree!TNext]_(Tree!tvars) /\ (PidsDistinct => PidsDistinct')
  <1>1. UNCHANGED <<live, exited, kin, waited>> /\ (PidsDistinct => PidsDistinct')
    BY DEF SameTree, live, exited, kin, Kids, PidsDistinct
  <1>2. CASE NEXT_PID' = NEXT_PID
    BY <1>1, <1>2 DEF Tree!tvars, live, exited, kin, Kids
  <1>3. CASE NEXT_PID' = NEXT_PID + 1
    <2>1. NEXT_PID' - 1 = (NEXT_PID - 1) + 1
      BY <1>3 DEF TypeOK
    <2>2. Tree!TForkFails
      BY <1>1, <2>1 DEF Tree!TForkFails, live, exited, kin, Kids
    <2>. QED BY <1>1, <2>2 DEF Tree!TNext
  <1>. QED BY <1>1, <1>2, <1>3 DEF SameTree

\* sys_fork adds the child to the tree.
LEMMA ForkMaps ==
    ASSUME NEW p \in Procs, Whole, Fork(p)
    PROVE  Tree!TFork(pid[p]) /\ pid[p] \in live /\ PidsDistinct'
  <1>. USE DEF Whole
  <1>0. state[p] = "Running" /\ waited' = waited
    BY EcallHolds DEF Fork
  <1>1. PICK child \in Procs :
            /\ state[child] = "Unused" /\ NEXT_PID' = NEXT_PID + 1
            /\ pid' = [pid EXCEPT ![child] = NEXT_PID]
            /\ parent' = [parent EXCEPT ![child] = p]
            /\ xstate' = [xstate EXCEPT ![child] = 0]
            /\ state' = [state EXCEPT ![child] = "Runnable"]
    BY Zenon DEF Fork, first, unused
  <1>2. /\ pid'[child] = NEXT_PID /\ parent'[child] = p
        /\ \A q \in Procs : q # child => /\ pid'[q] = pid[q] /\ parent'[q] = parent[q]
                                         /\ xstate'[q] = xstate[q]
    BY <1>1 DEF TypeOK
  <1>3. Used' = Used \cup {child} /\ Zombies' = Zombies /\ child \notin Used
    BY <1>1 DEF TypeOK, Used, Zombies
  <1>4. p \in Used \ Zombies
    BY <1>0 DEF Used, Zombies
  <1>5. Kids' = Kids \cup {child}
    BY <1>2, <1>3, UsedFacts DEF Kids, Null, Procs
  <1>6. live' = live \cup {NEXT_PID}
    BY <1>2, <1>3, UsedFacts DEF live
  <1>7. exited' = exited
    BY <1>2, <1>3, UsedFacts DEF exited
  <1>8. kin' = kin \cup {<<NEXT_PID, pid[p]>>}
    <2>1. \A q \in Kids : q # child /\ parent[q] # child /\ q \in Procs /\ parent[q] \in Procs
      BY <1>3, UsedFacts DEF Kids
    <2>2. \A q \in Kids : <<pid'[q], pid'[parent'[q]]>> = <<pid[q], pid[parent[q]]>>
      BY <1>2, <2>1
    <2>3. <<pid'[child], pid'[parent'[child]]>> = <<NEXT_PID, pid[p]>>
      BY <1>2, <1>3, <1>4
    <2>. QED BY <1>5, <2>2, <2>3 DEF kin
  <1>9. PidsDistinct'
    BY <1>2, <1>3, UsedFacts DEF PidsDistinct
  <1>10. NEXT_PID' - 1 = (NEXT_PID - 1) + 1 /\ (NEXT_PID - 1) + 1 = NEXT_PID
    BY <1>1, UsedFacts
  <1>11. pid[p] \in live
    BY <1>4 DEF live
  <1>12. Tree!TFork(pid[p])
    BY <1>0, <1>6, <1>7, <1>8, <1>10, <1>11 DEF Tree!TFork, live, exited, kin, Kids
  <1>. QED BY <1>9, <1>11, <1>12

\* exit makes a zombie and gives its children to init.
LEMMA ExitMaps ==
    ASSUME NEW p \in Procs, NEW code \in ExitCodes \cup {KILLED}, Whole, Exit(p, code)
    PROVE  Tree!TExit(pid[p], code) /\ pid[p] \in live /\ PidsDistinct'
  <1>. USE DEF Whole
  <1>0. state[p] = "Running"
    BY EcallHolds DEF Exit
  <1>1. /\ pid' = pid /\ NEXT_PID' = NEXT_PID /\ waited' = waited
        /\ xstate' = [xstate EXCEPT ![p] = code]
    BY DEF Exit
  <1>2. \A q \in Procs : parent'[q] = IF p # INITPROC /\ parent[q] = p THEN INITPROC
                                                                       ELSE parent[q]
    BY DEF Exit, reparent
  <1>3. state' = [exit_wakeup(p) EXCEPT ![p] = "Zombie"]
        /\ exit_wakeup(p) \in [Procs -> States]
    BY WakeupType DEF Exit, exit_wakeup, reparent_wakeup, TypeOK
  <1>4. /\ state'[p] = "Zombie"
        /\ \A q \in Procs : /\ state'[q] = "Unused" <=> state[q] = "Unused"
                            /\ q # p => (state'[q] = "Zombie" <=> state[q] = "Zombie")
    BY <1>0, <1>3, ExitWakes
  <1>5. Used' = Used /\ Zombies' = Zombies \cup {p} /\ p \in Used \ Zombies
    BY <1>0, <1>4 DEF Used, Zombies
  <1>6. live' = live \ {pid[p]} /\ pid[p] \in live
    BY <1>1, <1>5, UsedFacts DEF live, PidsDistinct
  <1>7. exited' = exited \cup {<<pid[p], code>>}
    <2>1. xstate'[p] = code /\ \A q \in Zombies : xstate'[q] = xstate[q]
      BY <1>1, <1>5, UsedFacts DEF TypeOK
    <2>. QED BY <1>1, <1>5, <2>1 DEF exited
  <1>8. Kids' = Kids
    <2>1. \A q \in Procs : parent'[q] # Null <=> parent[q] # Null
      BY <1>2 DEF Null, Procs, INITPROC
    <2>. QED BY <1>5, <2>1 DEF Kids, Used
  <1>9. kin' = IF pid[p] = 1 THEN kin
               ELSE {<<k[1], IF k[2] = pid[p] THEN 1 ELSE k[2]>> : k \in kin}
    <2>1. \A q \in Kids : q \in Procs /\ parent[q] \in Used
      BY UsedFacts DEF Kids
    <2>2. pid[p] = 1 <=> p = INITPROC
      BY <1>5, UsedFacts
    <2>3. CASE p = INITPROC
      BY <1>1, <1>2, <1>8, <2>1, <2>2, <2>3 DEF kin
    <2>4. CASE p # INITPROC
      <3>1. \A q \in Kids : <<pid'[q], pid'[parent'[q]]>> =
                            <<pid[q], IF pid[parent[q]] = pid[p] THEN 1 ELSE pid[parent[q]]>>
        BY <1>1, <1>2, <1>5, <2>1, <2>4, UsedFacts DEF PidsDistinct
      <3>2. kin' = {<<pid[q], IF pid[parent[q]] = pid[p] THEN 1 ELSE pid[parent[q]]>> : q \in Kids}
        BY <1>8, <3>1 DEF kin
      <3>3. {<<k[1], IF k[2] = pid[p] THEN 1 ELSE k[2]>> : k \in kin}
              = {<<pid[q], IF pid[parent[q]] = pid[p] THEN 1 ELSE pid[parent[q]]>> : q \in Kids}
        <4>. DEFINE moved(k) == <<k[1], IF k[2] = pid[p] THEN 1 ELSE k[2]>>
        <4>1. \A q \in Kids : moved(<<pid[q], pid[parent[q]]>>) =
                  <<pid[q], IF pid[parent[q]] = pid[p] THEN 1 ELSE pid[parent[q]]>>
          OBVIOUS
        <4>. HIDE DEF moved
        <4>2. {moved(k) : k \in kin} = {moved(<<pid[q], pid[parent[q]]>>) : q \in Kids}
          BY Zenon DEF kin
        <4>3. {moved(<<pid[q], pid[parent[q]]>>) : q \in Kids} =
                {<<pid[q], IF pid[parent[q]] = pid[p] THEN 1 ELSE pid[parent[q]]>> : q \in Kids}
          BY <4>1, Zenon
        <4>. QED BY <4>2, <4>3 DEF moved
      <3>. QED BY <2>2, <2>4, <3>2, <3>3
    <2>. QED BY <2>3, <2>4
  <1>10. PidsDistinct'
    BY <1>1, <1>5 DEF PidsDistinct
  <1>11. Tree!TExit(pid[p], code)
    BY <1>1, <1>6, <1>7, <1>9 DEF Tree!TExit, Tree!InitPid, live, exited, kin, Kids
  <1>. QED BY <1>6, <1>10, <1>11

\* Reaping a zombie in wait takes it out of the tree.
LEMMA ReapMaps ==
    ASSUME NEW p \in Procs, NEW ptr, NEW c, Whole, state[p] = "Running", wait_reap(p, ptr, c)
    PROVE  /\ \E z \in exited : Tree!TWait(pid[p], z)
           /\ pid[p] \in live /\ PidsDistinct'
  <1>. USE DEF Whole
  <1>1. PICK child \in Procs :
            /\ parent[child] = p /\ state[child] = "Zombie" /\ freeproc(child)
            /\ waited' = [by |-> pid[p], pid |-> pid[child], xstate |-> xstate[child]]
    BY DEF wait_reap, first, zombies, children
  <1>2. NEXT_PID' = NEXT_PID
    BY DEF wait_reap, wait_return
  <1>3. \A q \in Procs : q # child => /\ pid'[q] = pid[q] /\ parent'[q] = parent[q]
                                      /\ xstate'[q] = xstate[q] /\ state'[q] = state[q]
    BY <1>1 DEF freeproc, TypeOK
  <1>4. Used' = Used \ {child} /\ Zombies' = Zombies \ {child} /\ child \in Zombies
    BY <1>1, <1>3 DEF freeproc, TypeOK, Used, Zombies
  <1>5. p \in Used \ Zombies /\ child \in Kids
    BY <1>1, <1>4, UsedFacts DEF Used, Zombies, Kids, Null, Procs
  <1>6. Kids' = Kids \ {child}
    BY <1>3, <1>4, UsedFacts DEF Kids
  <1>7. live' = live
    BY <1>3, <1>4, UsedFacts DEF live
  <1>8. exited' = exited \ {<<pid[child], xstate[child]>>}
    <2>1. \A q \in Zombies \ {child} : /\ <<pid'[q], xstate'[q]>> = <<pid[q], xstate[q]>>
                                       /\ pid[q] # pid[child]
      BY <1>3, <1>4, UsedFacts DEF PidsDistinct
    <2>. QED BY <1>4, <2>1 DEF exited
  <1>9. kin' = kin \ {<<pid[child], pid[p]>>}
    <2>1. \A q \in Kids : parent[q] # child
      <3>1. child # INITPROC
        BY <1>5, UsedFacts
      <3>. QED BY <1>1, <3>1, KinshipOf DEF Kids, Used, Null
    <2>2. \A q \in Kids \ {child} :
              /\ <<pid'[q], pid'[parent'[q]]>> = <<pid[q], pid[parent[q]]>>
              /\ pid[q] # pid[child]
      BY <1>3, <1>4, <2>1, UsedFacts DEF PidsDistinct, Kids
    <2>3. <<pid[child], pid[parent[child]]>> = <<pid[child], pid[p]>>
      BY <1>1
    <2>. QED BY <1>5, <1>6, <2>2, <2>3 DEF kin
  <1>10. PidsDistinct'
    BY <1>3, <1>4, UsedFacts DEF PidsDistinct
  <1>11. /\ pid[p] \in live /\ <<pid[child], xstate[child]>> \in exited
         /\ <<pid[child], pid[p]>> \in kin
    BY <1>1, <1>4, <1>5 DEF live, exited, kin
  <1>12. Tree!TWait(pid[p], <<pid[child], xstate[child]>>)
    BY <1>1, <1>2, <1>7, <1>8, <1>9, <1>11 DEF Tree!TWait, live, exited, kin, Kids
  <1>13. \E z \in exited : Tree!TWait(pid[p], z)
    <2>1. PICK z \in exited : z = <<pid[child], xstate[child]>>
      BY <1>11
    <2>. WITNESS z \in exited
    <2>. QED BY <1>12, <2>1, Zenon DEF Tree!TWait
  <1>. QED BY <1>10, <1>11, <1>13

\* The steps that are none of fork, exit and reaping.
LEMMA OtherSteps ==
    ASSUME TypeOK, Control,
           \/ Scheduler \/ SchedulerTimer \/ External \/ Receive \/ Halted \/ UNCHANGED vars
           \/ \E p \in Procs :
                 \/ Forkret(p) \/ YieldReturn(p) \/ SleepReturn(p) \/ Usertrapret(p) \/ Kret(p)
                 \/ ForkFull(p) \/ ForkNoMemory(p) \/ UserTimer(p) \/ KernelTimer(p)
    PROVE  SameTree
  <1>1. SameKin
    <2>1. CASE External
      <3>1. UNCHANGED <<pid, parent, NEXT_PID>>
        BY <2>1 DEF External, KernelExternal, UserExternal, intr
      <3>2. \A q \in Procs : \/ state'[q] = state[q]
                             \/ state[q] = "Sleeping" /\ state'[q] = "Runnable"
        BY <2>1, WakeupEffect DEF External, KernelExternal, UserExternal, intr, TypeOK
      <3>. QED BY <3>1, <3>2 DEF SameKin
    <2>. QED BY <2>1, QuietSteps DEF Quiet
  <1>2. UNCHANGED <<xstate, waited>>
    <2>1. CASE Scheduler \/ SchedulerTimer \/ External \/ Receive \/ Halted \/ UNCHANGED vars
      BY <2>1 DEF Scheduler, SchedulerRun, SchedulerTop, SchedulerSkip, SchedulerReturn,
                  SchedulerTimer, Receive, Halted, External, KernelExternal, UserExternal, intr,
                  vars, table
    <2>2. ASSUME NEW p \in Procs,
                 \/ Forkret(p) \/ YieldReturn(p) \/ SleepReturn(p) \/ Usertrapret(p) \/ Kret(p)
                 \/ ForkFull(p) \/ ForkNoMemory(p) \/ UserTimer(p) \/ KernelTimer(p)
          PROVE  UNCHANGED <<xstate, waited>>
      BY <2>2, Zenon DEF Forkret, YieldReturn, SleepReturn, Usertrapret, Kret, ForkFull, ForkNoMemory,
                  UserTimer, KernelTimer, yield_cpu, table
    <2>. QED BY <2>1, <2>2
  <1>. QED BY <1>1, <1>2 DEF SameKin, SameTree, Used, Zombies

\* A pass of wait reaps a child in the tree or leaves the tree alone.
LEMMA WaitMaps ==
    ASSUME NEW p \in Procs, NEW ptr, NEW c, Whole, state[p] = "Running",
           wait(p, ptr, c) \/ read(p, c)
    PROVE  [Tree!TNext]_(Tree!tvars) /\ PidsDistinct'
  <1>1. CASE wait_reap(p, ptr, c)
    <2>1. /\ \E z \in exited : Tree!TWait(pid[p], z)
          /\ pid[p] \in live /\ PidsDistinct'
      BY <1>1, ReapMaps
    <2>. QED BY <2>1, Zenon DEF Tree!TNext, live, exited
  <1>2. CASE wait_copyout_fails(p, ptr, c) \/ wait_no_child(p, c) \/ read_return(p, c)
    <2>1. UNCHANGED <<state, pid, parent, xstate, waited, NEXT_PID>>
      BY <1>2 DEF wait_copyout_fails, wait_no_child, wait_return, read_return, table
    <2>. QED BY <2>1, SameTreeMaps DEF SameTree, Whole, Used, Zombies
  <1>3. CASE wait_sleep(p, ptr, c) \/ read_sleep(p, c)
    <2>1. /\ UNCHANGED <<pid, parent, xstate, waited, NEXT_PID>>
          /\ state' = [state EXCEPT ![p] = "Sleeping"]
      BY <1>3 DEF wait_sleep, read_sleep, sleep
    <2>2. Used' = Used /\ Zombies' = Zombies
      BY <2>1 DEF Used, Zombies, Whole, TypeOK
    <2>. QED BY <2>1, <2>2, SameTreeMaps DEF SameTree, Whole
  <1>. QED BY <1>1, <1>2, <1>3 DEF wait, read

\* Every step of the kernel is a step of the tree or a stutter.
LEMMA StepMaps == Whole /\ [Next]_vars => [Tree!TNext]_(Tree!tvars) /\ PidsDistinct'
  <1>. SUFFICES ASSUME Whole, [Next]_vars PROVE [Tree!TNext]_(Tree!tvars) /\ PidsDistinct'
    OBVIOUS
  <1>s. ASSUME SameTree PROVE [Tree!TNext]_(Tree!tvars) /\ PidsDistinct'
    BY <1>s, SameTreeMaps DEF Whole
  <1>1. CASE Scheduler \/ SchedulerTimer \/ External \/ Receive \/ Halted \/ UNCHANGED vars
    BY <1>1, <1>s, OtherSteps DEF Whole
  <1>2. ASSUME NEW p \in Procs, Kernel(p) PROVE [Tree!TNext]_(Tree!tvars) /\ PidsDistinct'
    <2>1. CASE WaitAgain(p) \/ ReadAgain(p)
      <3>1. state[p] = "Running"
        BY <2>1 DEF WaitAgain, ReadAgain, At, Control, Whole
      <3>. QED BY <2>1, <3>1, WaitMaps DEF WaitAgain, ReadAgain
    <2>. QED BY <1>2, <1>s, <2>1, OtherSteps DEF Kernel, Whole
  <1>3. ASSUME NEW p \in Procs, Syscall(p) PROVE [Tree!TNext]_(Tree!tvars) /\ PidsDistinct'
    <2>1. CASE ForkFull(p) \/ ForkNoMemory(p)
      BY <2>1, <1>s, OtherSteps DEF Whole
    <2>2. CASE Fork(p)
      <3>1. Tree!TFork(pid[p]) /\ pid[p] \in live /\ PidsDistinct'
        BY <2>2, ForkMaps
      <3>2. \E q \in live : Tree!TFork(q)
        <4>1. PICK q \in live : q = pid[p]
          BY <3>1
        <4>. WITNESS q \in live
        <4>. QED BY <3>1, <4>1 DEF Tree!TFork
      <3>. QED BY <3>1, <3>2 DEF Tree!TNext, live
    <2>3. ASSUME NEW code \in ExitCodes \cup {KILLED}, Exit(p, code)
          PROVE  [Tree!TNext]_(Tree!tvars) /\ PidsDistinct'
      <3>1. Tree!TExit(pid[p], code) /\ pid[p] \in live /\ PidsDistinct'
        BY <2>3, ExitMaps
      <3>. QED BY <2>3, <3>1, Zenon DEF Tree!TNext, live
    <2>4. CASE (\E ptr \in StatusPtrs : Wait(p, ptr)) \/ Read(p)
      <3>1. state[p] = "Running"
        BY <2>4, EcallHolds DEF Wait, Read, Whole
      <3>. QED BY <2>4, <3>1, WaitMaps DEF Wait, Read
    <2>. QED BY <1>3, <2>1, <2>2, <2>3, <2>4 DEF Syscall
  <1>4. ASSUME NEW p \in Procs, UserTimer(p) \/ KernelTimer(p)
        PROVE  [Tree!TNext]_(Tree!tvars) /\ PidsDistinct'
    BY <1>4, <1>s, OtherSteps DEF Whole
  <1>. QED BY <1>1, <1>2, <1>3, <1>4 DEF Next

\* The kernel starts with the tree of init alone.
LEMMA InitMaps == Init => Tree!TInit /\ PidsDistinct
  <1>. SUFFICES ASSUME Init PROVE Tree!TInit /\ PidsDistinct
    OBVIOUS
  <1>0. INITPROC \in Procs
    BY NPROCAssumption DEF INITPROC, Procs
  <1>1. Used = {INITPROC} /\ Zombies = {}
    BY <1>0 DEF Init, Used, Zombies
  <1>2. Kids = {}
    BY <1>0, <1>1 DEF Kids, Init, Null
  <1>3. live = {1} /\ exited = {} /\ kin = {}
    BY <1>0, <1>1, <1>2 DEF live, exited, kin, Init
  <1>4. Tree!TInit
    <2>1. NEXT_PID - 1 = 1 /\ waited = [by |-> 0, pid |-> 0, xstate |-> 0]
      BY DEF Init
    <2>. QED BY <1>3, <2>1 DEF Tree!TInit, Tree!InitPid, live, exited, kin, Kids
  <1>. QED BY <1>1, <1>4 DEF PidsDistinct

\* Parents, pids and slots stay related as Kinship says: nobody's parent was
\* reaped, a parent is older than its children, and init is never reaped.
THEOREM KinshipKept == Spec => []Kinship
  BY TypeCorrect, ControlCorrect, KinshipInit, WakeupsInit, TreeNext, PTL DEF Spec

\* fork, exit and wait, as proc.rs runs them with slots, locks and sleeping, do
\* to the process tree what ProcTree says and nothing else: a child is reported
\* once, to its parent or the process that inherited it, with its exit code.
THEOREM TreeImplemented == Spec => ImplementsTree
  <1>. USE DEF Whole
  <1>1. Spec => []PidsDistinct
    BY TypeCorrect, ControlCorrect, KinshipKept, InitMaps, StepMaps, PTL DEF Spec
  <1>2. TypeOK /\ Control /\ Kinship /\ PidsDistinct /\ [Next]_vars => [Tree!TNext]_(Tree!tvars)
    BY StepMaps
  <1>. QED
    BY <1>1, <1>2, TypeCorrect, ControlCorrect, KinshipKept, InitMaps, PTL
       DEF Spec, ImplementsTree, Tree!TSpec
=============================================================================
