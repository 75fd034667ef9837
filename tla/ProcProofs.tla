----------------------------- MODULE ProcProofs -----------------------------
(***************************************************************************)
(* Theorems about Proc, for every size of the process table, every number  *)
(* of pids and every set of exit codes: types, and what follows from the   *)
(* inductive invariant Control about the hart, the locks and the           *)
(* interrupts.  ProcTreeProofs goes on with the process tree.              *)
(***************************************************************************)
EXTENDS Proc, FiniteSetTheorems, TLAPS

\* The operations of cpu.rs map interrupt states to interrupt states.
LEMMA CpuTypes ==
    ASSUME NEW c \in CpuState
    PROVE  /\ push_off(c) \in CpuState /\ pop_off(c) \in CpuState
           /\ critical(c) \in CpuState /\ trap(c) \in CpuState
           /\ intr_on(c) \in CpuState /\ intr_off(c) \in CpuState
  <1>1. push_off(c) \in CpuState
    BY DEF CpuState, push_off
  <1>2. ASSUME NEW d \in CpuState PROVE pop_off(d) \in CpuState
    BY DEF CpuState, pop_off
  <1>3. trap(c) \in CpuState /\ intr_on(c) \in CpuState /\ intr_off(c) \in CpuState
    BY Zenon DEF CpuState, trap, intr_on, intr_off
  <1>. QED BY <1>1, <1>2, <1>3 DEF critical

\* wakeup changes states of processes only from Sleeping to Runnable.
LEMMA WakeupType ==
    ASSUME NEW ch, NEW st \in [Procs -> States]
    PROVE  wakeup(ch, st) \in [Procs -> States]
  BY DEF wakeup, States

-----------------------------------------------------------------------------
\* Type correctness: every step of the kernel keeps every variable in its type.
LEMMA TypeInit == Init => TypeOK
  <1>. SUFFICES ASSUME Init PROVE TypeOK
    OBVIOUS
  <1>1. NoFrame \in Frame /\ [NoFrame EXCEPT !.pc = "forkret"] \in Frame
    BY Zenon DEF NoFrame, Frame, Points
  <1>2. frame \in [Procs -> Frame]
    BY <1>1 DEF Init
  <1>3. cpu \in CpuState /\ sepc \in TrapFrom
    BY NPROCAssumption DEF Init, CpuState, TrapFrom, Null
  <1>4. state \in [Procs -> States]
    BY DEF Init, States
  <1>5. /\ pid \in [Procs -> Nat] /\ parent \in [Procs -> 0..NPROC]
        /\ xstate \in [Procs -> Int] /\ chan \in [Procs -> 0..NPROC + 1]
    BY NPROCAssumption DEF Init, Null
  <1>6. NEXT_PID \in Nat /\ cproc \in 0..NPROC /\ on \in 0..NPROC /\ si \in 1..NPROC + 1
    BY NPROCAssumption DEF Init, Null
  <1>7. waited \in [by : Nat, pid : Nat, xstate : Int]
    BY DEF Init
  <1>8. avail \in BOOLEAN /\ rx \in {"none", "edit", "line"}
    BY Zenon DEF Init
  <1>9. plock \subseteq Procs /\ klock \subseteq {"WAIT_LOCK", "console"}
    BY DEF Init
  <1>10. fault \in {"none", "panic", "wild"}
    BY DEF Init
  <1>. QED
    BY <1>2, <1>3, <1>4, <1>5, <1>6, <1>7, <1>8, <1>9, <1>10, Zenon DEF TypeOK

\* The sub-actions that end in a switch to the scheduler.
LEMMA SwitchTypes ==
    ASSUME TypeOK, NEW p \in Procs, NEW fr \in Frame, NEW c \in CpuState
    PROVE  /\ sched(p, fr, c) => cpu' \in CpuState /\ frame' \in [Procs -> Frame]
                                 /\ on' \in 0..NPROC
           /\ yield_cpu(p, fr, c) =>
                 /\ state' \in [Procs -> States] /\ plock' \subseteq Procs
                 /\ cpu' \in CpuState /\ frame' \in [Procs -> Frame] /\ on' \in 0..NPROC
                 /\ fault' \in {"none", "panic", "wild"}
  <1>1. ASSUME NEW d \in CpuState
        PROVE  sched(p, fr, d) => cpu' \in CpuState /\ frame' \in [Procs -> Frame]
                                  /\ on' \in 0..NPROC
    <2>1. [fr EXCEPT !.intena = d.intena] \in Frame
      BY DEF Frame, CpuState
    <2>. QED BY <2>1, NPROCAssumption DEF sched, TypeOK, Null
  <1>2. push_off(c) \in CpuState
    BY CpuTypes
  <1>. QED BY <1>1, <1>2 DEF yield_cpu, TypeOK, check, States

\* sleep, up to its sched, keeps the types.
LEMMA SleepTypes ==
    ASSUME TypeOK, NEW p \in Procs, NEW ch \in 0..NPROC + 1,
           NEW lk \in {"WAIT_LOCK", "console"}, NEW ptr \in {"null", "ok", "bad"},
           NEW c \in CpuState, sleep(p, ch, lk, ptr, c)
    PROVE  /\ state' \in [Procs -> States] /\ chan' \in [Procs -> 0..NPROC + 1]
           /\ plock' \subseteq Procs /\ klock' \subseteq {"WAIT_LOCK", "console"}
           /\ cpu' \in CpuState /\ frame' \in [Procs -> Frame] /\ on' \in 0..NPROC
           /\ fault' \in {"none", "panic", "wild"}
  <1>1. [NoFrame EXCEPT !.pc = "sleep", !.lock = lk, !.status = ptr] \in Frame
    BY Zenon DEF NoFrame, Frame, Points
  <1>2. pop_off(push_off(c)) \in CpuState
    BY CpuTypes
  <1>. QED BY <1>1, <1>2, SwitchTypes DEF sleep, TypeOK, check, States

\* A frame with a new point, as release_self, Usertrapret and Fork make it.
LEMMA FrameTypes ==
    ASSUME TypeOK, NEW p \in Procs, NEW at \in Points
    PROVE  /\ [NoFrame EXCEPT !.pc = at] \in Frame
           /\ [frame EXCEPT ![p].pc = at] \in [Procs -> Frame]
           /\ [frame EXCEPT ![p] = [NoFrame EXCEPT !.pc = at]] \in [Procs -> Frame]
           /\ resume(p) \in CpuState
  <1>1. [NoFrame EXCEPT !.pc = at] \in Frame
    BY Zenon DEF NoFrame, Frame, Points
  <1>2. [frame[p] EXCEPT !.pc = at] \in Frame
    BY DEF TypeOK, Frame
  <1>3. resume(p) \in CpuState
    BY DEF resume, TypeOK, CpuState, Frame
  <1>. QED BY <1>1, <1>2, <1>3 DEF TypeOK

\* A pass of scheduler keeps the types.
LEMMA TypeScheduler == TypeOK /\ Scheduler => TypeOK'
  <1>. SUFFICES ASSUME TypeOK, Scheduler PROVE TypeOK'
    OBVIOUS
  <1>0. /\ intr_on(cpu) \in CpuState /\ critical(cpu) \in CpuState
        /\ push_off(cpu) \in CpuState /\ pop_off(cpu) \in CpuState
    BY CpuTypes DEF TypeOK
  <1>1. CASE SchedulerTop
    BY <1>0, <1>1, NPROCAssumption DEF SchedulerTop, TypeOK, table, locks, io
  <1>2. CASE SchedulerSkip
    <2>1. si' \in 1..NPROC + 1
      BY <1>2, NPROCAssumption DEF SchedulerSkip, Procs
    <2>. QED BY <1>0, <1>2, <2>1 DEF SchedulerSkip, TypeOK, table, locks, io, check
  <1>3. CASE SchedulerRun
    <2>1. state' \in [Procs -> States] /\ plock' \subseteq Procs
      BY <1>3 DEF SchedulerRun, TypeOK, States
    <2>2. cproc' \in 0..NPROC /\ on' \in 0..NPROC
      BY <1>3, NPROCAssumption DEF SchedulerRun, Procs
    <2>. QED BY <1>0, <1>3, <2>1, <2>2 DEF SchedulerRun, TypeOK, io, check
  <1>4. CASE SchedulerReturn
    BY <1>0, <1>4, NPROCAssumption DEF SchedulerReturn, TypeOK, table, io, check, Procs, Null
  <1>. QED BY <1>1, <1>2, <1>3, <1>4 DEF Scheduler

\* A process that scheduler switched to goes on from its sched: types are kept.
LEMMA TypeSwitchedTo ==
    ASSUME NEW p \in Procs, TypeOK, Forkret(p) \/ YieldReturn(p) \/ SleepReturn(p)
    PROVE  TypeOK'
  <1>0. ASSUME NEW c \in CpuState, NEW at \in Points, release_self(p, c, at)
        PROVE  /\ plock' \subseteq Procs /\ cpu' \in CpuState
               /\ frame' \in [Procs -> Frame] /\ fault' \in {"none", "panic", "wild"}
    BY <1>0, CpuTypes, FrameTypes, Zenon DEF release_self, check, TypeOK
  <1>1. CASE Forkret(p)
    <2>1. release_self(p, cpu, "usertrapret") /\ cpu \in CpuState
      BY <1>1 DEF Forkret, TypeOK
    <2>. QED BY <1>0, <1>1, <2>1 DEF Forkret, TypeOK, table, io, Points
  <1>2. CASE YieldReturn(p)
    <2>1. PICK at \in {"usertrapret", "kret"} : release_self(p, resume(p), at)
      BY <1>2 DEF YieldReturn
    <2>2. resume(p) \in CpuState /\ at \in Points
      BY <2>1, FrameTypes, Zenon DEF Points
    <2>3. /\ plock' \subseteq Procs /\ cpu' \in CpuState
          /\ frame' \in [Procs -> Frame] /\ fault' \in {"none", "panic", "wild"}
      BY <1>0, <2>1, <2>2
    <2>. QED BY <1>2, <2>3 DEF YieldReturn, TypeOK, table, io
  <1>3. CASE SleepReturn(p)
    <2>2. resume(p) \in CpuState /\ "slept" \in Points
      BY FrameTypes, Zenon DEF Points
    <2>3. /\ plock' \subseteq Procs /\ cpu' \in CpuState
          /\ frame' \in [Procs -> Frame] /\ fault' \in {"none", "panic", "wild"}
      BY <1>0, <1>3, <2>2 DEF SleepReturn
    <2>4. chan' \in [Procs -> 0..NPROC + 1]
      BY <1>3, NPROCAssumption DEF SleepReturn, TypeOK
    <2>. QED BY <1>3, <2>3, <2>4 DEF SleepReturn, TypeOK, io
  <1>. QED BY <1>1, <1>2, <1>3

\* The way back to user code, usertrapret and sret, keeps the types.
LEMMA TypeToUser ==
    ASSUME NEW p \in Procs, TypeOK, Usertrapret(p) \/ Kret(p)
    PROVE  TypeOK'
  <1>0. intr_on(cpu) \in CpuState /\ intr_on(intr_off(cpu)) \in CpuState
    BY CpuTypes DEF TypeOK
  <1>1. CASE Usertrapret(p)
    <2>1. frame' \in [Procs -> Frame]
      BY <1>1, FrameTypes, Zenon DEF Usertrapret, Points
    <2>2. sepc' \in TrapFrom
      BY <1>1, NPROCAssumption DEF Usertrapret, TrapFrom, Procs
    <2>. QED BY <1>0, <1>1, <2>1, <2>2 DEF Usertrapret, TypeOK, table, locks, io, check
  <1>2. CASE Kret(p)
    <2>1. PICK at \in Points : at = frame[p].back
      BY DEF TypeOK, Frame
    <2>2. frame' = [[frame EXCEPT ![p].pc = at] EXCEPT ![p].back = "none"]
      BY <1>2, <2>1 DEF Kret
    <2>3. [frame EXCEPT ![p].pc = at] \in [Procs -> Frame]
      BY FrameTypes, Zenon
    <2>4. ASSUME NEW f \in [Procs -> Frame] PROVE [f EXCEPT ![p].back = "none"] \in [Procs -> Frame]
      <3>1. [f[p] EXCEPT !.back = "none"] \in Frame
        BY DEF Frame, Points
      <3>. QED BY <3>1
    <2>5. frame' \in [Procs -> Frame]
      BY <2>2, <2>3, <2>4, Zenon
    <2>. QED BY <1>0, <1>2, <2>5 DEF Kret, TypeOK, table, locks, io
  <1>. QED BY <1>1, <1>2

\* What every system call and user trap starts with and most end with.
LEMMA EcallTypes ==
    ASSUME NEW p \in Procs, TypeOK
    PROVE  /\ ecall(p) => sepc' \in TrapFrom
           /\ to_user(p) => frame' \in [Procs -> Frame]
           /\ trap(cpu) \in CpuState /\ push_off(trap(cpu)) \in CpuState
           /\ critical(trap(cpu)) \in CpuState
  <1>1. ecall(p) => sepc' \in TrapFrom
    BY NPROCAssumption DEF ecall, TrapFrom, Procs
  <1>2. to_user(p) => frame' \in [Procs -> Frame]
    <2>1. "usertrapret" \in Points
      BY DEF Points
    <2>2. [frame EXCEPT ![p] = [NoFrame EXCEPT !.pc = "usertrapret"]] \in [Procs -> Frame]
      BY <2>1, FrameTypes, Zenon
    <2>. QED BY <2>2 DEF to_user
  <1>3. trap(cpu) \in CpuState
    BY CpuTypes DEF TypeOK
  <1>. QED BY <1>1, <1>2, <1>3, CpuTypes

\* sys_fork keeps the types.
LEMMA TypeFork ==
    ASSUME NEW p \in Procs, TypeOK, ForkFull(p) \/ ForkNoMemory(p) \/ Fork(p)
    PROVE  TypeOK'
  <1>1. CASE ForkFull(p)
    BY <1>1, EcallTypes DEF ForkFull, TypeOK, table, locks, io, check
  <1>2. CASE ForkNoMemory(p)
    BY <1>2, EcallTypes DEF ForkNoMemory, TypeOK, locks, io, check
  <1>3. CASE Fork(p)
    <2>1. PICK child \in Procs :
              /\ NEXT_PID' = NEXT_PID + 1
              /\ pid' = [pid EXCEPT ![child] = NEXT_PID]
              /\ parent' = [parent EXCEPT ![child] = p]
              /\ xstate' = [xstate EXCEPT ![child] = 0]
              /\ chan' = [chan EXCEPT ![child] = 0]
              /\ state' = [state EXCEPT ![child] = "Runnable"]
              /\ frame' = [[frame EXCEPT ![child] = [NoFrame EXCEPT !.pc = "forkret"]]
                             EXCEPT ![p].pc = "usertrapret"]
      BY <1>3, Zenon DEF Fork
    <2>2. /\ NEXT_PID' \in Nat /\ pid' \in [Procs -> Nat]
          /\ xstate' \in [Procs -> Int] /\ state' \in [Procs -> States]
      BY <2>1 DEF TypeOK, States
    <2>4. parent' \in [Procs -> 0..NPROC] /\ chan' \in [Procs -> 0..NPROC + 1]
      <3>1. p \in 0..NPROC /\ 0 \in 0..NPROC + 1
        BY NPROCAssumption DEF Procs
      <3>. QED BY <2>1, <3>1 DEF TypeOK
    <2>3. frame' \in [Procs -> Frame]
      <3>1. [frame EXCEPT ![child] = [NoFrame EXCEPT !.pc = "forkret"]] \in [Procs -> Frame]
        BY FrameTypes, Zenon DEF Points
      <3>2. ASSUME NEW f \in [Procs -> Frame]
            PROVE  [f EXCEPT ![p].pc = "usertrapret"] \in [Procs -> Frame]
        <4>1. [f[p] EXCEPT !.pc = "usertrapret"] \in Frame
          BY DEF Frame, Points
        <4>. QED BY <4>1
      <3>. QED BY <2>1, <3>1, <3>2, Zenon
    <2>. QED BY <1>3, <2>2, <2>3, <2>4, EcallTypes DEF Fork, TypeOK, locks, io, check
  <1>. QED BY <1>1, <1>2, <1>3

\* exit, with its reparenting and wakeup, keeps the types.
LEMMA TypeExit ==
    ASSUME NEW p \in Procs, NEW code \in ExitCodes \cup {KILLED}, TypeOK, Exit(p, code)
    PROVE  TypeOK'
  <1>1. parent' \in [Procs -> 0..NPROC]
    BY NPROCAssumption DEF Exit, reparent, TypeOK, INITPROC
  <1>2. exit_wakeup(p) \in [Procs -> States]
    BY WakeupType DEF exit_wakeup, reparent_wakeup, TypeOK
  <1>3. state' \in [Procs -> States]
    BY <1>2 DEF Exit, States
  <1>4. xstate' \in [Procs -> Int]
    BY ExitCodesAssumption DEF Exit, TypeOK, KILLED
  <1>5. cpu' \in CpuState /\ frame' \in [Procs -> Frame] /\ on' \in 0..NPROC
    <2>1. pop_off(push_off(push_off(trap(cpu)))) \in CpuState
      BY CpuTypes, EcallTypes
    <2>2. [NoFrame EXCEPT !.pc = "exit"] \in Frame
      BY FrameTypes, Zenon DEF Points
    <2>. QED BY <2>1, <2>2, SwitchTypes DEF Exit
  <1>6. sepc' \in TrapFrom
    BY EcallTypes DEF Exit
  <1>. QED BY <1>1, <1>3, <1>4, <1>5, <1>6 DEF Exit, TypeOK, io, check

\* wait and its resumption keep the types.
LEMMA TypeWait ==
    ASSUME NEW p \in Procs, NEW ptr \in {"null", "ok", "bad"}, NEW c \in CpuState,
           TypeOK, wait(p, ptr, c), sepc' \in TrapFrom
    PROVE  TypeOK'
  <1>0. ASSUME NEW d \in CpuState, NEW held \in SUBSET {"WAIT_LOCK", "console"},
               wait_return(p, d, held)
        PROVE  /\ cpu' \in CpuState /\ klock' \subseteq {"WAIT_LOCK", "console"}
               /\ frame' \in [Procs -> Frame] /\ fault' \in {"none", "panic", "wild"}
    BY <1>0, EcallTypes DEF wait_return, check
  <1>c. critical(c) \in CpuState /\ push_off(c) \in CpuState
    BY CpuTypes
  <1>1. CASE wait_reap(p, ptr, c)
    <2>1. PICK child \in Procs :
              /\ freeproc(child)
              /\ waited' = [by |-> pid[p], pid |-> pid[child], xstate |-> xstate[child]]
      BY <1>1 DEF wait_reap
    <2>2. /\ pid' \in [Procs -> Nat] /\ parent' \in [Procs -> 0..NPROC]
          /\ xstate' \in [Procs -> Int] /\ chan' \in [Procs -> 0..NPROC + 1]
          /\ state' \in [Procs -> States]
      BY <2>1, NPROCAssumption DEF freeproc, TypeOK, Null, States
    <2>3. waited' \in [by : Nat, pid : Nat, xstate : Int]
      BY <2>1 DEF TypeOK
    <2>4. wait_return(p, critical(c), klock) /\ klock \in SUBSET {"WAIT_LOCK", "console"}
      BY <1>1 DEF wait_reap, TypeOK
    <2>. QED BY <1>0, <1>c, <2>2, <2>3, <2>4 DEF wait_return, TypeOK, io
  <1>2. CASE wait_copyout_fails(p, ptr, c)
    <2>1. /\ wait_return(p, push_off(c), klock \cup {"WAIT_LOCK"})
          /\ klock \cup {"WAIT_LOCK"} \in SUBSET {"WAIT_LOCK", "console"}
      BY <1>2 DEF wait_copyout_fails, TypeOK
    <2>. QED BY <1>0, <1>2, <1>c, <2>1 DEF wait_copyout_fails, wait_return, TypeOK, io
  <1>3. CASE wait_no_child(p, c)
    <2>1. wait_return(p, critical(c), klock) /\ klock \in SUBSET {"WAIT_LOCK", "console"}
      BY <1>3 DEF wait_no_child, TypeOK
    <2>. QED BY <1>0, <1>3, <1>c, <2>1 DEF wait_no_child, wait_return, TypeOK, io
  <1>4. CASE wait_sleep(p, ptr, c)
    <2>1. p \in 0..NPROC + 1
      BY NPROCAssumption DEF Procs
    <2>2. /\ sleep(p, p, "WAIT_LOCK", ptr, push_off(c))
          /\ UNCHANGED <<pid, parent, xstate, NEXT_PID, cproc, si, avail, rx, waited>>
      BY <1>4 DEF wait_sleep, io
    <2>3. /\ state' \in [Procs -> States] /\ chan' \in [Procs -> 0..NPROC + 1]
          /\ plock' \subseteq Procs /\ klock' \subseteq {"WAIT_LOCK", "console"}
          /\ cpu' \in CpuState /\ frame' \in [Procs -> Frame] /\ on' \in 0..NPROC
          /\ fault' \in {"none", "panic", "wild"}
      BY <1>c, <2>1, <2>2, SleepTypes
    <2>. QED BY <2>2, <2>3 DEF TypeOK
  <1>. QED BY <1>1, <1>2, <1>3, <1>4 DEF wait

\* A blocking read of the console keeps the types.
LEMMA TypeRead ==
    ASSUME NEW p \in Procs, NEW c \in CpuState, TypeOK, read(p, c), sepc' \in TrapFrom
    PROVE  TypeOK'
  <1>c. critical(c) \in CpuState /\ push_off(c) \in CpuState
    BY CpuTypes
  <1>1. CASE read_return(p, c)
    <2>1. avail' \in BOOLEAN
      BY <1>1, Zenon DEF read_return
    <2>. QED
      BY <1>1, <1>c, <2>1, EcallTypes DEF read_return, TypeOK, table, locks, check
  <1>2. CASE read_sleep(p, c)
    <2>1. input_chan \in 0..NPROC + 1
      BY NPROCAssumption DEF input_chan
    <2>2. sleep(p, input_chan, "console", "null", push_off(c))
      BY <1>2 DEF read_sleep
    <2>3. UNCHANGED <<pid, parent, xstate, NEXT_PID, cproc, si, avail, rx, waited>>
      BY <1>2 DEF read_sleep, io
    <2>4. /\ state' \in [Procs -> States] /\ chan' \in [Procs -> 0..NPROC + 1]
          /\ plock' \subseteq Procs /\ klock' \subseteq {"WAIT_LOCK", "console"}
          /\ cpu' \in CpuState /\ frame' \in [Procs -> Frame] /\ on' \in 0..NPROC
          /\ fault' \in {"none", "panic", "wild"}
      BY <1>c, <2>1, <2>2, SleepTypes
    <2>. QED BY <2>3, <2>4 DEF TypeOK
  <1>. QED BY <1>1, <1>2 DEF read

\* Every system call keeps the types.
LEMMA TypeSyscall ==
    ASSUME NEW p \in Procs, TypeOK, Syscall(p) \/ WaitAgain(p) \/ ReadAgain(p)
    PROVE  TypeOK'
  <1>1. CASE ForkFull(p) \/ ForkNoMemory(p) \/ Fork(p)
    BY <1>1, TypeFork
  <1>2. CASE \E code \in ExitCodes \cup {KILLED} : Exit(p, code)
    BY <1>2, TypeExit
  <1>3. CASE \E ptr \in StatusPtrs : Wait(p, ptr)
    BY <1>3, TypeWait, EcallTypes, StatusPtrsAssumption DEF Wait
  <1>4. CASE Read(p)
    BY <1>4, TypeRead, EcallTypes DEF Read
  <1>5. CASE WaitAgain(p)
    <2>1. /\ frame[p].status \in {"null", "ok", "bad"} /\ cpu \in CpuState
          /\ sepc' \in TrapFrom /\ wait(p, frame[p].status, cpu)
      BY <1>5 DEF WaitAgain, TypeOK, Frame
    <2>. QED BY <2>1, TypeWait
  <1>6. CASE ReadAgain(p)
    <2>1. cpu \in CpuState /\ sepc' \in TrapFrom /\ read(p, cpu)
      BY <1>6 DEF ReadAgain, TypeOK
    <2>. QED BY <2>1, TypeRead
  <1>. QED BY <1>1, <1>2, <1>3, <1>4, <1>5, <1>6 DEF Syscall

\* The timer interrupt of a process, in user code or in the kernel, keeps the
\* types.
LEMMA TypeTimer ==
    ASSUME NEW p \in Procs, TypeOK, UserTimer(p) \/ KernelTimer(p)
    PROVE  TypeOK'
  <1>1. CASE UserTimer(p)
    <2>1. [NoFrame EXCEPT !.pc = "yield"] \in Frame
      BY FrameTypes, Zenon DEF Points
    <2>2. /\ yield_cpu(p, [NoFrame EXCEPT !.pc = "yield"], trap(cpu))
          /\ sepc' \in TrapFrom /\ trap(cpu) \in CpuState
      BY <1>1, EcallTypes DEF UserTimer
    <2>. QED BY <1>1, <2>1, <2>2, SwitchTypes DEF UserTimer, TypeOK, io
  <1>2. CASE KernelTimer(p)
    <2>1. [frame[p] EXCEPT !.pc = "kyield", !.back = pc(p)] \in Frame
      <3>1. frame[p] \in Frame /\ pc(p) \in Points
        BY DEF pc, TypeOK, Frame
      <3>2. ASSUME NEW f \in Frame, NEW at \in Points
            PROVE  [f EXCEPT !.pc = "kyield", !.back = at] \in Frame
        BY Zenon DEF Frame, Points
      <3>. QED BY <3>1, <3>2, Zenon
    <2>2. /\ yield_cpu(p, [frame[p] EXCEPT !.pc = "kyield", !.back = pc(p)], trap(cpu))
          /\ trap(cpu) \in CpuState
      BY <1>2, EcallTypes DEF KernelTimer
    <2>3. sepc' \in TrapFrom
      BY <1>2, NPROCAssumption DEF KernelTimer, TrapFrom, Procs
    <2>. QED BY <1>2, <2>1, <2>2, <2>3, SwitchTypes DEF KernelTimer, TypeOK, io
  <1>. QED BY <1>1, <1>2

\* The interrupts that scheduler meets, and a machine that has stopped, keep the
\* types.
LEMMA TypeDevice ==
    ASSUME TypeOK, SchedulerTimer \/ External \/ Receive \/ Halted
    PROVE  TypeOK'
  <1>0. ASSUME intr
        PROVE  /\ state' \in [Procs -> States] /\ avail' \in BOOLEAN
               /\ rx' \in {"none", "edit", "line"}
               /\ fault' \in {"none", "panic", "wild"}
    <2>1. avail' \in BOOLEAN /\ rx' \in {"none", "edit", "line"}
      BY <1>0, Zenon DEF intr, TypeOK
    <2>2. state' \in [Procs -> States]
      BY <1>0, WakeupType DEF intr, TypeOK
    <2>3. fault' \in {"none", "panic", "wild"}
      BY <1>0 DEF intr, check
    <2>. QED BY <2>1, <2>2, <2>3
  <1>1. CASE SchedulerTimer
    <2>1. sepc' \in TrapFrom
      BY <1>1, NPROCAssumption DEF SchedulerTimer, TrapFrom, Null
    <2>. QED BY <1>1, <2>1 DEF SchedulerTimer, TypeOK, table, locks, io, check
  <1>2. CASE KernelExternal
    <2>1. sepc' \in TrapFrom
      BY <1>2 DEF KernelExternal, TrapFrom, TypeOK
    <2>2. cpu' \in CpuState
      <3>1. critical(trap(cpu)) \in CpuState
        BY CpuTypes DEF TypeOK
      <3>. QED BY <1>2, <3>1, Zenon DEF KernelExternal, CpuState
    <2>. QED BY <1>0, <1>2, <2>1, <2>2, Zenon DEF KernelExternal, intr, TypeOK, locks
  <1>3. ASSUME NEW p \in Procs, UserExternal(p) PROVE TypeOK'
    BY <1>0, <1>3, EcallTypes, Zenon DEF UserExternal, intr, TypeOK, locks
  <1>4. CASE Receive
    <2>1. rx' \in {"none", "edit", "line"}
      BY <1>4, Zenon DEF Receive
    <2>. QED BY <1>4, <2>1 DEF Receive, TypeOK, table, hart, locks
  <1>5. CASE Halted
    BY <1>5 DEF Halted, TypeOK, vars, table, hart, locks, io
  <1>. QED BY <1>1, <1>2, <1>3, <1>4, <1>5 DEF External

\* Every step keeps the types.
LEMMA TypeNext == TypeOK /\ [Next]_vars => TypeOK'
  <1>. SUFFICES ASSUME TypeOK, [Next]_vars PROVE TypeOK'
    OBVIOUS
  <1>1. CASE Scheduler
    BY <1>1, TypeScheduler
  <1>2. ASSUME NEW p \in Procs, Kernel(p) PROVE TypeOK'
    BY <1>2, TypeSwitchedTo, TypeToUser, TypeSyscall DEF Kernel
  <1>3. ASSUME NEW p \in Procs, Syscall(p) PROVE TypeOK'
    BY <1>3, TypeSyscall
  <1>4. ASSUME NEW p \in Procs, UserTimer(p) \/ KernelTimer(p) PROVE TypeOK'
    BY <1>4, TypeTimer
  <1>5. CASE SchedulerTimer \/ External \/ Receive \/ Halted
    BY <1>5, TypeDevice
  <1>6. CASE UNCHANGED vars
    BY <1>6 DEF TypeOK, vars, table, hart, locks, io
  <1>. QED BY <1>1, <1>2, <1>3, <1>4, <1>5, <1>6 DEF Next

\* For every size of the process table, every step of the scheduler, of a
\* process and of an interrupt handler keeps every variable of proc.rs in its
\* type: no slot index, frame or nesting depth ever leaves its range.
THEOREM TypeCorrect == Spec => []TypeOK
  BY TypeInit, TypeNext, PTL DEF Spec
-----------------------------------------------------------------------------
\* Control, split into what it says of the slots and of the hart.
SlotOK(p) ==
    /\ state[p] = "Running" <=> on = p
    /\ state[p] = "Runnable" => pc(p) \in SwitchedOut
    /\ state[p] = "Sleeping" => pc(p) = "sleep"
    /\ pc(p) \in {"yield", "kyield", "sleep"} => ~frame[p].intena
    /\ pc(p) \in {"kyield", "kret"} => frame[p].back = "usertrapret"
    /\ frame[p].status \in StatusPtrs \cup {"null"}

HartOK ==
    /\ cpu.sie => plock = {}
    /\ cpu.sie /\ on # Null => pc(on) \in {"usertrapret", "user"}
    /\ fault = "panic" => "bad" \in StatusPtrs /\ "WAIT_LOCK" \in klock
    /\ fault = "none" => HartHolds

\* The parts of Control, one by one.
LEMMA ControlParts ==
    /\ Control <=> (\A p \in Procs : SlotOK(p)) /\ HartOK
    /\ Control' <=> (\A p \in Procs : SlotOK(p)') /\ HartOK'
  BY Zenon DEF Control, SlotOK, HartOK

\* Where kmain leaves the machine, Control holds.
LEMMA ControlInit == Init => Control
  <1>. SUFFICES ASSUME Init PROVE (\A p \in Procs : SlotOK(p)) /\ HartOK
    BY ControlParts
  <1>1. HartOK
    BY DEF Init, HartOK, HartHolds, Null
  <1>2. ASSUME NEW p \in Procs PROVE SlotOK(p)
    BY DEF Init, SlotOK, Null, Procs, pc, NoFrame, SwitchedOut
  <1>. QED BY <1>1, <1>2

\* A pass of scheduler keeps Control.
LEMMA ControlScheduler == TypeOK /\ Control /\ Scheduler => Control'
  <1>. SUFFICES ASSUME TypeOK, Control, Scheduler
                PROVE  (\A p \in Procs : SlotOK(p)') /\ HartOK'
    BY ControlParts
  <1>0. HartOK /\ HartHolds /\ fault = "none" /\ on = Null
    BY ControlParts DEF Scheduler, SchedulerTop, SchedulerSkip, SchedulerRun,
                        SchedulerReturn, HartOK
  <1>s. \A p \in Procs : SlotOK(p)
    BY ControlParts
  <1>1. CASE SchedulerTop
    <2>1. HartOK'
      BY <1>0, <1>1, NPROCAssumption DEF SchedulerTop, HartOK, HartHolds, TypeOK, CpuState,
         intr_on, locks, Null, Procs
    <2>2. ASSUME NEW p \in Procs PROVE SlotOK(p)'
      BY <1>s, <1>1 DEF SchedulerTop, table, SlotOK, pc
    <2>. QED BY <2>1, <2>2
  <1>2. CASE SchedulerSkip
    <2>1. HartOK'
      <3>1. on = Null /\ cproc = Null /\ plock = {} /\ klock = {} /\ cpu.noff = 0
        BY <1>0, <1>2 DEF SchedulerSkip, HartHolds, Null, Procs
      <3>2. cpu'.noff = 0
        BY <3>1, <1>2 DEF SchedulerSkip, critical, push_off, pop_off
      <3>3. UNCHANGED <<on, cproc, plock, klock>> /\ fault' = "none"
        BY <3>1, <1>2 DEF SchedulerSkip, locks, check
      <3>. QED BY <3>1, <3>2, <3>3 DEF HartOK, HartHolds
    <2>2. ASSUME NEW p \in Procs PROVE SlotOK(p)'
      BY <1>s, <1>2 DEF SchedulerSkip, table, SlotOK, pc
    <2>. QED BY <2>1, <2>2
  <1>3. CASE SchedulerRun
    <2>1. HartOK'
      <3>1. pc(si) \in SwitchedOut
        BY <1>s, <1>3 DEF SchedulerRun, SlotOK
      <3>0. plock = {} /\ klock = {} /\ cpu.noff = 0
        BY <1>0, <1>3 DEF SchedulerRun, HartHolds, Null, Procs
      <3>2. ~cpu'.sie /\ cpu'.noff = 1 /\ plock' = {si} /\ klock' = {} /\ fault' = "none"
        BY <3>0, <1>3 DEF SchedulerRun, push_off, check
      <3>. QED BY <3>1, <3>2, <1>3 DEF SchedulerRun, HartOK, HartHolds, pc
    <2>2. ASSUME NEW p \in Procs PROVE SlotOK(p)'
      BY <1>0, <1>s, <1>3 DEF SchedulerRun, SlotOK, pc, TypeOK, Null, Procs
    <2>. QED BY <2>1, <2>2
  <1>4. CASE SchedulerReturn
    <2>1. HartOK'
      BY <1>0, <1>4 DEF SchedulerReturn, HartOK, HartHolds, TypeOK, CpuState, pop_off,
         pop_off_ok, Null, Procs, check
    <2>2. ASSUME NEW p \in Procs PROVE SlotOK(p)'
      BY <1>s, <1>4 DEF SchedulerReturn, table, SlotOK, pc
    <2>. QED BY <2>1, <2>2
  <1>. QED BY <1>1, <1>2, <1>3, <1>4 DEF Scheduler

-----------------------------------------------------------------------------
\* What Control says of the process on the hart: with its own lock held if it
\* has just been switched to, with no lock held elsewhere.
LEMMA SwitchedToHolds ==
    ASSUME NEW p \in Procs, Control, fault = "none", on = p, pc(p) \in SwitchedOut
    PROVE  /\ plock = {p} /\ klock = {} /\ cpu.noff = 1 /\ ~cpu.sie
           /\ cproc = p /\ si = p /\ state[p] = "Running"
  BY ControlParts DEF HartOK, HartHolds, SlotOK, Null, Procs, SwitchedOut, OnHart

\* What Control says of the process that runs in the kernel.
LEMMA RunningHolds ==
    ASSUME NEW p \in Procs, Control, fault = "none", on = p, pc(p) \in OnHart,
           pc(p) # "usertrapret" \/ cpu.sie
    PROVE  /\ plock = {} /\ klock = {} /\ cpu.noff = 0
           /\ cproc = p /\ si = p /\ state[p] = "Running"
  BY ControlParts DEF HartOK, HartHolds, SlotOK, Null, Procs, SwitchedOut, OnHart

\* How a step of process p re-establishes the hart's part: it switches to the
\* scheduler with its lock held, or goes on with none.
LEMMA SwitchOut ==
    ASSUME NEW p \in Procs, on' = Null, cproc' = p, si' = p, plock' = {p}, klock' = {},
           cpu'.noff = 1, ~cpu'.sie, fault' = "none"
    PROVE  HartOK'
  BY DEF HartOK, HartHolds

\* A process that goes on in the kernel after its switch keeps Control.
LEMMA GoOn ==
    ASSUME NEW p \in Procs, on' = p, cproc' = p, si' = p, plock' = {}, klock' = {},
           cpu'.noff = 0, pc(p)' \in OnHart, fault' # "panic",
           cpu'.sie => pc(p)' \in {"usertrapret", "user"}
    PROVE  HartOK'
  BY DEF HartOK, HartHolds, pc

\* A step of p leaves another slot q alone, wakes it, or frees it.
LEMMA OthersOK ==
    ASSUME NEW p \in Procs, NEW q \in Procs, q # p, on = p, on' \in {p, Null}, SlotOK(q),
           frame'[q] = frame[q],
           \/ state'[q] = state[q]
           \/ state[q] = "Sleeping" /\ state'[q] = "Runnable"
           \/ state'[q] = "Unused"
    PROVE  SlotOK(q)'
  BY DEF SlotOK, pc, SwitchedOut, Null, Procs

\* The first steps after swtch, in forkret, yield and sleep, keep Control.
LEMMA ControlSwitchedTo ==
    ASSUME NEW p \in Procs, TypeOK, Control,
           Forkret(p) \/ YieldReturn(p) \/ SleepReturn(p)
    PROVE  Control'
  <1>0. fault = "none" /\ on = p /\ pc(p) \in SwitchedOut
    BY DEF Forkret, YieldReturn, SleepReturn, At, SwitchedOut
  <1>h. /\ plock = {p} /\ klock = {} /\ cpu.noff = 1 /\ ~cpu.sie
        /\ cproc = p /\ si = p /\ state[p] = "Running"
    BY <1>0, SwitchedToHolds
  <1>u. state' = state /\ on' = on /\ cproc' = cproc /\ si' = si /\ klock' = klock
    BY DEF Forkret, YieldReturn, SleepReturn, table
  <1>1. PICK c \in {cpu, resume(p)}, at \in {"usertrapret", "kret", "slept"} :
            /\ release_self(p, c, at)
            /\ \/ c = cpu /\ at = "usertrapret"
               \/ c = resume(p) /\ pc(p) \in {"yield", "kyield", "sleep"}
            /\ at = "kret" => pc(p) = "kyield"
    <2>1. CASE Forkret(p)
      BY <2>1 DEF Forkret, At
    <2>2. CASE YieldReturn(p)
      BY <2>2 DEF YieldReturn, At
    <2>3. CASE SleepReturn(p)
      BY <2>3 DEF SleepReturn, At
    <2>. QED BY <2>1, <2>2, <2>3
  <1>2. c.noff = 1 /\ ~c.sie
    BY <1>h DEF resume, TypeOK, CpuState
  <1>3. plock' = {} /\ fault' = "none" /\ cpu'.noff = 0
    BY <1>1, <1>2, <1>h DEF release_self, check, pop_off, pop_off_ok
  <1>4. frame' = [frame EXCEPT ![p].pc = at] /\ pc(p)' = at
    BY <1>1 DEF release_self, pc, TypeOK, Frame
  <1>5. at # "usertrapret" => ~cpu'.sie
    BY <1>1, <1>2, ControlParts DEF release_self, pop_off, resume, SlotOK, TypeOK, CpuState
  <1>6. HartOK'
    BY <1>0, <1>h, <1>u, <1>3, <1>4, <1>5, GoOn DEF OnHart
  <1>7. ASSUME NEW q \in Procs, q # p PROVE SlotOK(q)'
    <2>1. SlotOK(q) /\ frame'[q] = frame[q]
      BY <1>4, <1>7, ControlParts DEF TypeOK
    <2>. QED BY <1>0, <1>7, <1>u, <2>1, OthersOK
  <1>8. SlotOK(p)'
    <2>1. SlotOK(p)
      BY ControlParts
    <2>2. /\ frame'[p].pc = at /\ frame'[p].back = frame[p].back
          /\ frame'[p].status = frame[p].status
      BY <1>4 DEF TypeOK, Frame
    <2>. QED BY <1>0, <1>h, <1>u, <1>1, <2>1, <2>2 DEF SlotOK, pc
  <1>. QED BY <1>6, <1>7, <1>8, ControlParts

\* usertrapret keeps Control.
LEMMA ControlUsertrapret ==
    ASSUME NEW p \in Procs, TypeOK, Control, Usertrapret(p)
    PROVE  Control'
  <1>0. /\ fault = "none" /\ on = p /\ pc(p) = "usertrapret" /\ on' = on /\ state' = state
        /\ frame' = [frame EXCEPT ![p].pc = "user"]
    BY DEF Usertrapret, At, table
  <1>1. /\ cproc = p /\ si = p /\ plock = {}
        /\ cpu.noff = 0 => klock = {}
        /\ cpu.noff # 0 => "bad" \in StatusPtrs /\ "WAIT_LOCK" \in klock
    BY <1>0, ControlParts DEF HartOK, HartHolds, SwitchedOut, Null, Procs
  <1>2. frame'[p].pc = "user" /\ frame'[p].status = frame[p].status
    BY <1>0 DEF TypeOK, Frame
  <1>3. HartOK'
    <2>1. CASE cpu.noff = 0
      <3>1. cpu'.noff = 0 /\ fault' = "none" /\ plock' = {} /\ klock' = {}
        BY <1>1, <2>1 DEF Usertrapret, check, intr_on, intr_off, TypeOK, CpuState, locks
      <3>2. cproc' = p /\ si' = p
        BY <1>1 DEF Usertrapret
      <3>. QED BY <1>0, <1>2, <3>1, <3>2, GoOn DEF OnHart, pc
    <2>2. CASE cpu.noff # 0
      BY <1>0, <1>1, <1>2, <2>2 DEF Usertrapret, check, locks, HartOK, pc
    <2>. QED BY <2>1, <2>2
  <1>4. ASSUME NEW q \in Procs PROVE SlotOK(q)'
    <2>1. CASE q = p
      BY <1>0, <1>2, <2>1, ControlParts DEF SlotOK, pc
    <2>2. CASE q # p
      <3>1. SlotOK(q) /\ frame'[q] = frame[q]
        BY <1>0, <2>2, ControlParts DEF TypeOK
      <3>. QED BY <1>0, <2>2, <3>1, OthersOK
    <2>. QED BY <2>1, <2>2
  <1>. QED BY <1>3, <1>4, ControlParts

\* The return from kerneltrap keeps Control.
LEMMA ControlKret ==
    ASSUME NEW p \in Procs, TypeOK, Control, Kret(p)
    PROVE  Control'
  <1>0. fault = "none" /\ on = p /\ pc(p) = "kret" /\ on' = on /\ state' = state
    BY DEF Kret, At, table
  <1>1. /\ plock = {} /\ klock = {} /\ cpu.noff = 0 /\ cproc = p /\ si = p
    BY <1>0, RunningHolds DEF OnHart
  <1>b. SlotOK(p) /\ frame[p].back = "usertrapret"
    BY <1>0, ControlParts DEF SlotOK
  <1>2. /\ frame'[p].pc = "usertrapret" /\ frame'[p].status = frame[p].status
        /\ \A q \in Procs : q # p => frame'[q] = frame[q]
    BY <1>b DEF Kret, TypeOK, Frame
  <1>3. HartOK'
    <2>1. /\ cpu'.noff = 0 /\ fault' # "panic" /\ plock' = {} /\ klock' = {}
          /\ cproc' = p /\ si' = p
      BY <1>1 DEF Kret, intr_on, TypeOK, CpuState, locks
    <2>. QED BY <1>0, <1>2, <2>1, GoOn DEF OnHart, pc
  <1>4. SlotOK(p)'
    BY <1>0, <1>b, <1>2 DEF SlotOK, pc
  <1>5. ASSUME NEW q \in Procs, q # p PROVE SlotOK(q)'
    BY <1>0, <1>2, <1>5, ControlParts, OthersOK
  <1>. QED BY <1>3, <1>4, <1>5, ControlParts

\* Locks taken where interrupts are masked and none is held: the saved flag is
\* FALSE, and releasing them leaves interrupts masked.
LEMMA MaskedPush ==
    ASSUME NEW c \in CpuState, c.noff = 0
    PROVE  /\ trap(c).noff = 0 /\ ~trap(c).sie
           /\ push_off(trap(c)).noff = 1 /\ ~push_off(trap(c)).intena /\ ~push_off(trap(c)).sie
           /\ ~c.sie => push_off(c).noff = 1 /\ ~push_off(c).intena /\ ~push_off(c).sie
  <1>1. ASSUME NEW d \in CpuState, d.noff = 0, ~d.sie
        PROVE  push_off(d).noff = 1 /\ ~push_off(d).intena /\ ~push_off(d).sie
    BY <1>1 DEF push_off, CpuState
  <1>2. trap(c) \in CpuState /\ trap(c).noff = 0 /\ ~trap(c).sie
    BY Zenon DEF trap, CpuState
  <1>. QED BY <1>1, <1>2

\* A step in which process p yields: to the scheduler, Runnable, its lock held.
LEMMA ControlYield ==
    ASSUME NEW p \in Procs, NEW fr \in Frame, TypeOK, Control, fault = "none", on = p,
           pc(p) \in OnHart, pc(p) # "usertrapret" \/ cpu.sie,
           yield_cpu(p, fr, trap(cpu)), UNCHANGED <<cproc, si, klock>>,
           fr.pc \in {"yield", "kyield"}, fr.pc = "kyield" => fr.back = "usertrapret",
           fr.status \in StatusPtrs \cup {"null"}
    PROVE  Control'
  <1>1. /\ plock = {} /\ klock = {} /\ cpu.noff = 0
        /\ cproc = p /\ si = p /\ state[p] = "Running"
    BY RunningHolds
  <1>. DEFINE c == push_off(trap(cpu))
  <1>2. c.noff = 1 /\ ~c.intena /\ ~c.sie
    BY <1>1, MaskedPush DEF TypeOK
  <1>. HIDE DEF c
  <1>3. /\ on' = Null /\ cpu' = c
        /\ frame' = [frame EXCEPT ![p] = [fr EXCEPT !.intena = c.intena]]
        /\ state' = [state EXCEPT ![p] = "Runnable"] /\ plock' = {p}
    BY <1>1 DEF yield_cpu, sched, c
  <1>4. fault' = "none"
    BY <1>1, <1>2, <1>3 DEF yield_cpu, check, sched_ok, TypeOK, c
  <1>5. HartOK'
    BY <1>1, <1>2, <1>3, <1>4, SwitchOut
  <1>6. SlotOK(p)'
    <2>1. /\ frame'[p].pc = fr.pc /\ ~frame'[p].intena /\ frame'[p].back = fr.back
          /\ frame'[p].status = fr.status /\ state'[p] = "Runnable"
      BY <1>2, <1>3 DEF TypeOK, Frame
    <2>. QED BY <1>3, <2>1 DEF SlotOK, pc, SwitchedOut, Null, Procs
  <1>7. ASSUME NEW q \in Procs, q # p PROVE SlotOK(q)'
    <2>1. SlotOK(q) /\ frame'[q] = frame[q] /\ state'[q] = state[q]
      BY <1>3, <1>7, ControlParts DEF TypeOK
    <2>. QED BY <1>3, <1>7, <2>1, OthersOK
  <1>. QED BY <1>5, <1>6, <1>7, ControlParts

\* The timer interrupt of a process keeps Control.
LEMMA ControlTimer ==
    ASSUME NEW p \in Procs, TypeOK, Control, UserTimer(p) \/ KernelTimer(p)
    PROVE  Control'
  <1>1. CASE UserTimer(p)
    <2>1. fault = "none" /\ on = p /\ pc(p) = "user"
      BY <1>1 DEF UserTimer, ecall, At
    <2>. DEFINE fr == [NoFrame EXCEPT !.pc = "yield"]
    <2>2. fr \in Frame /\ fr.pc = "yield" /\ fr.status = "null"
      BY Zenon DEF NoFrame, Frame, Points
    <2>3. yield_cpu(p, fr, trap(cpu)) /\ UNCHANGED <<cproc, si, klock>>
      BY <1>1 DEF UserTimer
    <2>. HIDE DEF fr
    <2>. QED BY <2>1, <2>2, <2>3, ControlYield DEF OnHart
  <1>2. CASE KernelTimer(p)
    <2>1. fault = "none" /\ on = p /\ pc(p) \in OnHart /\ cpu.sie
      BY <1>2 DEF KernelTimer, At, OnHart
    <2>2. pc(p) = "usertrapret"
      <3>1. pc(p) \in {"usertrapret", "kret", "slept"}
        BY <1>2 DEF KernelTimer, At
      <3>. QED BY <2>1, <3>1, ControlParts DEF HartOK, Null, Procs
    <2>. DEFINE fr == [frame[p] EXCEPT !.pc = "kyield", !.back = pc(p)]
    <2>3. /\ fr \in Frame /\ fr.pc = "kyield" /\ fr.back = "usertrapret"
          /\ fr.status = frame[p].status
      <3>1. ASSUME NEW f \in Frame
            PROVE  LET g == [f EXCEPT !.pc = "kyield", !.back = "usertrapret"]
                   IN  g \in Frame /\ g.pc = "kyield" /\ g.back = "usertrapret"
                       /\ g.status = f.status
        BY Zenon DEF Frame, Points
      <3>2. frame[p] \in Frame
        BY DEF TypeOK
      <3>. QED BY <2>2, <3>1, <3>2, Zenon
    <2>4. fr.status \in StatusPtrs \cup {"null"}
      BY <2>3, ControlParts DEF SlotOK
    <2>5. yield_cpu(p, fr, trap(cpu)) /\ UNCHANGED <<cproc, si, klock>>
      BY <1>2 DEF KernelTimer
    <2>. HIDE DEF fr
    <2>. QED BY <2>1, <2>3, <2>4, <2>5, ControlYield
  <1>. QED BY <1>1, <1>2

\* acquire and release where interrupts are masked change nothing that matters.
LEMMA MaskedCritical ==
    ASSUME NEW c \in CpuState, ~c.sie
    PROVE  /\ critical(c) = pop_off(push_off(c))
           /\ critical(c).noff = c.noff /\ ~critical(c).sie
           /\ c.noff # 0 => critical(c).intena = c.intena
  <1>1. critical(c) = pop_off(push_off(c))
    BY DEF critical
  <1>2. c.noff \in Nat /\ c.sie = FALSE /\ c.intena \in BOOLEAN
    BY DEF CpuState
  <1>3. pop_off(push_off(c)).noff = c.noff
    BY <1>2 DEF push_off, pop_off
  <1>4. ~pop_off(push_off(c)).sie
    <2>1. CASE c.noff = 0
      BY <1>2, <2>1, Zenon DEF push_off, pop_off
    <2>2. CASE c.noff # 0
      <3>1. push_off(c).noff # 1 /\ push_off(c).sie = FALSE
        BY <1>2, <2>2 DEF push_off
      <3>2. ASSUME NEW d, d.noff # 1, d.sie = FALSE PROVE ~pop_off(d).sie
        BY <3>2, Zenon DEF pop_off
      <3>. QED BY <3>1, <3>2, Zenon
    <2>. QED BY <2>1, <2>2
  <1>5. c.noff # 0 => pop_off(push_off(c)).intena = c.intena
    BY DEF push_off, pop_off
  <1>. QED BY <1>1, <1>3, <1>4, <1>5

\* A step in which a system call or a trap returns to usertrapret.
LEMMA ControlReturn ==
    ASSUME NEW p \in Procs, TypeOK, Control, fault = "none", on = p, pc(p) \in {"user", "slept"},
           to_user(p), cpu'.noff = 0, ~cpu'.sie, fault' = "none",
           UNCHANGED <<on, cproc, si, plock, klock>>, state'[p] = state[p],
           \A q \in Procs : \/ state'[q] = state[q] \/ state'[q] = "Unused"
                            \/ state[q] = "Sleeping" /\ state'[q] = "Runnable"
    PROVE  Control'
  <1>1. /\ plock = {} /\ klock = {} /\ cproc = p /\ si = p /\ state[p] = "Running"
    BY RunningHolds DEF OnHart
  <1>2. /\ frame'[p] = [NoFrame EXCEPT !.pc = "usertrapret"]
        /\ \A q \in Procs : q # p => frame'[q] = frame[q]
    BY DEF to_user, TypeOK
  <1>3. frame'[p].pc = "usertrapret" /\ frame'[p].status = "null"
    BY <1>2 DEF NoFrame
  <1>4. HartOK'
    BY <1>1, <1>3, GoOn DEF OnHart, pc
  <1>5. SlotOK(p)'
    BY <1>1, <1>3 DEF SlotOK, pc
  <1>6. ASSUME NEW q \in Procs, q # p PROVE SlotOK(q)'
    BY <1>2, <1>6, ControlParts, OthersOK
  <1>. QED BY <1>4, <1>5, <1>6, ControlParts

\* A step in which process p goes to sleep, lk being the one lock it held.
LEMMA ControlSleep ==
    ASSUME NEW p \in Procs, NEW ch, NEW lk \in {"WAIT_LOCK", "console"},
           NEW ptr \in StatusPtrs \cup {"null"}, NEW c \in CpuState,
           TypeOK, Control, fault = "none", on = p, pc(p) \in {"user", "slept"},
           c.noff = 1, ~c.intena, ~c.sie, sleep(p, ch, lk, ptr, c), UNCHANGED <<cproc, si>>
    PROVE  Control'
  <1>1. /\ plock = {} /\ klock = {} /\ cproc = p /\ si = p /\ state[p] = "Running"
    BY RunningHolds DEF OnHart
  <1>. DEFINE d == pop_off(push_off(c))
              fr == [NoFrame EXCEPT !.pc = "sleep", !.lock = lk, !.status = ptr]
  <1>2. d.noff = 1 /\ ~d.intena /\ ~d.sie
    BY MaskedCritical DEF CpuState
  <1>3. fr.pc = "sleep" /\ fr.status = ptr /\ [fr EXCEPT !.intena = d.intena].pc = "sleep"
        /\ [fr EXCEPT !.intena = d.intena].status = ptr
        /\ [fr EXCEPT !.intena = d.intena].intena = d.intena
    BY DEF NoFrame
  <1>. HIDE DEF d, fr
  <1>4. /\ on' = Null /\ cpu' = d
        /\ frame' = [frame EXCEPT ![p] = [fr EXCEPT !.intena = d.intena]]
        /\ state' = [state EXCEPT ![p] = "Sleeping"] /\ plock' = {p} /\ klock' = {}
    BY <1>1 DEF sleep, sched, d, fr
  <1>5. fault' = "none"
    BY <1>1, <1>2, <1>4 DEF sleep, check, sched_ok, TypeOK, d
  <1>6. HartOK'
    BY <1>1, <1>2, <1>4, <1>5, SwitchOut
  <1>7. SlotOK(p)'
    <2>1. /\ frame'[p].pc = "sleep" /\ ~frame'[p].intena
          /\ frame'[p].status = ptr /\ state'[p] = "Sleeping"
      BY <1>2, <1>3, <1>4 DEF TypeOK
    <2>. QED BY <1>4, <2>1 DEF SlotOK, pc, Null, Procs
  <1>8. ASSUME NEW q \in Procs, q # p PROVE SlotOK(q)'
    <2>1. SlotOK(q) /\ frame'[q] = frame[q] /\ state'[q] = state[q]
      BY <1>4, <1>8, ControlParts DEF TypeOK
    <2>. QED BY <1>4, <1>8, <2>1, OthersOK
  <1>. QED BY <1>6, <1>7, <1>8, ControlParts

\* A trap from user mode, before the handler runs, and a critical section in it.
LEMMA EcallHolds ==
    ASSUME NEW p \in Procs, TypeOK, Control, ecall(p)
    PROVE  /\ fault = "none" /\ on = p /\ pc(p) = "user"
           /\ plock = {} /\ klock = {} /\ cpu.noff = 0
           /\ cproc = p /\ si = p /\ state[p] = "Running"
           /\ trap(cpu) \in CpuState /\ trap(cpu).noff = 0 /\ ~trap(cpu).sie
           /\ critical(trap(cpu)).noff = 0 /\ ~critical(trap(cpu)).sie
  <1>1. fault = "none" /\ on = p /\ pc(p) = "user"
    BY DEF ecall, At
  <1>2. /\ plock = {} /\ klock = {} /\ cpu.noff = 0
        /\ cproc = p /\ si = p /\ state[p] = "Running"
    BY <1>1, RunningHolds DEF OnHart
  <1>3. trap(cpu) \in CpuState /\ trap(cpu).noff = 0 /\ ~trap(cpu).sie
    BY <1>2, MaskedPush, EcallTypes DEF TypeOK
  <1>. QED BY <1>1, <1>2, <1>3, MaskedCritical

\* sys_fork keeps Control.
LEMMA ControlFork ==
    ASSUME NEW p \in Procs, TypeOK, Control, ForkFull(p) \/ ForkNoMemory(p) \/ Fork(p)
    PROVE  Control'
  <1>0. ecall(p) /\ cpu' = critical(trap(cpu)) /\ UNCHANGED <<on, cproc, si, plock, klock>>
    BY DEF ForkFull, ForkNoMemory, Fork, locks
  <1>h. /\ fault = "none" /\ on = p /\ pc(p) = "user"
        /\ plock = {} /\ klock = {} /\ cproc = p /\ si = p /\ state[p] = "Running"
        /\ cpu'.noff = 0 /\ ~cpu'.sie
    BY <1>0, EcallHolds
  <1>f. fault' = "none"
    BY <1>h DEF ForkFull, ForkNoMemory, Fork, check
  <1>1. CASE ForkFull(p) \/ ForkNoMemory(p)
    <2>1. to_user(p) /\ state' = state
      BY <1>1 DEF ForkFull, ForkNoMemory, table
    <2>. QED BY <1>0, <1>h, <1>f, <2>1, ControlReturn
  <1>2. CASE Fork(p)
    <2>1. PICK child \in Procs :
              /\ state[child] = "Unused"
              /\ state' = [state EXCEPT ![child] = "Runnable"]
              /\ frame' = [frame EXCEPT ![child] = [NoFrame EXCEPT !.pc = "forkret"],
                                        ![p].pc = "usertrapret"]
      BY <1>2, Zenon DEF Fork, first, unused
    <2>2. child # p
      BY <1>h, <2>1
    <2>3. /\ frame'[child] = [NoFrame EXCEPT !.pc = "forkret"]
          /\ frame'[p] = [frame[p] EXCEPT !.pc = "usertrapret"]
          /\ \A q \in Procs : q \notin {p, child} => frame'[q] = frame[q]
      BY <2>1, <2>2 DEF TypeOK
    <2>4. frame'[p].pc = "usertrapret" /\ frame'[p].status = frame[p].status
      BY <2>3 DEF TypeOK, Frame
    <2>5. HartOK'
      BY <1>0, <1>h, <1>f, <2>4, GoOn DEF OnHart, pc
    <2>6. SlotOK(p)'
      <3>1. state'[p] = "Running"
        BY <1>h, <2>1, <2>2 DEF TypeOK
      <3>. QED BY <1>0, <1>h, <2>4, <3>1, ControlParts DEF SlotOK, pc
    <2>7. SlotOK(child)'
      <3>1. /\ frame'[child].pc = "forkret" /\ frame'[child].status = "null"
            /\ state'[child] = "Runnable"
        BY <2>1, <2>3 DEF NoFrame, TypeOK
      <3>. QED BY <1>0, <1>h, <2>2, <3>1 DEF SlotOK, pc, SwitchedOut
    <2>8. ASSUME NEW q \in Procs, q \notin {p, child} PROVE SlotOK(q)'
      <3>1. state'[q] = state[q] /\ frame'[q] = frame[q] /\ SlotOK(q)
        BY <2>1, <2>3, <2>8, ControlParts DEF TypeOK
      <3>. QED BY <1>0, <1>h, <2>8, <3>1, OthersOK
    <2>. QED BY <2>5, <2>6, <2>7, <2>8, ControlParts
  <1>. QED BY <1>1, <1>2

\* wakeup only makes sleepers Runnable.
LEMMA WakeupEffect ==
    ASSUME NEW ch, NEW st \in [Procs -> States], NEW q \in Procs
    PROVE  /\ wakeup(ch, st)[q] = IF st[q] = "Sleeping" /\ chan[q] = ch
                                  THEN "Runnable" ELSE st[q]
           /\ \/ wakeup(ch, st)[q] = st[q]
              \/ st[q] = "Sleeping" /\ wakeup(ch, st)[q] = "Runnable"
  BY DEF wakeup

\* The states exit leaves: its own and those its wakeup changes.
LEMMA ExitWakes ==
    ASSUME NEW p \in Procs, NEW q \in Procs, TypeOK
    PROVE  \/ exit_wakeup(p)[q] = state[q]
           \/ state[q] = "Sleeping" /\ exit_wakeup(p)[q] = "Runnable"
  <1>1. /\ reparent_wakeup(p) \in [Procs -> States]
        /\ \/ reparent_wakeup(p)[q] = state[q]
           \/ state[q] = "Sleeping" /\ reparent_wakeup(p)[q] = "Runnable"
    <2>1. wakeup(INITPROC, state) \in [Procs -> States]
      BY WakeupType DEF TypeOK
    <2>2. \/ wakeup(INITPROC, state)[q] = state[q]
          \/ state[q] = "Sleeping" /\ wakeup(INITPROC, state)[q] = "Runnable"
      BY DEF wakeup, TypeOK
    <2>. QED BY <2>1, <2>2 DEF reparent_wakeup, TypeOK
  <1>. QED BY <1>1 DEF exit_wakeup, wakeup

\* exit keeps Control.
LEMMA ControlExit ==
    ASSUME NEW p \in Procs, NEW code, TypeOK, Control, Exit(p, code)
    PROVE  Control'
  <1>h. /\ fault = "none" /\ on = p /\ pc(p) = "user" /\ plock = {} /\ klock = {}
        /\ cpu.noff = 0 /\ cproc = p /\ si = p
    BY EcallHolds DEF Exit
  <1>. DEFINE d == pop_off(push_off(push_off(trap(cpu))))
              fr == [NoFrame EXCEPT !.pc = "exit"]
  <1>1. d.noff = 1 /\ ~d.sie
    BY <1>h, MaskedPush, MaskedCritical, EcallTypes DEF TypeOK
  <1>2. [fr EXCEPT !.intena = d.intena].pc = "exit" /\ [fr EXCEPT !.intena = d.intena].status = "null"
    BY DEF NoFrame
  <1>. HIDE DEF d, fr
  <1>3. /\ on' = Null /\ cpu' = d /\ plock' = {p} /\ klock' = {} /\ cproc' = p /\ si' = p
        /\ frame' = [frame EXCEPT ![p] = [fr EXCEPT !.intena = d.intena]]
        /\ state' = [exit_wakeup(p) EXCEPT ![p] = "Zombie"]
    BY <1>h DEF Exit, sched, d, fr
  <1>4. exit_wakeup(p) \in [Procs -> States]
    BY WakeupType DEF exit_wakeup, reparent_wakeup, TypeOK
  <1>5. state'[p] = "Zombie" /\ \A q \in Procs : q # p => state'[q] = exit_wakeup(p)[q]
    BY <1>3, <1>4
  <1>6. fault' = "none"
    BY <1>h, <1>1, <1>5 DEF Exit, check, sched_ok, wakeup_ok, d
  <1>7. HartOK'
    BY <1>1, <1>3, <1>6, SwitchOut
  <1>8. SlotOK(p)'
    <2>1. frame'[p].pc = "exit" /\ frame'[p].status = "null"
      BY <1>2, <1>3 DEF TypeOK
    <2>. QED BY <1>3, <1>5, <2>1 DEF SlotOK, pc, Null, Procs
  <1>9. ASSUME NEW q \in Procs, q # p PROVE SlotOK(q)'
    <2>1. SlotOK(q) /\ frame'[q] = frame[q]
      BY <1>3, <1>9, ControlParts DEF TypeOK
    <2>2. \/ state'[q] = state[q]
          \/ state[q] = "Sleeping" /\ state'[q] = "Runnable"
      BY <1>5, <1>9, ExitWakes
    <2>. QED BY <1>h, <1>3, <1>9, <2>1, <2>2, OthersOK
  <1>. QED BY <1>7, <1>8, <1>9, ControlParts

\* wait and its resumption keep Control.
LEMMA ControlWait ==
    ASSUME NEW p \in Procs, NEW ptr \in StatusPtrs \cup {"null"}, NEW c \in CpuState,
           TypeOK, Control, fault = "none", on = p, pc(p) \in {"user", "slept"},
           c.noff = 0, ~c.sie, wait(p, ptr, c)
    PROVE  Control'
  <1>h. plock = {} /\ klock = {} /\ cproc = p /\ si = p /\ state[p] = "Running"
    BY RunningHolds DEF OnHart
  <1>c. critical(c).noff = 0 /\ ~critical(c).sie
    BY MaskedCritical
  <1>p. /\ push_off(c) \in CpuState
        /\ push_off(c).noff = 1 /\ ~push_off(c).intena /\ ~push_off(c).sie
    BY CpuTypes, MaskedPush
  <1>r. ASSUME NEW d, NEW held, wait_return(p, d, held)
        PROVE  /\ cpu' = d /\ klock' = held /\ to_user(p) /\ fault' = "none"
               /\ UNCHANGED <<on, cproc, si, plock>>
    BY <1>h, <1>r DEF wait_return, check
  <1>1. CASE wait_reap(p, ptr, c)
    <2>1. PICK child \in Procs : state[child] = "Zombie" /\ freeproc(child)
      BY <1>1 DEF wait_reap, first, zombies
    <2>2. state' = [state EXCEPT ![child] = "Unused"] /\ child # p
      BY <1>h, <2>1 DEF freeproc
    <2>3. /\ state'[p] = state[p]
          /\ \A q \in Procs : state'[q] = state[q] \/ state'[q] = "Unused"
      BY <2>2 DEF TypeOK
    <2>4. /\ cpu' = critical(c) /\ klock' = klock /\ to_user(p) /\ fault' = "none"
          /\ UNCHANGED <<on, cproc, si, plock>>
      BY <1>1, <1>r DEF wait_reap
    <2>. QED BY <1>c, <2>3, <2>4, ControlReturn
  <1>2. CASE wait_copyout_fails(p, ptr, c)
    <2>1. /\ cpu' = push_off(c) /\ klock' = {"WAIT_LOCK"} /\ to_user(p) /\ fault' = "none"
          /\ UNCHANGED <<on, cproc, si, plock, state>> /\ "bad" \in StatusPtrs
      BY <1>2, <1>h, <1>r DEF wait_copyout_fails
    <2>2. /\ frame'[p] = [NoFrame EXCEPT !.pc = "usertrapret"]
          /\ \A q \in Procs : q # p => frame'[q] = frame[q]
      BY <2>1 DEF to_user, TypeOK
    <2>3. frame'[p].pc = "usertrapret" /\ frame'[p].status = "null"
      BY <2>2 DEF NoFrame
    <2>4. HartOK'
      BY <1>h, <1>p, <2>1, <2>3 DEF HartOK, HartHolds, pc
    <2>5. SlotOK(p)'
      BY <1>h, <2>1, <2>3 DEF SlotOK, pc
    <2>6. ASSUME NEW q \in Procs, q # p PROVE SlotOK(q)'
      BY <2>1, <2>2, <2>6, ControlParts, OthersOK
    <2>. QED BY <2>4, <2>5, <2>6, ControlParts
  <1>3. CASE wait_no_child(p, c)
    <2>1. /\ cpu' = critical(c) /\ klock' = klock /\ to_user(p) /\ fault' = "none"
          /\ UNCHANGED <<on, cproc, si, plock, state>>
      BY <1>3, <1>r DEF wait_no_child
    <2>. QED BY <1>c, <2>1, ControlReturn
  <1>4. CASE wait_sleep(p, ptr, c)
    BY <1>4, <1>p, ControlSleep DEF wait_sleep
  <1>. QED BY <1>1, <1>2, <1>3, <1>4 DEF wait

\* A blocking read of the console keeps Control.
LEMMA ControlRead ==
    ASSUME NEW p \in Procs, NEW c \in CpuState,
           TypeOK, Control, fault = "none", on = p, pc(p) \in {"user", "slept"},
           c.noff = 0, ~c.sie, read(p, c)
    PROVE  Control'
  <1>h. plock = {} /\ klock = {} /\ cproc = p /\ si = p /\ state[p] = "Running"
    BY RunningHolds DEF OnHart
  <1>1. CASE read_return(p, c)
    <2>1. critical(c).noff = 0 /\ ~critical(c).sie
      BY MaskedCritical
    <2>2. /\ cpu' = critical(c) /\ to_user(p) /\ fault' = "none"
          /\ UNCHANGED <<on, cproc, si, plock, klock, state>>
      BY <1>1, <1>h DEF read_return, check, table, locks
    <2>. QED BY <2>1, <2>2, ControlReturn
  <1>2. CASE read_sleep(p, c)
    <2>1. /\ push_off(c) \in CpuState
          /\ push_off(c).noff = 1 /\ ~push_off(c).intena /\ ~push_off(c).sie
      BY CpuTypes, MaskedPush
    <2>. QED BY <1>2, <2>1, ControlSleep DEF read_sleep
  <1>. QED BY <1>1, <1>2 DEF read

\* Every system call keeps Control.
LEMMA ControlSyscall ==
    ASSUME NEW p \in Procs, TypeOK, Control, Syscall(p) \/ WaitAgain(p) \/ ReadAgain(p)
    PROVE  Control'
  <1>1. CASE ForkFull(p) \/ ForkNoMemory(p) \/ Fork(p)
    BY <1>1, ControlFork
  <1>2. CASE \E code \in ExitCodes \cup {KILLED} : Exit(p, code)
    BY <1>2, ControlExit
  <1>3. CASE \E ptr \in StatusPtrs : Wait(p, ptr)
    BY <1>3, ControlWait, EcallHolds DEF Wait
  <1>4. CASE Read(p)
    BY <1>4, ControlRead, EcallHolds DEF Read
  <1>5. ASSUME At(p, "slept")
        PROVE  /\ fault = "none" /\ on = p /\ pc(p) = "slept" /\ cpu \in CpuState
               /\ cpu.noff = 0 /\ ~cpu.sie /\ frame[p].status \in StatusPtrs \cup {"null"}
    <2>1. fault = "none" /\ on = p /\ pc(p) = "slept"
      BY <1>5 DEF At
    <2>2. cpu.noff = 0
      BY <2>1, RunningHolds DEF OnHart
    <2>3. HartOK /\ SlotOK(p)
      BY ControlParts
    <2>4. on # Null
      BY <2>1 DEF Null, Procs
    <2>5. ~cpu.sie
      BY <2>1, <2>3, <2>4 DEF HartOK
    <2>. QED BY <2>1, <2>2, <2>3, <2>5 DEF SlotOK, TypeOK
  <1>6. CASE WaitAgain(p)
    BY <1>5, <1>6, ControlWait DEF WaitAgain
  <1>7. CASE ReadAgain(p)
    BY <1>5, <1>7, ControlRead DEF ReadAgain
  <1>. QED BY <1>1, <1>2, <1>3, <1>4, <1>6, <1>7 DEF Syscall

\* A timer interrupt in scheduler keeps Control.
LEMMA ControlSchedulerTimer == TypeOK /\ Control /\ SchedulerTimer => Control'
  <1>. SUFFICES ASSUME TypeOK, Control, SchedulerTimer PROVE Control'
    OBVIOUS
  <1>1. cproc = Null
    BY ControlParts DEF SchedulerTimer, HartOK, HartHolds, Null, Procs
  <1>2. fault' = "none" /\ UNCHANGED <<state, frame, cpu, cproc, on, si, plock, klock>>
    BY <1>1 DEF SchedulerTimer, check, table, locks
  <1>3. HartOK'
    BY <1>2, ControlParts DEF SchedulerTimer, HartOK, HartHolds, pc
  <1>4. ASSUME NEW p \in Procs PROVE SlotOK(p)'
    BY <1>2, ControlParts DEF SlotOK, pc
  <1>. QED BY <1>3, <1>4, ControlParts

\* The UART interrupt keeps Control.
LEMMA ControlExternal == TypeOK /\ Control /\ External => Control'
  <1>. SUFFICES ASSUME TypeOK, Control, External PROVE Control'
    OBVIOUS
  <1>w. ASSUME intr
        PROVE  /\ \A q \in Procs : \/ state'[q] = state[q]
                                   \/ state[q] = "Sleeping" /\ state'[q] = "Runnable"
               /\ UNCHANGED <<cproc, on, si, plock, klock>>
    BY <1>w, WakeupEffect DEF intr, TypeOK, locks
  <1>1. CASE KernelExternal
    <2>1. fault = "none" /\ cpu.sie /\ frame' = frame /\ intr
      BY <1>1 DEF KernelExternal
    <2>2. plock = {} /\ klock = {} /\ cpu.noff = 0
      BY <2>1, ControlParts DEF HartOK, HartHolds
    <2>3. fault' = "none"
      BY <2>1, <2>2 DEF intr, check, wakeup_ok
    <2>4. cpu'.noff = 0 /\ cpu'.sie
      <3>1. trap(cpu) \in CpuState /\ trap(cpu).noff = 0 /\ ~trap(cpu).sie
        BY <2>2, MaskedPush, CpuTypes DEF TypeOK
      <3>2. critical(trap(cpu)) \in CpuState /\ critical(trap(cpu)).noff = 0
        BY <3>1, MaskedCritical, CpuTypes
      <3>. QED BY <1>1, <3>2 DEF KernelExternal, CpuState
    <2>5. HartOK'
      BY <1>w, <2>1, <2>2, <2>3, <2>4, ControlParts DEF HartOK, HartHolds, pc, Procs, Null
    <2>6. ASSUME NEW p \in Procs PROVE SlotOK(p)'
      <3>1. SlotOK(p)
        BY ControlParts
      <3>. QED BY <1>w, <2>1, <3>1 DEF SlotOK, pc, SwitchedOut
    <2>. QED BY <2>5, <2>6, ControlParts
  <1>2. ASSUME NEW p \in Procs, UserExternal(p) PROVE Control'
    <2>1. ecall(p) /\ intr /\ to_user(p) /\ cpu' = critical(trap(cpu))
      BY <1>2 DEF UserExternal
    <2>2. /\ fault = "none" /\ on = p /\ pc(p) = "user" /\ plock = {} /\ klock = {}
          /\ state[p] = "Running" /\ cpu'.noff = 0 /\ ~cpu'.sie
      BY <2>1, EcallHolds
    <2>3. fault' = "none"
      BY <2>1, <2>2 DEF intr, check, wakeup_ok
    <2>. QED BY <1>w, <2>1, <2>2, <2>3, ControlReturn
  <1>. QED BY <1>1, <1>2 DEF External

\* Every step keeps Control.
LEMMA ControlNext == TypeOK /\ Control /\ [Next]_vars => Control'
  <1>. SUFFICES ASSUME TypeOK, Control, [Next]_vars PROVE Control'
    OBVIOUS
  <1>1. CASE Scheduler
    BY <1>1, ControlScheduler
  <1>2. ASSUME NEW p \in Procs, Kernel(p) PROVE Control'
    BY <1>2, ControlSwitchedTo, ControlUsertrapret, ControlKret, ControlSyscall DEF Kernel
  <1>3. ASSUME NEW p \in Procs, Syscall(p) PROVE Control'
    BY <1>3, ControlSyscall
  <1>4. ASSUME NEW p \in Procs, UserTimer(p) \/ KernelTimer(p) PROVE Control'
    BY <1>4, ControlTimer
  <1>5. CASE SchedulerTimer \/ External
    BY <1>5, ControlSchedulerTimer, ControlExternal
  <1>6. CASE Receive \/ Halted \/ UNCHANGED vars
    <2>1. UNCHANGED <<state, frame, cpu, cproc, on, si, plock, klock, fault>>
      BY <1>6 DEF Receive, Halted, vars, table, hart, locks
    <2>. QED BY <2>1 DEF Control, HartHolds, pc
  <1>. QED BY <1>1, <1>2, <1>3, <1>4, <1>5, <1>6 DEF Next

\* The control invariant holds of every reachable state: the states of the
\* slots, the contexts saved by swtch, the locks and the interrupt flags agree.
THEOREM ControlCorrect == Spec => []Control
  BY TypeCorrect, ControlInit, ControlNext, PTL DEF Spec

-----------------------------------------------------------------------------
\* A process is Running exactly when the hart executes it.
THEOREM OneRunning == Spec => []RunningIsOnHart
  <1>1. Control => RunningIsOnHart
    BY DEF Control, RunningIsOnHart
  <1>. QED BY <1>1, ControlCorrect, PTL

\* No process is interrupted inside a system call, whatever it was switched
\* away for in the middle of it.
THEOREM SyscallsMasked == Spec => []SyscallsNotInterrupted
  <1>1. Control => SyscallsNotInterrupted
    BY DEF Control, SyscallsNotInterrupted
  <1>. QED BY <1>1, ControlCorrect, PTL

\* noff is the number of locks held, and no interrupt can find one held.
THEOREM LocksCounted == Spec => []LocksMaskInterrupts
  <1>1. Control => LocksMaskInterrupts
    <2>. SUFFICES ASSUME Control, fault = "none"
                  PROVE  cpu.noff = Cardinality(plock) + Cardinality(klock)
      BY DEF Control, LocksMaskInterrupts
    <2>1. \A x : Cardinality({x}) = 1
      BY FS_Singleton, Zenon
    <2>2. Cardinality({}) = 0
      BY FS_EmptySet
    <2>3. \/ plock = {} /\ klock = {} /\ cpu.noff = 0
          \/ (\E x : plock = {x}) /\ klock = {} /\ cpu.noff = 1
          \/ plock = {} /\ klock = {"WAIT_LOCK"} /\ cpu.noff = 1
      BY DEF Control, HartHolds
    <2>4. CASE plock = {} /\ klock = {} /\ cpu.noff = 0
      BY <2>2, <2>4
    <2>5. CASE (\E x : plock = {x}) /\ klock = {} /\ cpu.noff = 1
      <3>1. Cardinality(plock) = 1
        BY <2>1, <2>5, Zenon
      <3>. QED BY <2>2, <2>5, <3>1
    <2>6. CASE plock = {} /\ klock = {"WAIT_LOCK"} /\ cpu.noff = 1
      <3>1. Cardinality(klock) = 1
        BY <2>1, <2>6
      <3>. QED BY <2>2, <2>6, <3>1
    <2>. QED BY <2>3, <2>4, <2>5, <2>6
  <1>. QED BY <1>1, ControlCorrect, PTL

\* If user programs hand wait no bad status pointer, no assertion of the lock,
\* scheduler and trap code ever fails.
THEOREM PanicFree == ASSUME "bad" \notin StatusPtrs PROVE Spec => []NoPanic
  <1>1. Control => NoPanic
    BY DEF Control, NoPanic
  <1>. QED BY <1>1, ControlCorrect, PTL

\* Whatever pointers user programs hand wait, an assertion fails only with the
\* WAIT_LOCK held that a failing copyout has left behind.
THEOREM PanicsOnlyInWait == Spec => []OnlyWaitPanics
  <1>1. Control => OnlyWaitPanics
    BY DEF Control, OnlyWaitPanics
  <1>. QED BY <1>1, ControlCorrect, PTL
=============================================================================
