-------------------------------- MODULE Proc --------------------------------
(***************************************************************************)
(* src/src/proc.rs with the parts of trap.rs, timer.rs, spinlock.rs and    *)
(* console.rs that it runs on: the process table, the scheduler, sleep and *)
(* wakeup, fork, exit and wait, and the traps that enter and leave them,   *)
(* on one hart.                                                            *)
(*                                                                         *)
(* The hart executes one context at a time: the scheduler (on = 0) or the  *)
(* kernel or user code of the process in slot `on`.  A step runs from one  *)
(* point where no lock is held, or where swtch changes the context, to the *)
(* next such point.  Nothing can come between: push_off keeps SIE clear    *)
(* while a lock is held.  At every point where no lock is held an          *)
(* interrupt may be taken if cpu.sie says so, whatever the code there      *)
(* intends.                                                                *)
(***************************************************************************)
EXTENDS Integers, FiniteSets, Cpu

CONSTANTS NPROC,        \* size of the process table
          MaxPid,       \* bound on NEXT_PID: fork is not called beyond it
          ExitCodes,    \* the codes user programs pass to exit
          StatusPtrs    \* what user programs pass to wait as status_va

ASSUME NPROCAssumption == NPROC \in Nat \ {0}
ASSUME MaxPidAssumption == MaxPid \in Nat
ASSUME ExitCodesAssumption == ExitCodes \subseteq Int
ASSUME StatusPtrsAssumption == StatusPtrs \subseteq {"null", "ok", "bad"}

Procs == 1..NPROC        \* addresses of the slots of PROCS
Null == 0                \* the null pointer; as a value of `on`, the scheduler
INITPROC == 1            \* userinit takes the first slot
input_chan == NPROC + 1  \* console::input_chan, no slot's address
KILLED == -1             \* exit code of a process killed by usertrap

States == {"Unused", "Used", "Runnable", "Running", "Sleeping", "Zombie"}

\* Where the kernel code of a process stands.  forkret, yield, kyield, sleep
\* and exit are switched-out contexts, saved by swtch with p.lock held (kyield
\* is a yield_cpu below kerneltrap); user is U-mode; usertrapret, kret (about
\* to sret from trap_entry) and slept (sleep, about to reacquire its lock)
\* hold no lock.
Points == {"none", "forkret", "yield", "kyield", "sleep", "exit",
           "user", "usertrapret", "kret", "slept"}

SwitchedOut == {"forkret", "yield", "kyield", "sleep"}  \* may be switched to
OnHart == {"user", "usertrapret", "kret", "slept"}

\* The origin of the last trap, as sepc and sstatus.SPP record it.
TrapFrom == [mode : {"U", "S"}, ctx : 0..NPROC]

VARIABLES
    state, pid, parent, xstate, chan,   \* fields of Process, by slot
    NEXT_PID,
    frame,    \* by slot, the locals on its kernel stack that outlive a swtch
    cpu,      \* noff, intena and SIE
    cproc,    \* cpu.proc
    on,       \* the context the hart executes
    si,       \* the scheduler's loop index; NPROC + 1 at the top of the loop
    sepc,     \* sepc and SPP
    plock,    \* the slots whose p.lock is held
    klock,    \* those of WAIT_LOCK and console.lock that are held
    avail,    \* whether a line of console input is available
    rx,       \* what the UART holds that console::intr has not yet taken: "none",
              \* "edit", bytes that only edit the line being typed, or "line",
              \* with a byte for which input_putc reports that the line is
              \* entered (newline, end of file, full buffer)
    waited,   \* the last result of wait: [by, pid, xstate], by and pid as pids
    fault     \* "none", "panic" (an assertion failed) or "wild" (see kret)

table == <<state, pid, parent, xstate, chan, NEXT_PID>>
hart == <<cpu, cproc, on, si, sepc>>
locks == <<plock, klock>>
io == <<avail, rx>>
vars == <<table, frame, hart, locks, io, waited, fault>>

Frame == [pc : Points, intena : BOOLEAN, back : Points,
          lock : {"none", "WAIT_LOCK", "console"},
          status : {"null", "ok", "bad"}]

NoFrame == [pc |-> "none", intena |-> FALSE, back |-> "none",
            lock |-> "none", status |-> "null"]

pc(p) == frame[p].pc

\* The hart runs process p, whose kernel code stands at point at.
At(p, at) == fault = "none" /\ on = p /\ pc(p) = at

check(ok) == fault' = IF ok THEN "none" ELSE "panic"

-----------------------------------------------------------------------------
(* proc::wakeup: the sleepers on ch become Runnable.  st is the state field. *)
wakeup(ch, st) ==
    [p \in Procs |-> IF st[p] = "Sleeping" /\ chan[p] = ch
                     THEN "Runnable" ELSE st[p]]

\* wakeup acquires every p.lock in turn, and panics if the hart holds one.
wakeup_ok == plock = {}

(* proc::sched, called by p with interrupt state c, p.lock being the only    *)
(* lock held: save intena and the context, whose locals are fr, and switch   *)
(* to the scheduler.                                                         *)
sched(p, fr, c) ==
    /\ cpu' = c
    /\ frame' = [frame EXCEPT ![p] = [fr EXCEPT !.intena = c.intena]]
    /\ on' = Null

sched_ok(p, c) == cproc = p /\ state'[p] # "Running" /\ ~c.sie /\ c.noff = 1

(* The return of sched in p: intena is p's own again.                        *)
\* Wrong: intena is left as another context has set it.
resume_no_restore(p) == cpu

resume(p) == [cpu EXCEPT !.intena = frame[p].intena]

(* proc::yield_cpu up to sched.                                              *)
\* Wrong: the state is not set back to Runnable.
yield_cpu_running(p, fr, c) ==
    /\ state' = state
    /\ plock' = plock \cup {p}
    /\ sched(p, fr, push_off(c))
    /\ check(p \notin plock)

yield_cpu(p, fr, c) ==
    /\ state' = [state EXCEPT ![p] = "Runnable"]
    /\ plock' = plock \cup {p}
    /\ sched(p, fr, push_off(c))
    /\ check(p \notin plock /\ sched_ok(p, push_off(c)))

(* proc::sleep up to sched: c is the interrupt state with lk held.           *)
sleep(p, ch, lk, ptr, c) ==
    LET c1 == pop_off(push_off(c))  \* p.lock acquired, lk released
    IN  /\ state' = [state EXCEPT ![p] = "Sleeping"]
        /\ chan' = [chan EXCEPT ![p] = ch]
        /\ plock' = plock \cup {p}
        /\ klock' = klock \ {lk}
        /\ sched(p, [NoFrame EXCEPT !.pc = "sleep", !.lock = lk, !.status = ptr], c1)
        /\ check(p \notin plock /\ lk \notin klock /\ sched_ok(p, c1))
-----------------------------------------------------------------------------
(* The scheduler.                                                            *)

\* Wrong: the idle loop does not turn interrupts on.
SchedulerTop_masked ==
    /\ fault = "none" /\ on = Null /\ si = NPROC + 1
    /\ si' = 1
    /\ UNCHANGED <<table, frame, cpu, cproc, on, sepc, locks, io, waited, fault>>

\* The top of the loop: intr_on, then scan from the first slot.
SchedulerTop ==
    /\ fault = "none" /\ on = Null /\ si = NPROC + 1
    /\ cpu' = intr_on(cpu)
    /\ si' = 1
    /\ UNCHANGED <<table, frame, cproc, on, sepc, locks, io, waited, fault>>

\* A slot that is not Runnable: acquire, look, release.
SchedulerSkip ==
    /\ fault = "none" /\ on = Null /\ cproc = Null /\ si \in Procs
    /\ state[si] # "Runnable"
    /\ cpu' = critical(cpu)
    /\ si' = si + 1
    /\ check(si \notin plock)
    /\ UNCHANGED <<table, frame, cproc, on, sepc, locks, io, waited>>

\* A Runnable slot: acquire and switch to it with p.lock held.
SchedulerRun ==
    /\ fault = "none" /\ on = Null /\ cproc = Null /\ si \in Procs
    /\ state[si] = "Runnable"
    /\ state' = [state EXCEPT ![si] = "Running"]
    /\ plock' = plock \cup {si}
    /\ cpu' = push_off(cpu)
    /\ cproc' = si
    /\ on' = si
    /\ check(si \notin plock)
    /\ UNCHANGED <<pid, parent, xstate, chan, NEXT_PID, frame, si, sepc, klock,
                   io, waited>>

\* Wrong: the scan starts over after every process that ran.
SchedulerReturn_restarts ==
    /\ fault = "none" /\ on = Null /\ cproc # Null /\ si \in Procs
    /\ cproc' = Null
    /\ plock' = plock \ {si}
    /\ cpu' = pop_off(cpu)
    /\ si' = 1
    /\ check(si \in plock /\ pop_off_ok(cpu))
    /\ UNCHANGED <<table, frame, on, sepc, klock, io, waited>>

\* The process has switched back: clear cpu.proc and release its lock.
SchedulerReturn ==
    /\ fault = "none" /\ on = Null /\ cproc # Null /\ si \in Procs
    /\ cproc' = Null
    /\ plock' = plock \ {si}
    /\ cpu' = pop_off(cpu)
    /\ si' = si + 1
    /\ check(si \in plock /\ pop_off_ok(cpu))
    /\ UNCHANGED <<table, frame, on, sepc, klock, io, waited>>

Scheduler == SchedulerTop \/ SchedulerSkip \/ SchedulerRun \/ SchedulerReturn
-----------------------------------------------------------------------------
(* A process that the scheduler has switched to releases its own lock.  Its  *)
(* kernel code goes on at point `next`.                                      *)
release_self(p, c, next) ==
    /\ plock' = plock \ {p}
    /\ cpu' = pop_off(c)
    /\ frame' = [frame EXCEPT ![p].pc = next]
    /\ check(p \in plock /\ pop_off_ok(c))

\* Wrong: forkret goes to user mode with its lock held.
Forkret_locked(p) ==
    /\ At(p, "forkret")
    /\ frame' = [frame EXCEPT ![p].pc = "usertrapret"]
    /\ UNCHANGED <<table, cpu, cproc, on, si, sepc, locks, io, waited, fault>>

\* forkret: the first run of a process.  It returns from no sched, so intena
\* is what the scheduler's acquire has left.
Forkret(p) ==
    /\ At(p, "forkret")
    /\ release_self(p, cpu, "usertrapret")
    /\ UNCHANGED <<table, cproc, on, si, sepc, klock, io, waited>>

\* yield_cpu after sched, below usertrap or below kerneltrap.
YieldReturn(p) ==
    /\ At(p, "yield") \/ At(p, "kyield")
    /\ release_self(p, resume(p), IF pc(p) = "yield" THEN "usertrapret"
                                                     ELSE "kret")
    /\ UNCHANGED <<table, cproc, on, si, sepc, klock, io, waited>>

\* sleep after sched, up to the reacquisition of the caller's lock.
SleepReturn(p) ==
    /\ At(p, "sleep")
    /\ chan' = [chan EXCEPT ![p] = 0]
    /\ release_self(p, resume(p), "slept")
    /\ UNCHANGED <<state, pid, parent, xstate, NEXT_PID, cproc, on, si, sepc,
                   klock, io, waited>>

\* usertrapret and userret: sret to U-mode with SPIE set.
Usertrapret(p) ==
    /\ At(p, "usertrapret")
    /\ check(cpu.noff = 0)
    /\ cpu' = intr_on(intr_off(cpu))
    /\ sepc' = [mode |-> "U", ctx |-> p]
    /\ frame' = [frame EXCEPT ![p].pc = "user"]
    /\ UNCHANGED <<table, cproc, on, si, locks, io, waited>>

\* The end of trap_entry after kerneltrap has yielded: sret goes to sepc in
\* the mode SPP says.  trap_entry and kerneltrap save neither, so they are p's
\* only if no trap was taken since; else execution goes on at an address of
\* another context, and nothing more is said about it.
Kret(p) ==
    /\ At(p, "kret")
    /\ fault' = IF sepc = [mode |-> "S", ctx |-> p] THEN "none" ELSE "wild"
    /\ cpu' = intr_on(cpu)
    /\ frame' = [frame EXCEPT ![p].pc = frame[p].back, ![p].back = "none"]
    /\ UNCHANGED <<table, cproc, on, si, sepc, locks, io, waited>>
-----------------------------------------------------------------------------
(* System calls.  A trap from U-mode clears SIE and records its origin; the  *)
(* call then runs to its end, or to a sleep, and returns by usertrapret.     *)

ecall(p) == At(p, "user") /\ sepc' = [mode |-> "U", ctx |-> p]

to_user(p) ==
    frame' = [frame EXCEPT ![p] = [NoFrame EXCEPT !.pc = "usertrapret"]]

\* The scans of the table go up from the first slot: x is where one that looks
\* for a member of S stops.
first(x, S) == x \in S /\ \A y \in S : x <= y

unused == {p \in Procs : state[p] = "Unused"}
children(p) == {q \in Procs : parent[q] = p}
zombies(p) == {q \in children(p) : state[q] = "Zombie"}

(* proc::fork.  The table is full, memory runs out (allocproc or uvmcopy: a  *)
(* pid is used up and freeproc makes the slot Unused again), or a child is   *)
(* made Runnable with the context of forkret.                                *)
ForkFull(p) ==
    /\ ecall(p) /\ unused = {}
    /\ cpu' = critical(trap(cpu))
    /\ to_user(p)
    /\ check(plock = {})
    /\ UNCHANGED <<table, cproc, on, si, locks, io, waited>>

ForkNoMemory(p) ==
    /\ ecall(p) /\ unused # {} /\ NEXT_PID <= MaxPid
    /\ NEXT_PID' = NEXT_PID + 1
    /\ cpu' = critical(trap(cpu))
    /\ to_user(p)
    /\ check(plock = {})
    /\ UNCHANGED <<state, pid, parent, xstate, chan, cproc, on, si, locks, io,
                   waited>>

Fork(p) ==
    /\ ecall(p) /\ NEXT_PID <= MaxPid
    /\ \E child \in Procs :
        /\ first(child, unused)
        /\ NEXT_PID' = NEXT_PID + 1
        /\ pid' = [pid EXCEPT ![child] = NEXT_PID]
        /\ parent' = [parent EXCEPT ![child] = p]
        /\ xstate' = [xstate EXCEPT ![child] = 0]
        /\ chan' = [chan EXCEPT ![child] = 0]
        /\ state' = [state EXCEPT ![child] = "Runnable"]
        /\ frame' = [frame EXCEPT ![child] = [NoFrame EXCEPT !.pc = "forkret"],
                                  ![p].pc = "usertrapret"]
    /\ cpu' = critical(trap(cpu))
    /\ check(plock = {})
    /\ UNCHANGED <<cproc, on, si, locks, io, waited>>

(* proc::reparent: the children of p become init's, unless p is init.        *)
reparent(p) ==
    [q \in Procs |-> IF p # INITPROC /\ parent[q] = p THEN INITPROC
                                                      ELSE parent[q]]

\* The state field after reparent: init is woken if it got a child.
reparent_wakeup(p) ==
    IF p # INITPROC /\ children(p) # {} THEN wakeup(INITPROC, state) ELSE state

\* Wrong: the parent is not woken.
exit_silent(p) == reparent_wakeup(p)

\* ... and after exit has woken the parent too.
exit_wakeup(p) == wakeup(parent[p], reparent_wakeup(p))

(* proc::exit, with WAIT_LOCK held from reparent until the state is Zombie.  *)
(* The open files are the subject of FileTable.                              *)
Exit(p, code) ==
    LET c1 == push_off(push_off(trap(cpu)))  \* WAIT_LOCK and p.lock
        c2 == pop_off(c1)
    IN  /\ ecall(p)
        /\ parent' = reparent(p)
        /\ state' = [exit_wakeup(p) EXCEPT ![p] = "Zombie"]
        /\ xstate' = [xstate EXCEPT ![p] = code]
        /\ plock' = plock \cup {p}
        /\ sched(p, [NoFrame EXCEPT !.pc = "exit"], c2)
        /\ check(wakeup_ok /\ "WAIT_LOCK" \notin klock /\ sched_ok(p, c2))
        /\ UNCHANGED <<pid, chan, NEXT_PID, cproc, si, klock, io, waited>>

(* proc::wait, one pass of its loop, entered with interrupt state c before   *)
(* WAIT_LOCK.acquire and with status_va = ptr.                               *)
wait_return(p, c, held) ==
    /\ cpu' = c
    /\ klock' = held
    /\ to_user(p)
    /\ check("WAIT_LOCK" \notin klock /\ plock = {})
    /\ UNCHANGED <<NEXT_PID, cproc, on, si, plock, io>>

\* freeproc: the slot of a child is given back.
freeproc(q) ==
    /\ state' = [state EXCEPT ![q] = "Unused"]
    /\ pid' = [pid EXCEPT ![q] = 0]
    /\ parent' = [parent EXCEPT ![q] = Null]
    /\ xstate' = [xstate EXCEPT ![q] = 0]
    /\ chan' = [chan EXCEPT ![q] = 0]

\* Wrong: the exit code is read after freeproc has cleared it.
wait_reap_late(p, ptr, c) ==
    /\ ptr # "bad"
    /\ \E child \in Procs :
        /\ first(child, zombies(p))
        /\ freeproc(child)
        /\ waited' = [by |-> pid[p], pid |-> pid[child], xstate |-> 0]
    /\ wait_return(p, critical(c), klock)

wait_reap(p, ptr, c) ==
    /\ ptr # "bad"
    /\ \E child \in Procs :
        /\ first(child, zombies(p))
        /\ freeproc(child)
        /\ waited' = [by |-> pid[p], pid |-> pid[child], xstate |-> xstate[child]]
    /\ wait_return(p, critical(c), klock)

\* copyout fails: the child stays a zombie.  WAIT_LOCK is not released.
wait_copyout_fails(p, ptr, c) ==
    /\ ptr = "bad" /\ zombies(p) # {}
    /\ wait_return(p, push_off(c), klock \cup {"WAIT_LOCK"})
    /\ UNCHANGED <<state, pid, parent, xstate, chan, waited>>

wait_no_child(p, c) ==
    /\ children(p) = {}
    /\ wait_return(p, critical(c), klock)
    /\ UNCHANGED <<state, pid, parent, xstate, chan, waited>>

wait_sleep(p, ptr, c) ==
    /\ children(p) # {} /\ zombies(p) = {}
    /\ sleep(p, p, "WAIT_LOCK", ptr, push_off(c))
    /\ UNCHANGED <<pid, parent, xstate, NEXT_PID, cproc, si, io, waited>>

wait(p, ptr, c) ==
    \/ wait_reap(p, ptr, c)
    \/ wait_copyout_fails(p, ptr, c)
    \/ wait_no_child(p, c)
    \/ wait_sleep(p, ptr, c)

Wait(p, ptr) == ecall(p) /\ wait(p, ptr, trap(cpu))

WaitAgain(p) ==
    /\ At(p, "slept") /\ frame[p].lock = "WAIT_LOCK"
    /\ wait(p, frame[p].status, cpu)
    /\ UNCHANGED sepc

(* console::read, reduced to its sleep: take the line, or wait for one.      *)
read_return(p, c) ==
    /\ avail
    /\ avail' = FALSE
    /\ cpu' = critical(c)
    /\ to_user(p)
    /\ check("console" \notin klock)
    /\ UNCHANGED <<table, cproc, on, si, locks, rx, waited>>

read_sleep(p, c) ==
    /\ ~avail
    /\ sleep(p, input_chan, "console", "null", push_off(c))
    /\ UNCHANGED <<pid, parent, xstate, NEXT_PID, cproc, si, io, waited>>

read(p, c) == read_return(p, c) \/ read_sleep(p, c)

Read(p) == ecall(p) /\ read(p, trap(cpu))

ReadAgain(p) ==
    /\ At(p, "slept") /\ frame[p].lock = "console"
    /\ read(p, cpu)
    /\ UNCHANGED sepc

Syscall(p) ==
    \/ ForkFull(p) \/ ForkNoMemory(p) \/ Fork(p)
    \/ \E code \in ExitCodes \cup {KILLED} : Exit(p, code)
    \/ \E ptr \in StatusPtrs : Wait(p, ptr)
    \/ Read(p)
-----------------------------------------------------------------------------
(* Interrupts.  In U-mode they are always taken, in S-mode when SIE is set.  *)

\* timer::handle below usertrap.
UserTimer(p) ==
    /\ ecall(p)
    /\ yield_cpu(p, [NoFrame EXCEPT !.pc = "yield"], trap(cpu))
    /\ UNCHANGED <<pid, parent, xstate, chan, NEXT_PID, cproc, si, klock, io, waited>>

\* timer::handle below kerneltrap.  In the scheduler cpu.proc is null and it
\* returns at once, with sepc intact.
KernelTimer(p) ==
    /\ \E at \in {"usertrapret", "kret", "slept"} : At(p, at)
    /\ cpu.sie
    /\ sepc' = [mode |-> "S", ctx |-> p]
    /\ yield_cpu(p, [frame[p] EXCEPT !.pc = "kyield", !.back = pc(p)], trap(cpu))
    /\ UNCHANGED <<pid, parent, xstate, chan, NEXT_PID, cproc, si, klock, io, waited>>

SchedulerTimer ==
    /\ fault = "none" /\ on = Null /\ cpu.sie
    /\ sepc' = [mode |-> "S", ctx |-> Null]
    /\ check(cproc = Null)
    /\ UNCHANGED <<table, frame, cpu, cproc, on, si, locks, io, waited>>

\* plic::handle_external and console::intr: take every byte the UART holds and,
\* once console.lock has been released, wake the readers if one of them entered
\* a line (do_wakeup).
intr ==
    /\ rx # "none"
    /\ rx' = "none"
    /\ avail' = (avail \/ rx = "line")
    /\ state' = IF rx = "line" THEN wakeup(input_chan, state) ELSE state
    /\ check("console" \notin klock /\ (rx = "line" => wakeup_ok))
    /\ UNCHANGED <<pid, parent, xstate, chan, NEXT_PID, cproc, on, si, locks, waited>>

UserExternal(p) == ecall(p) /\ intr /\ cpu' = critical(trap(cpu)) /\ to_user(p)

KernelExternal ==
    /\ fault = "none" /\ cpu.sie
    /\ on # Null => pc(on) \in {"usertrapret", "kret", "slept"}
    /\ sepc' = [mode |-> "S", ctx |-> on]
    /\ intr
    /\ cpu' = [critical(trap(cpu)) EXCEPT !.sie = TRUE]
    /\ UNCHANGED frame

\* The environment: a byte arrives at the UART, one that enters the line or one
\* that only edits it.
Receive ==
    /\ fault = "none"
    /\ \/ rx = "none" /\ rx' \in {"edit", "line"}
       \/ rx = "edit" /\ rx' = "line"
    /\ UNCHANGED <<table, frame, hart, locks, avail, waited, fault>>

\* The panic handler loops forever.
Halted == fault # "none" /\ UNCHANGED vars
-----------------------------------------------------------------------------
\* What the kernel code of p does next when it is not interrupted.
Kernel(p) ==
    \/ Forkret(p) \/ YieldReturn(p) \/ SleepReturn(p)
    \/ WaitAgain(p) \/ ReadAgain(p) \/ Usertrapret(p) \/ Kret(p)

External == KernelExternal \/ \E p \in Procs : UserExternal(p)

Next ==
    \/ Scheduler
    \/ \E p \in Procs : Kernel(p) \/ Syscall(p) \/ UserTimer(p) \/ KernelTimer(p)
    \/ SchedulerTimer \/ External \/ Receive \/ Halted

\* kmain after userinit: init is Runnable in the first slot, interrupts are on
\* and the scheduler starts.
Init ==
    /\ state = [p \in Procs |-> IF p = INITPROC THEN "Runnable" ELSE "Unused"]
    /\ pid = [p \in Procs |-> IF p = INITPROC THEN 1 ELSE 0]
    /\ parent = [p \in Procs |-> Null]
    /\ xstate = [p \in Procs |-> 0]
    /\ chan = [p \in Procs |-> 0]
    /\ NEXT_PID = 2
    /\ frame = [p \in Procs |-> IF p = INITPROC THEN [NoFrame EXCEPT !.pc = "forkret"]
                                                ELSE NoFrame]
    /\ cpu = [noff |-> 0, intena |-> TRUE, sie |-> TRUE]
    /\ cproc = Null /\ on = Null /\ si = NPROC + 1
    /\ sepc = [mode |-> "S", ctx |-> Null]
    /\ plock = {} /\ klock = {}
    /\ avail = FALSE /\ rx = "none"
    /\ waited = [by |-> 0, pid |-> 0, xstate |-> 0]
    /\ fault = "none"

Spec == Init /\ [][Next]_vars

\* The hart never stops executing; a timer interrupt is programmed every
\* 100 ms and stays pending until it is taken, and so does a received byte.
Fairness ==
    /\ WF_vars(Scheduler)
    /\ \A p \in Procs : WF_vars(Kernel(p)) /\ SF_vars(UserTimer(p))
    /\ SF_vars(External)

FairSpec == Spec /\ Fairness
-----------------------------------------------------------------------------
(* Properties.                                                               *)

\* Every variable keeps its type.
TypeOK ==
    /\ state \in [Procs -> States]
    /\ pid \in [Procs -> Nat]
    /\ parent \in [Procs -> 0..NPROC]
    /\ xstate \in [Procs -> Int]
    /\ chan \in [Procs -> 0..NPROC + 1]
    /\ NEXT_PID \in Nat
    /\ frame \in [Procs -> Frame]
    /\ cpu \in CpuState
    /\ cproc \in 0..NPROC /\ on \in 0..NPROC /\ si \in 1..NPROC + 1
    /\ sepc \in TrapFrom
    /\ plock \subseteq Procs /\ klock \subseteq {"WAIT_LOCK", "console"}
    /\ avail \in BOOLEAN /\ rx \in {"none", "edit", "line"}
    /\ waited \in [by : Nat, pid : Nat, xstate : Int]
    /\ fault \in {"none", "panic", "wild"}

\* No assertion of acquire, release, pop_off, sched, wakeup, freeproc or
\* usertrapret ever fails, whatever order processes, traps and switches come in.
NoPanic == fault # "panic"

\* With any status pointers there is one way for an assertion to fail: wait has
\* returned with WAIT_LOCK held after its copyout failed.
OnlyWaitPanics == fault = "panic" => "WAIT_LOCK" \in klock

\* A process is Running exactly when the hart executes its code, so at most one
\* is, and the scheduler never takes a process that is on its own kernel stack.
RunningIsOnHart == \A p \in Procs : state[p] = "Running" <=> on = p

\* Locks, nesting depth and interrupts agree (cpu::push_off): noff counts the
\* locks the hart holds, and no interrupt handler can find one of them held.
LocksMaskInterrupts ==
    /\ fault = "none" => cpu.noff = Cardinality(plock) + Cardinality(klock)
    /\ cpu.sie => plock = {}

\* A process inside a system call is never interrupted: sched restores intena,
\* so no switch to and from other contexts turns SIE on under it.  The only
\* kernel point of a process where SIE may be set is the way out to user mode.
SyscallsNotInterrupted ==
    cpu.sie /\ on # Null => pc(on) \in {"usertrapret", "user"}

\* Every process but init has a parent in the table that is older than itself
\* and has not exited (or is init): a parent pointer never survives the reuse
\* of the slot it points to, and following parents always ends at init.
ParentIsAlive ==
    \A p \in Procs \ {INITPROC} : state[p] # "Unused" =>
        /\ parent[p] \in Procs
        /\ state[parent[p]] # "Unused"
        /\ state[parent[p]] = "Zombie" => parent[p] = INITPROC
        /\ pid[parent[p]] < pid[p]

\* No wakeup is lost: a process asleep in wait has a child and none of its
\* children is a zombie it has not been told of; a process asleep in
\* console::read has no line to read.
NoLostWakeup ==
    \A p \in Procs : state[p] = "Sleeping" =>
        /\ chan[p] = p => children(p) # {} /\ zombies(p) = {}
        /\ chan[p] = input_chan => ~avail

\* What the hart holds, context by context, while nothing has gone wrong: an
\* idle scheduler no lock; the scheduler after a switch back, and a process
\* just switched to, the lock of that process; a process elsewhere none, but
\* for the WAIT_LOCK that wait keeps when copyout fails.
HartHolds ==
    \/ on = Null /\ cproc = Null /\ plock = {} /\ klock = {} /\ cpu.noff = 0
    \/ on = Null /\ si \in Procs /\ cproc = si /\ plock = {si} /\ klock = {} /\ cpu.noff = 1
    \/ /\ on \in Procs /\ cproc = on /\ si = on
       /\ \/ pc(on) \in SwitchedOut /\ plock = {on} /\ klock = {} /\ cpu.noff = 1
          \/ pc(on) \in OnHart /\ plock = {} /\ klock = {} /\ cpu.noff = 0
          \/ /\ pc(on) = "usertrapret" /\ plock = {} /\ klock = {"WAIT_LOCK"}
             /\ cpu.noff = 1 /\ ~cpu.sie /\ "bad" \in StatusPtrs

\* The control invariant of proc.rs, the inductive core of the proofs: states,
\* saved contexts, locks and interrupt flags agree at every step.
Control ==
    /\ \A p \in Procs :
        /\ state[p] = "Running" <=> on = p
        /\ state[p] = "Runnable" => pc(p) \in SwitchedOut
        /\ state[p] = "Sleeping" => pc(p) = "sleep"
        /\ pc(p) \in {"yield", "kyield", "sleep"} => ~frame[p].intena
        /\ pc(p) \in {"kyield", "kret"} => frame[p].back = "usertrapret"
        /\ frame[p].status \in StatusPtrs \cup {"null"}
    /\ cpu.sie => plock = {}
    /\ cpu.sie /\ on # Null => pc(on) \in {"usertrapret", "user"}
    /\ fault = "panic" => "bad" \in StatusPtrs /\ "WAIT_LOCK" \in klock
    /\ fault = "none" => HartHolds

\* What makes ParentIsAlive inductive: init is never reaped and is the oldest
\* process, free slots have no parent, and pids are handed out in order.
Kinship ==
    /\ ParentIsAlive
    /\ state[INITPROC] # "Unused" /\ parent[INITPROC] = Null /\ pid[INITPROC] = 1
    /\ \A p \in Procs :
        /\ pid[p] < NEXT_PID
        /\ state[p] = "Unused" => parent[p] = Null
        /\ p # INITPROC /\ state[p] # "Unused" => pid[p] > 1

\* sret from trap_entry goes back to the code that was interrupted, as
\* docs/decisions.md:244 has it: sepc and sstatus are saved across kerneltrap.
KernelTrapReturns == fault # "wild"

\* Every Runnable process is eventually run: the scheduler starves no slot.
RunnableRuns ==
    \A p \in Procs : state[p] = "Runnable" ~> (state[p] = "Running" \/ fault # "none")

\* A process that waits for input when a byte that enters the line is received
\* eventually runs, even when every process sleeps and only the idle scheduler
\* can be interrupted.
InputWakes ==
    \A p \in Procs :
        rx = "line" /\ state[p] = "Sleeping" /\ chan[p] = input_chan
            ~> (state[p] = "Running" \/ fault # "none")

\* A process blocked in wait that has a zombie child eventually returns to user
\* mode: the wakeup of exit is followed up by the scan.
WaiterReturns ==
    \A p \in Procs :
        pc(p) = "sleep" /\ frame[p].lock = "WAIT_LOCK" /\ zombies(p) # {}
            ~> (pc(p) = "user" \/ fault # "none")

\* The process table implements ProcTree: slots stand for pids, and each call
\* is one step of the tree or none.
Used == {p \in Procs : state[p] # "Unused"}
Zombies == {p \in Procs : state[p] = "Zombie"}

Tree == INSTANCE ProcTree WITH
    Codes <- ExitCodes \cup {KILLED},
    live <- {pid[p] : p \in Used \ Zombies},
    exited <- {<<pid[p], xstate[p]>> : p \in Zombies},
    kin <- {<<pid[p], pid[parent[p]]>> : p \in {q \in Used : parent[q] # Null}},
    lastpid <- NEXT_PID - 1,
    told <- waited

\* fork, exit and wait do what ProcTree promises, atomically, for every
\* interleaving: the right child is reported once, to the right parent, with
\* the code it exited with.
ImplementsTree == Tree!TSpec
=============================================================================
