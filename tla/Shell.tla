------------------------------- MODULE Shell -------------------------------
(***************************************************************************)
(* User land on top of the kernel: init (user/src/bin/init.rs) starts the  *)
(* shell, the shell (sh.rs) runs pipelines, and the commands of a pipeline *)
(* (echo.rs and cat.rs) run beside each other.  A step is one system call. *)
(*                                                                         *)
(* The system calls do what the other modules show of the kernel: ProcTree *)
(* for fork, exit and wait, FileTable for descriptors (an end of a pipe is *)
(* open while some descriptor refers to it), ByteStream for pipes.  Data   *)
(* is counted, not named: the order of bytes is the subject of ByteStream. *)
(*                                                                         *)
(* What a process still has to do is a sequence of calls, its todo list.   *)
(* Messages that the shell and init print go to the console, which never    *)
(* blocks, and are left out.                                               *)
(***************************************************************************)
EXTENDS CommandLine

CONSTANTS NPROC,      \* slots for processes
          NOFILE,     \* descriptors of a process
          NPIPE, PIPESIZE,
          BUF,        \* the size of cat's buffer
          FileLen,    \* the length of every file a command may read
          Programs,   \* the commands found in /bin
          Lines,      \* the lines that may be typed, as sequences of tokens
          MaxNoMemory,\* bound on how often memory runs out
          MaxTyped    \* bound on what is typed to the commands of one job

ASSUME ShellAssumption ==
    /\ {NPROC, NOFILE, NPIPE, PIPESIZE, BUF, FileLen, MaxNoMemory, MaxTyped} \subseteq Nat
    /\ NPROC >= 2 /\ NOFILE > 3 /\ PIPESIZE > 0 /\ BUF > 0

Slots == 1..NPROC
INITPROC == 1
Fds == 0..NOFILE - 1
Pipes == 1..NPIPE

\* What a descriptor refers to.  A file remembers how far it has been read.
Null == [kind |-> "null", n |-> 0]
Console == [kind |-> "console", n |-> 0]
ReadEnd(k) == [kind |-> "read", n |-> k]
WriteEnd(k) == [kind |-> "write", n |-> k]
Input(pos) == [kind |-> "input", n |-> pos]
Output == [kind |-> "output", n |-> 0]

VARIABLES
    proc,      \* by slot: [state, parent, xstate, fds, todo]
    held,      \* by pipe, how many bytes it holds
    sh,        \* the slot of the shell, or 0
    line,      \* the shell's locals: the tokens of the line being parsed,
    job,       \*   the commands of the pipeline being run,
    pipes,     \*   and its pipes, as pairs of descriptors
    nomemory,  \* how often memory has run out
    entered,   \* what the commands of the job have produced, or read from
               \*   the console or a file
    out,       \* what they have written to the console or a file
    clean      \* whether no call of the job has failed

job_vars == <<line, job, pipes, entered, out, clean>>
vars == <<proc, held, sh, nomemory, job_vars>>

Unused == [state |-> "Unused", parent |-> 0, xstate |-> 0,
           fds |-> [fd \in Fds |-> Null], todo |-> <<>>]

todo(p) == proc[p].todo
rest(p) == Tail(todo(p))

\* Process p makes the call c.
calls(p, c) == proc[p].state = "Live" /\ Head(todo(p)).call = c

repeat(n, c) == [i \in 1..n |-> c]

readopen(k) == \E p \in Slots, fd \in Fds : proc[p].fds[fd] = ReadEnd(k)
writeopen(k) == \E p \in Slots, fd \in Fds : proc[p].fds[fd] = WriteEnd(k)

free_fds(p) == {fd \in Fds : proc[p].fds[fd] = Null}
lowest(S) == CHOOSE x \in S : \A y \in S : x <= y
unused == {p \in Slots : proc[p].state = "Unused"}
children(p) == {q \in Slots : proc[q].state # "Unused" /\ proc[q].parent = p}
zombies(p) == {q \in children(p) : proc[q].state = "Zombie"}
-----------------------------------------------------------------------------
(* The calls, with what the code after them needs to know.                   *)
Close(fd) == [call |-> "close", fd |-> fd]
Dup(fd, want) == [call |-> "dup", fd |-> fd, want |-> want]
Open(obj, want) == [call |-> "open", obj |-> obj, want |-> want]
Exec(argv) == [call |-> "exec", argv |-> argv]
Exit(code) == [call |-> "exit", code |-> code]
WriteAll(n) == [call |-> "write", n |-> n]
Copy(fd) == [call |-> "copy", fd |-> fd]
Pipe == [call |-> "pipe"]
Fork(i) == [call |-> "fork", i |-> i]
Wait == [call |-> "wait"]
Prompt == [call |-> "prompt"]
ReadLine == [call |-> "readline"]
Parse == [call |-> "parse"]
ForkShell == [call |-> "forkshell"]
ExecShell == [call |-> "execshell"]
WaitShell(q) == [call |-> "waitshell", q |-> q]

\* Print a message to fd 1, whatever that is, and exit.
fail == <<WriteAll(1), Exit(1)>>

close_pipes(ps) == [i \in 1..2 * Len(ps) |-> Close(ps[(i + 1) \div 2][2 - (i % 2)])]

\* Wrong: the fork that failed is counted as well.
wait_children_extra(n) == repeat(n + 1, Wait)

wait_children(n) == repeat(n, Wait)

\* Wrong: the pipes are left open in the child.
setup_pipeline_fds_open(i, ps) ==
    (IF i > 1 THEN <<Close(0), Dup(ps[i - 1][1], 0)>> ELSE <<>>)
    \o (IF i <= Len(ps) THEN <<Close(1), Dup(ps[i][2], 1)>> ELSE <<>>)

\* The child that runs command i of a pipeline moves its ends to 0 and 1.
setup_pipeline_fds(i, ps) ==
    (IF i > 1 THEN <<Close(0), Dup(ps[i - 1][1], 0)>> ELSE <<>>)
    \o (IF i <= Len(ps) THEN <<Close(1), Dup(ps[i][2], 1)>> ELSE <<>>)
    \o close_pipes(ps)

apply_redirects(cmd) ==
    (IF cmd.input # "" THEN <<Close(0), Open(Input(0), 0)>> ELSE <<>>)
    \o (IF cmd.output # "" THEN <<Close(1), Open(Output, 1)>> ELSE <<>>)

exec_command(cmd) == apply_redirects(cmd) \o <<Exec(cmd.argv)>>

\* What run_pipeline does once n children run and no more are to be started.
after_forks(n) == close_pipes(pipes) \o wait_children(n) \o <<Prompt>>

\* The programs.  echo writes its arguments, separated by blanks, and a
\* newline, piece by piece; cat copies its input, or one file, which it gets at
\* fd, to fd 1.
program(argv, fd) ==
    LET argc == Len(argv)
    IN  CASE argv[1] = "echo" ->
                repeat(IF argc = 1 THEN 1 ELSE 2 * (argc - 1), WriteAll(1)) \o <<Exit(0)>>
          [] argv[1] = "cat" /\ argc = 1 -> <<Copy(0), Exit(0)>>
          [] argv[1] = "cat" /\ argc = 2 -> <<Open(Input(0), fd), Copy(fd), Close(fd), Exit(0)>>
          [] OTHER -> <<Exit(1)>>

\* What a program brings into the job by itself.
produced(argv) == IF argv[1] = "echo" THEN Len(program(argv, 0)) - 1 ELSE 0
-----------------------------------------------------------------------------
(* The system calls of process p.                                            *)

goes_on(p, calls_left) == proc' = [proc EXCEPT ![p].todo = calls_left]

\* A call of the job fails.
fails == clean' = FALSE /\ UNCHANGED <<line, job, pipes, entered, out>>

no_memory == nomemory < MaxNoMemory /\ nomemory' = nomemory + 1

DoClose(p) ==
    /\ calls(p, "close")
    /\ proc' = [proc EXCEPT ![p].fds[Head(todo(p)).fd] = Null, ![p].todo = rest(p)]
    /\ UNCHANGED <<held, sh, nomemory, job_vars>>

\* A descriptor for obj, and what follows if it is the one wanted.
gets_fd(p, obj, want) ==
    LET fd == lowest(free_fds(p))
    IN  proc' = [proc EXCEPT ![p].fds[fd] = obj,
                             ![p].todo = IF fd = want THEN rest(p) ELSE fail]

DoDup(p) ==
    /\ calls(p, "dup")   \* one descriptor at least is free: 0 or 1
    /\ gets_fd(p, proc[p].fds[Head(todo(p)).fd], Head(todo(p)).want)
    /\ UNCHANGED <<held, sh, nomemory, job_vars>>

\* open may fail: the file is not there, or the disk is full.
DoOpen(p) ==
    /\ calls(p, "open")
    /\ \/ /\ free_fds(p) # {}
          /\ gets_fd(p, Head(todo(p)).obj, Head(todo(p)).want)
          /\ UNCHANGED job_vars
       \/ goes_on(p, fail) /\ fails
    /\ UNCHANGED <<held, sh, nomemory>>

\* exec keeps the descriptors; it fails without memory or without the file.
DoExec(p) ==
    /\ calls(p, "exec")
    /\ LET argv == Head(todo(p)).argv
       IN  \/ /\ argv[1] \in Programs
              /\ goes_on(p, program(argv, lowest(free_fds(p))))
              /\ entered' = entered + produced(argv)
              /\ UNCHANGED <<nomemory, line, job, pipes, out, clean>>
           \/ /\ \/ argv[1] \notin Programs /\ UNCHANGED nomemory
                 \/ no_memory
              /\ goes_on(p, fail) /\ fails
    /\ UNCHANGED <<held, sh>>

\* All descriptors are closed and the children become init's.
DoExit(p) ==
    /\ calls(p, "exit")
    /\ proc' = [q \in Slots |->
                  IF q = p
                  THEN [Unused EXCEPT !.state = "Zombie", !.parent = proc[p].parent,
                                      !.xstate = Head(todo(p)).code]
                  ELSE [proc[q] EXCEPT !.parent = IF @ = p /\ p # INITPROC THEN INITPROC ELSE @]]
    /\ sh' = IF p = sh THEN 0 ELSE sh
    /\ UNCHANGED <<held, nomemory, job_vars>>

atmost(a, b) == IF a < b THEN a ELSE b

\* How many of n bytes pipe k has room for.
fits(k, n) == atmost(n, PIPESIZE - held[k])

\* write_all to fd 1.  A pipe takes what fits and makes the writer wait for
\* room; without readers the rest is dropped, and no program cares.
write_pipe(p, k, n) ==
    \/ /\ readopen(k) /\ held[k] < PIPESIZE
       /\ LET m == fits(k, n)
          IN  /\ held' = [held EXCEPT ![k] = @ + m]
              /\ goes_on(p, IF m < n THEN <<WriteAll(n - m)>> \o rest(p) ELSE rest(p))
       /\ UNCHANGED job_vars
    \/ /\ ~readopen(k)
       /\ goes_on(p, rest(p))
       /\ UNCHANGED <<held, job_vars>>

DoWrite(p) ==
    /\ calls(p, "write")
    /\ LET obj == proc[p].fds[1]
           n == Head(todo(p)).n
       IN  \/ obj.kind = "write" /\ write_pipe(p, obj.n, n)
           \/ /\ obj.kind \in {"console", "output"}
              /\ goes_on(p, rest(p))
              /\ out' = out + n
              /\ UNCHANGED <<held, line, job, pipes, entered, clean>>
           \/ /\ obj.kind = "output"   \* the disk is full
              /\ goes_on(p, rest(p)) /\ fails
              /\ UNCHANGED held
           \/ /\ obj.kind = "null"
              /\ goes_on(p, rest(p))
              /\ UNCHANGED <<held, job_vars>>
    /\ UNCHANGED <<sh, nomemory>>

\* Wrong: the end of file is not noticed.
copies_on(p, n) == <<WriteAll(n)>> \o todo(p)

\* One round of cat: n bytes read are to be written, 0 is the end of file.
copies(p, n) == IF n = 0 THEN rest(p) ELSE <<WriteAll(n)>> \o todo(p)

\* Wrong: an empty pipe is taken for the end of file.
may_read_empty(k) == TRUE

\* pipe::read returns when there is something to read or no writer left.
may_read(k) == held[k] > 0 \/ ~writeopen(k)

DoCopy(p) ==
    /\ calls(p, "copy")
    /\ LET fd == Head(todo(p)).fd
           obj == proc[p].fds[fd]
       IN  \/ /\ obj.kind = "read" /\ may_read(obj.n)
              /\ LET n == atmost(BUF, held[obj.n])
                 IN  /\ held' = [held EXCEPT ![obj.n] = @ - n]
                     /\ goes_on(p, copies(p, n))
              /\ UNCHANGED entered
           \/ /\ obj.kind = "input"
              /\ LET n == atmost(BUF, FileLen - obj.n)
                 IN  /\ entered' = entered + n
                     /\ proc' = [proc EXCEPT ![p].fds[fd] = Input(obj.n + n),
                                             ![p].todo = copies(p, n)]
              /\ UNCHANGED held
    /\ UNCHANGED <<sh, nomemory, line, job, pipes, out, clean>>

\* cat reads from the console: what is typed, or end of file (Ctrl-D).
DoCopyTyped(p) ==
    /\ calls(p, "copy") /\ proc[p].fds[Head(todo(p)).fd] = Console
    /\ \E n \in 0..BUF :
        /\ n = 0 \/ entered + n <= MaxTyped
        /\ entered' = entered + n
        /\ goes_on(p, copies(p, n))
    /\ UNCHANGED <<held, sh, nomemory, line, job, pipes, out, clean>>
-----------------------------------------------------------------------------
(* The shell.                                                                *)

\* The top of the loop; the locals of the last job are gone.
DoPrompt(p) ==
    /\ calls(p, "prompt")
    /\ goes_on(p, <<ReadLine>>)
    /\ job' = <<>> /\ pipes' = <<>> /\ entered' = 0 /\ out' = 0 /\ clean' = TRUE
    /\ UNCHANGED <<held, sh, nomemory, line>>

\* End of file, a line longer than the buffer, which discard_line reads to its
\* end and the shell ignores, or a line to run.  The read is of the console,
\* which does not fail: the branch that exits with 1 cannot be reached.
DoReadLine(p) ==
    /\ calls(p, "readline")
    /\ \/ goes_on(p, <<Exit(0)>>) /\ line' = line
       \/ goes_on(p, <<Prompt>>) /\ line' = line
       \/ goes_on(p, <<Parse>>) /\ line' \in Lines
    /\ UNCHANGED <<held, sh, nomemory, job, pipes, entered, out, clean>>

\* What a single command is if the shell runs it itself.
builtin(cmds) ==
    IF cmds # None /\ Len(cmds[1]) = 1 /\ cmds[1][1].argv[1] \in {"cd", "exit"}
    THEN cmds[1][1].argv[1] ELSE ""

\* The line is parsed and the job begun.  One command is run like a pipeline
\* without pipes: run_single makes the same calls.  cd changes nothing here.
\* Without memory for the tokens the panic handler exits.
DoParse(p) ==
    /\ calls(p, "parse")
    /\ line' = <<>>
    /\ \/ /\ line # <<>> /\ no_memory
          /\ goes_on(p, <<Exit(255)>>) /\ UNCHANGED job
       \/ /\ UNCHANGED nomemory
          /\ \E cmds \in {IF line = <<>> THEN None ELSE parse_job(line)} :
              \/ /\ cmds = None \/ builtin(cmds) = "cd"
                 /\ goes_on(p, <<Prompt>>) /\ UNCHANGED job
              \/ /\ builtin(cmds) = "exit"
                 /\ goes_on(p, <<Exit(0)>>) /\ UNCHANGED job
              \/ /\ cmds # None /\ builtin(cmds) = ""
                 /\ goes_on(p, repeat(Len(cmds[1]) - 1, Pipe) \o <<Fork(1)>>)
                 /\ job' = cmds[1]
    /\ UNCHANGED <<held, sh, pipes, entered, out, clean>>

\* Wrong: the pipes made before are forgotten.
after_no_pipe_leaks == <<Prompt>>

\* What run_pipeline does when pipe fails.
after_no_pipe == close_pipes(pipes) \o <<Prompt>>

\* pipe takes two descriptors, or none.
DoPipe(p) ==
    /\ calls(p, "pipe")
    /\ LET idle == {k \in Pipes : ~readopen(k) /\ ~writeopen(k)}
           r == lowest(free_fds(p))
           w == lowest(free_fds(p) \ {r})
           k == lowest(idle)
       IN  IF Cardinality(free_fds(p)) >= 2 /\ idle # {}
           THEN /\ proc' = [proc EXCEPT ![p].fds[r] = ReadEnd(k), ![p].fds[w] = WriteEnd(k),
                                        ![p].todo = rest(p)]
                /\ held' = [held EXCEPT ![k] = 0]   \* pipe::alloc
                /\ pipes' = Append(pipes, <<r, w>>)
                /\ UNCHANGED <<line, job, entered, out, clean>>
           ELSE goes_on(p, after_no_pipe) /\ fails /\ UNCHANGED held
    /\ UNCHANGED <<sh, nomemory>>

\* fork: a child with copies of the descriptors, whose todo list is child;
\* the parent goes on with calls_left.
forks(p, q, child, calls_left) ==
    proc' = [proc EXCEPT ![p].todo = calls_left,
                         ![q] = [Unused EXCEPT !.state = "Live", !.parent = p,
                                               !.fds = proc[p].fds, !.todo = child]]

\* The table is full or memory runs out.
fork_fails == (unused = {} /\ UNCHANGED nomemory) \/ no_memory

\* fork for command i; the commands before it run already.
DoFork(p) ==
    /\ calls(p, "fork")
    /\ LET i == Head(todo(p)).i
       IN  \/ /\ unused # {}
              /\ forks(p, lowest(unused), setup_pipeline_fds(i, pipes) \o exec_command(job[i]),
                       IF i < Len(job) THEN <<Fork(i + 1)>> ELSE after_forks(i))
              /\ UNCHANGED <<nomemory, job_vars>>
           \/ fork_fails /\ goes_on(p, after_forks(i - 1)) /\ fails
    /\ UNCHANGED <<held, sh>>

\* wait blocks while there are children and none is a zombie.
wait_returns(p) == children(p) # {} => zombies(p) # {}

\* What wait may report: a zombie, or 0 if there is no child.
reported(p) == IF children(p) = {} THEN {0} ELSE zombies(p)

reap(p, z, calls_left) ==
    proc' = [q \in Slots |-> IF q = z THEN Unused
                             ELSE IF q = p THEN [proc[p] EXCEPT !.todo = calls_left]
                             ELSE proc[q]]

\* The shell takes a failing wait for the end of the world.
DoWait(p) ==
    /\ calls(p, "wait") /\ wait_returns(p)
    /\ \E z \in reported(p) : reap(p, z, IF z = 0 THEN <<Exit(1)>> ELSE rest(p))
    /\ UNCHANGED <<held, sh, nomemory, job_vars>>
-----------------------------------------------------------------------------
(* init.                                                                     *)

DoForkShell(p) ==
    /\ calls(p, "forkshell")
    /\ \/ /\ unused # {}
          /\ forks(p, lowest(unused), <<ExecShell>>, <<WaitShell(lowest(unused))>>)
          /\ UNCHANGED nomemory
       \/ no_memory /\ goes_on(p, <<Exit(1)>>)
    /\ UNCHANGED <<held, sh, job_vars>>

DoExecShell(p) ==
    /\ calls(p, "execshell")
    /\ \/ goes_on(p, <<Prompt>>) /\ sh' = p /\ UNCHANGED nomemory
       \/ goes_on(p, <<Exit(1)>>) /\ sh' = sh /\ no_memory
    /\ UNCHANGED <<held, job_vars>>

\* Wrong: init goes on waiting when the shell has exited.
after_wait_stays(p, z) == todo(p)

\* A new shell once the shell has exited or wait fails; an orphan's exit is
\* nothing to init.
after_wait(p, z) == IF z \in {0, Head(todo(p)).q} THEN <<ForkShell>> ELSE todo(p)

DoWaitShell(p) ==
    /\ calls(p, "waitshell") /\ wait_returns(p)
    /\ \E z \in reported(p) : reap(p, z, after_wait(p, z))
    /\ UNCHANGED <<held, sh, nomemory, job_vars>>
-----------------------------------------------------------------------------
\* A call that does not wait for what is typed.
Step(p) ==
    \/ DoClose(p) \/ DoDup(p) \/ DoOpen(p) \/ DoExec(p) \/ DoExit(p) \/ DoWrite(p)
    \/ DoCopy(p) \/ DoPrompt(p) \/ DoParse(p) \/ DoPipe(p) \/ DoFork(p) \/ DoWait(p)
    \/ DoForkShell(p) \/ DoExecShell(p) \/ DoWaitShell(p)

\* Without memory for a shell init has exited, and nothing is left to run.
Gone == proc[INITPROC].state = "Zombie" /\ UNCHANGED vars

Next == Gone \/ \E p \in Slots : Step(p) \/ DoReadLine(p) \/ DoCopyTyped(p)

Init ==
    /\ proc = [p \in Slots |->
                 IF p # INITPROC THEN Unused
                 ELSE [Unused EXCEPT !.state = "Live", !.todo = <<ForkShell>>,
                                     !.fds = [fd \in Fds |-> IF fd < 3 THEN Console ELSE Null]]]
    /\ held = [k \in Pipes |-> 0]
    /\ sh = 0 /\ line = <<>> /\ job = <<>> /\ pipes = <<>>
    /\ nomemory = 0 /\ entered = 0 /\ out = 0 /\ clean = TRUE

Spec == Init /\ [][Next]_vars

\* The hart does not idle while a process can go on (Proc's RunnableRuns; wait
\* returns by WaiterReturns, a blocked end of a pipe is woken as Pipe shows).
\* Which process it runs is left open, and nobody has to type.
FairSpec == Spec /\ WF_vars(\E p \in Slots : Step(p))
-----------------------------------------------------------------------------
(* Properties.                                                               *)

AtPrompt == sh # 0 /\ calls(sh, "prompt")

\* Every variable keeps its type.
TypeOK ==
    /\ \A p \in Slots : /\ proc[p].state \in {"Unused", "Live", "Zombie"}
                        /\ proc[p].parent \in 0..NPROC
                        /\ DOMAIN proc[p].fds = Fds
                        /\ proc[p].state = "Live" => todo(p) # <<>>
    /\ held \in [Pipes -> 0..PIPESIZE]
    /\ sh \in 0..NPROC
    /\ nomemory \in 0..MaxNoMemory /\ entered \in Nat /\ out \in Nat /\ clean \in BOOLEAN

\* parse_job accepts exactly the lines of the grammar of docs/decisions.md
\* D0051 and gives each command its arguments and its redirections.
ParserIsGrammar ==
    line # <<>> =>
        \A S \in {slices(line)}, cmds \in {parse_job(line)} :
            /\ Joined(S) = line
            /\ \A i \in DOMAIN S : \A k \in DOMAIN S[i] : S[i][k] # "|"
            /\ IF HasJob(S) THEN cmds # None /\ IsJob(S, cmds[1]) ELSE cmds = None

\* Whenever the shell is back at its prompt, whatever pipe, fork, exec or open
\* failed on the way, it has no child left, no pipe is open and its
\* descriptors are the three it started with.
PromptIsClean ==
    AtPrompt => /\ children(sh) = {}
                /\ \A k \in Pipes : ~readopen(k) /\ ~writeopen(k)
                /\ proc[sh].fds = [fd \in Fds |-> IF fd < 3 THEN Console ELSE Null]

\* A command of a pipeline runs with its ends of the pipes at 0 and 1 and no
\* other: it never keeps open the end whose closing its neighbour waits for (and
\* TypeOK holds).
StagesWired ==
    TypeOK /\ \A p \in Slots : calls(p, "copy") =>
        /\ \A fd \in Fds \ {0, 1} : proc[p].fds[fd].kind \in {"null", "console", "input"}
        /\ proc[p].fds[0].kind \in {"console", "read", "input"}
        /\ proc[p].fds[1].kind \in {"console", "write", "output"}
        /\ proc[p].fds[0].kind = "read" => proc[p].fds[1] # WriteEnd(proc[p].fds[0].n)

\* The shell never gives up: it exits when it is asked to, or for want of
\* memory, but not with "wait failed", as every wait of run_single and of
\* wait_children finds a child.
WaitsFindChildren == sh # 0 /\ calls(sh, "exit") => Head(todo(sh)).code # 1

\* When a pipeline whose later commands are plain cats has ended and no call
\* failed, everything that went in at its head has come out at its end.
PipelineDelivers ==
    AtPrompt /\ clean /\ (\A i \in 2..Len(job) : job[i].argv = <<"cat">>) => out = entered

\* A command waits for what is typed.
WaitsForUser == \E p \in Slots : calls(p, "copy") /\ proc[p].fds[Head(todo(p)).fd] = Console

\* A pipeline always ends, and the shell prompts again: readers see the end of
\* file and writers without readers fail, because every process closes the ends
\* it does not use before it blocks, also when a fork in the middle failed.
PromptReturns == sh # 0 /\ ~calls(sh, "readline") ~> (AtPrompt \/ sh = 0 \/ WaitsForUser)

\* When the shell has exited init starts another one, unless there is no memory
\* even for that.
ShellRespawns == sh = 0 ~> (AtPrompt \/ proc[INITPROC].state = "Zombie")
=============================================================================
