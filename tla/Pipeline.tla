-------------------------------- MODULE Pipeline --------------------------------
(***************************************************************************)
(* A command line of Stages commands joined by pipes, as eval_stmt of      *)
(* 00shell and of testcode_runner runs it (user/src/bin): for each command *)
(* a pipe and a fork, in the child dup3 and close until stdin and stdout   *)
(* are the pipes, then exec; in the shell close, and a wait for the        *)
(* children at the end.  The two differ in that wait.                      *)
(*                                                                         *)
(* The kernel is external: descriptor tables that fork copies and exit     *)
(* closes, pipes of PipeSize pieces with end of file and SIGPIPE, zombies  *)
(* that waitpid reaps.  pipe, fork and execve may fail.  The programs are  *)
(* external too: the first command writes for as long as it likes, every   *)
(* other one copies its stdin to its stdout until the end of file, and     *)
(* each of them may exit at any time.                                      *)
(***************************************************************************)
EXTENDS Integers, Sequences, FiniteSets, Functions

CONSTANTS
    Stages,     \* the number of commands of the line
    PipeSize,   \* how much fits into a pipe
    Codes,      \* exit codes of programs
    Tty,        \* the terminal, a file
    Closed      \* no file at a descriptor

ASSUME PipelineAssumption ==
    /\ Stages \in Nat \ {0, 1} /\ PipeSize \in Nat \ {0}
    /\ Codes \subseteq 0 .. 255
    /\ Tty # Closed
    /\ \A q \in 1 .. Stages : {<<"read", q>>, <<"write", q>>} \cap {Tty, Closed} = {}

Stage == 1 .. Stages
Job == 0                \* a background job started by an earlier line
Child == Stage \cup {Job}
Shell == Stages + 1
EAGAIN == -11           \* what fork returns when it fails
NoFd == -1              \* None

\* Descriptors 0, 1 and 2, and as many as the shell has open at a time.
Fd == 0 .. 5
terminal == [fd \in Fd |-> IF fd <= 2 THEN Tty ELSE Closed]
nothing == [fd \in Fd |-> Closed]

VARIABLES
    who,           \* the program: "00shell" or "testcode_runner"
    pc,            \* of the shell
    cmd,           \* the command of this turn of the loop, from 1
    prev_read, fds, pids, last_pid, last_status,
    waited,        \* how many times the shell has waited
    result,        \* the variable "?"
    table,         \* table[p]: the descriptors of process p
    child,         \* child[p]: where p is, and its copy of prev_read and fds
    status,        \* status[p]: the wait status of p
    fill,          \* fill[q]: what is in pipe q
    piece,         \* piece[p]: p has read something it has not written yet
    failed         \* a pipe or a fork failed

shellVars == <<cmd, prev_read, fds, pids, last_pid, last_status, waited, result>>
kernelVars == <<fill, piece, status>>
vars == <<who, pc, shellVars, table, child, kernelVars, failed>>

-------------------------------------------------------------------------------
\* Wait statuses: the code in the second byte, the signal in the low 7 bits.
exited(code) == (code % 256) * 256
SIGPIPE == 13

decode_wait_status(st) ==
    IF st % 128 # 0 THEN 128 + (st % 128) ELSE (st \div 256) % 256

\* The two ends of pipe q, and who holds them.
reads(q) == <<"read", q>>
writes(q) == <<"write", q>>
holds(p, end) == end \in Range(table[p])
open_in_any(end) == \E p \in DOMAIN table : holds(p, end)

alive(p) == child[p].pc \notin {"none", "zombie", "reaped"}
last(i) == i = Stages

-------------------------------------------------------------------------------
\* Kernel: the lowest free descriptors.
lowest(t) == CHOOSE fd \in Fd : t[fd] = Closed /\ \A g \in Fd : t[g] = Closed => fd <= g

\* Kernel: p ends with status st.
end_process(p, st) ==
    /\ child' = [child EXCEPT ![p].pc = "zombie"]
    /\ status' = [status EXCEPT ![p] = st]
    /\ table' = [table EXCEPT ![p] = nothing]

Init ==
    /\ who \in {"00shell", "testcode_runner"}
    /\ pc = "pipe" /\ cmd = 1
    /\ prev_read = NoFd /\ fds = <<0, 0>> /\ pids = <<>> /\ last_pid = -1
    /\ last_status = 0 /\ waited = 0 /\ result = 0
    /\ \E job \in {"run", "reaped"} :
        /\ child = [p \in Child |->
                       [pc |-> IF p = Job THEN job ELSE "none", prev_read |-> NoFd, fds |-> <<0, 0>>]]
        /\ table = [p \in Child \cup {Shell} |->
                       IF p = Shell \/ (p = Job /\ job = "run") THEN terminal ELSE nothing]
    /\ status = [p \in Child |-> 0]
    /\ fill = [q \in 1 .. Stages - 1 |-> 0]
    /\ piece = [p \in Stage |-> FALSE]
    /\ failed = FALSE

-------------------------------------------------------------------------------
\* The loop of eval_stmt over the commands

sh_pipe ==
    LET t == table[Shell]
        r == lowest(t)
        w == lowest([t EXCEPT ![r] = reads(cmd)])
    IN  /\ pc = "pipe" /\ ~last(cmd)
        /\ pc' = "fork"
        /\ fds' = <<r, w>>
        /\ table' = [table EXCEPT ![Shell] = [t EXCEPT ![r] = reads(cmd), ![w] = writes(cmd)]]
        /\ UNCHANGED <<who, cmd, prev_read, pids, last_pid, last_status, waited, result,
                       child, kernelVars, failed>>

\* pipe fails: the loop ends.
sh_pipe_fails ==
    /\ pc = "pipe" /\ ~last(cmd)
    /\ pc' = "close_last"
    /\ failed' = TRUE
    /\ UNCHANGED <<who, shellVars, table, child, kernelVars>>

\* The last command needs no pipe.
sh_no_pipe ==
    /\ pc = "pipe" /\ last(cmd)
    /\ pc' = "fork"
    /\ fds' = <<0, 0>>
    /\ UNCHANGED <<who, cmd, prev_read, pids, last_pid, last_status, waited, result,
                   table, child, kernelVars, failed>>

\* What the shell does with the pid.
note_pid(pid) ==
    /\ pids' = Append(pids, pid)
    /\ last_pid' = IF last(cmd) THEN pid ELSE last_pid
    /\ pc' = "close_prev"
    /\ UNCHANGED <<who, cmd, prev_read, fds, last_status, waited, result, kernelVars>>

sh_fork ==
    /\ pc = "fork"
    /\ note_pid(cmd)
    /\ child' = [child EXCEPT ![cmd] =
                    [pc |-> IF prev_read # NoFd THEN "dup_in" ELSE "close_read",
                     prev_read |-> prev_read, fds |-> fds]]
    /\ table' = [table EXCEPT ![cmd] = table[Shell]]
    /\ UNCHANGED failed

sh_fork_fails ==
    /\ pc = "fork"
    /\ note_pid(EAGAIN)
    /\ failed' = TRUE
    /\ UNCHANGED <<child, table>>

\* The shell closes descriptor fd, if there is one.
shell_close(fd) ==
    table' = IF fd = NoFd THEN table ELSE [table EXCEPT ![Shell][fd] = Closed]

\* The read end stays open in the shell.
sh_close_prev_not ==
    /\ pc = "close_prev"
    /\ pc' = "close_write"
    /\ UNCHANGED <<who, shellVars, table, child, kernelVars, failed>>

sh_close_prev ==
    /\ pc = "close_prev"
    /\ shell_close(prev_read)
    /\ pc' = "close_write"
    /\ UNCHANGED <<who, shellVars, child, kernelVars, failed>>

sh_close_write ==
    /\ pc = "close_write"
    /\ shell_close(IF last(cmd) THEN NoFd ELSE fds[2])
    /\ prev_read' = IF last(cmd) THEN NoFd ELSE fds[1]
    /\ cmd' = cmd + 1
    /\ pc' = IF last(cmd) THEN "close_last" ELSE "pipe"
    /\ UNCHANGED <<who, fds, pids, last_pid, last_status, waited, result,
                   child, kernelVars, failed>>

\* After the loop: a read end is left when pipe failed.
sh_close_last ==
    /\ pc = "close_last"
    /\ shell_close(prev_read)
    /\ pc' = "wait"
    /\ UNCHANGED <<who, shellVars, child, kernelVars, failed>>

-------------------------------------------------------------------------------
\* Waiting

\* Kernel: waitpid(pid) reaps the child, fails at once when there is none, and
\* blocks otherwise.  It leaves st where the shell finds it.
reap(p) == child' = [child EXCEPT ![p].pc = "reaped"]

waitpid(pid, st) ==
    \/ /\ pid \in Child /\ child[pid].pc = "zombie"
       /\ st = status[pid]
       /\ reap(pid)
    \/ /\ pid \notin Child
       /\ st = 0
       /\ UNCHANGED child

waitpid_any(st) ==
    \/ \E p \in Child :
        /\ child[p].pc = "zombie"
        /\ st = status[p]
        /\ reap(p)
    \/ /\ \A p \in Child : child[p].pc \in {"none", "reaped"}
       /\ st = 0
       /\ UNCHANGED child

Statuses == {exited(c) : c \in Codes \cup {255}} \cup {SIGPIPE, 0}

\* As wait_for_pids, for any child.
wait_for_any_pid(st) ==
    LET pid == pids[waited + 1]
    IN  /\ waited < Len(pids)
        /\ waitpid_any(st)
        /\ last_status' = IF pid = last_pid THEN st ELSE last_status

\* 00shell waits for the pids it has, in order, and keeps the status of the
\* last command.
wait_for_pids(st) ==
    LET pid == pids[waited + 1]
    IN  /\ waited < Len(pids)
        /\ waitpid(pid, st)
        /\ last_status' = IF pid = last_pid THEN st ELSE last_status

\* testcode_runner waits for any child, once for every command of the line,
\* and keeps the status of the last one it gets.
wait_for_len(st) ==
    /\ waited < Stages
    /\ waitpid_any(st)
    /\ last_status' = st

sh_wait ==
    /\ pc = "wait"
    /\ \E st \in Statuses :
        \/ who = "00shell" /\ wait_for_pids(st)
        \/ who = "testcode_runner" /\ wait_for_len(st)
    /\ waited' = waited + 1
    /\ UNCHANGED <<who, pc, cmd, prev_read, fds, pids, last_pid, result, table,
                   kernelVars, failed>>

\* "?" is set; testcode_runner does not decode the status.
sh_set_status ==
    /\ pc = "wait"
    /\ waited = IF who = "00shell" THEN Len(pids) ELSE Stages
    /\ result' = IF who = "00shell" THEN decode_wait_status(last_status) ELSE last_status
    /\ pc' = "prompt"
    /\ UNCHANGED <<who, cmd, prev_read, fds, pids, last_pid, last_status, waited,
                   table, child, kernelVars, failed>>

-------------------------------------------------------------------------------
\* The child between fork and exec
child_step(p, from, to, t) ==
    /\ child[p].pc = from
    /\ child' = [child EXCEPT ![p].pc = to]
    /\ table' = [table EXCEPT ![p] = t]
    /\ UNCHANGED <<who, pc, shellVars, kernelVars, failed>>

dup3(t, old, new) == [t EXCEPT ![new] = t[old]]
close(t, fd) == [t EXCEPT ![fd] = Closed]

ch_dup_in(p) == child_step(p, "dup_in", "close_in", dup3(table[p], child[p].prev_read, 0))
ch_close_in(p) == child_step(p, "close_in", "close_read", close(table[p], child[p].prev_read))

\* The child keeps the read end of its own pipe.
ch_close_read_not(p) ==
    child_step(p, "close_read", IF last(p) THEN "exec" ELSE "dup_out", table[p])

ch_close_read(p) ==
    child_step(p, "close_read", IF last(p) THEN "exec" ELSE "dup_out",
               IF last(p) THEN table[p] ELSE close(table[p], child[p].fds[1]))

ch_dup_out(p) == child_step(p, "dup_out", "close_write", dup3(table[p], child[p].fds[2], 1))
ch_close_write(p) == child_step(p, "close_write", "exec", close(table[p], child[p].fds[2]))

\* Kernel: p writes a piece to its stdout; it waits while the pipe is full.
write_stdout(p) ==
    \/ table[p][1] = Tty /\ UNCHANGED fill
    \/ \E q \in DOMAIN fill :
         /\ table[p][1] = writes(q) /\ open_in_any(reads(q)) /\ fill[q] < PipeSize
         /\ fill' = [fill EXCEPT ![q] = @ + 1]

\* exec_command: one of the candidates runs, or none is found; then the child
\* says so on its stdout, in two writes, and exits with -1.
ch_exec(p) == child_step(p, "exec", "run", table[p])
ch_exec_fails(p) == child_step(p, "exec", "say_name", table[p])
not_found(p) == child[p].pc \in {"say_name", "say_not_found"}
ch_not_found(p) ==
    /\ not_found(p)
    /\ write_stdout(p)
    /\ child' = [child EXCEPT ![p].pc = IF @ = "say_name" THEN "say_not_found" ELSE "exit"]
    /\ UNCHANGED <<who, pc, shellVars, table, status, piece, failed>>
ch_exit(p) ==
    /\ child[p].pc = "exit"
    /\ end_process(p, exited(-1))
    /\ UNCHANGED <<who, pc, shellVars, fill, piece, failed>>

-------------------------------------------------------------------------------
\* The programs
running(p) == child[p].pc = "run"

\* Stage p reads its stdin.
program_read(p) ==
    /\ running(p) /\ ~piece[p] /\ \E q \in DOMAIN fill :
        /\ table[p][0] = reads(q) /\ fill[q] > 0
        /\ fill' = [fill EXCEPT ![q] = @ - 1]
    /\ piece' = [piece EXCEPT ![p] = TRUE]
    /\ UNCHANGED <<who, pc, shellVars, table, child, status, failed>>

\* Stage p is at the end of its input, and exits.
program_eof(p) ==
    /\ running(p) /\ ~piece[p]
    /\ \E q \in DOMAIN fill :
        table[p][0] = reads(q) /\ fill[q] = 0 /\ ~open_in_any(writes(q))
    /\ \E c \in Codes : end_process(p, exited(c))
    /\ UNCHANGED <<who, pc, shellVars, fill, piece, failed>>

\* Stage p has something to write: what it read, or anything if its stdin is
\* no pipe.
has_output(p) == running(p) /\ (piece[p] \/ table[p][0] = Tty)

program_write(p) ==
    /\ has_output(p)
    /\ write_stdout(p)
    /\ piece' = [piece EXCEPT ![p] = FALSE]
    /\ UNCHANGED <<who, pc, shellVars, table, child, status, failed>>

\* Stage p writes to a pipe that nobody reads.
program_sigpipe(p) ==
    /\ has_output(p) \/ not_found(p)
    /\ \E q \in DOMAIN fill : table[p][1] = writes(q) /\ ~open_in_any(reads(q))
    /\ end_process(p, SIGPIPE)
    /\ UNCHANGED <<who, pc, shellVars, fill, piece, failed>>

\* A stage, or the background job, exits when it likes.
program_exit(p) ==
    /\ running(p)
    /\ \E c \in Codes : end_process(p, exited(c))
    /\ UNCHANGED <<who, pc, shellVars, fill, piece, failed>>

-------------------------------------------------------------------------------
ShellStep ==
    \/ sh_pipe \/ sh_no_pipe \/ sh_fork \/ sh_close_prev
    \/ sh_close_write \/ sh_close_last \/ sh_wait \/ sh_set_status

ChildStep(p) ==
    \/ ch_dup_in(p) \/ ch_close_in(p) \/ ch_close_read(p)
    \/ ch_dup_out(p) \/ ch_close_write(p) \/ ch_exec(p) \/ ch_not_found(p) \/ ch_exit(p)
    \/ program_read(p) \/ program_eof(p) \/ program_write(p) \/ program_sigpipe(p)

Next ==
    \/ ShellStep \/ sh_pipe_fails \/ sh_fork_fails
    \/ \E p \in Stage : ChildStep(p)
    \/ \E p \in Stage : ch_exec_fails(p)
    \/ \E p \in Child : program_exit(p)

\* The kernel runs every process again and again; nothing has to fail, and no
\* program has to exit while it has input or may write.
Fairness ==
    /\ WF_vars(ShellStep)
    /\ \A p \in Stage : WF_vars(ChildStep(p))

Spec == Init /\ [][Next]_vars /\ Fairness

-------------------------------------------------------------------------------
\* A program of the line, and a child that found none to run, has no end of a
\* pipe but its own stdin and stdout, and the shell has none at all once it waits: an end left open anywhere would
\* keep end of file or SIGPIPE from a neighbour.
ends(p) == {e \in Range(table[p]) : e \notin {Closed, Tty}}
OnlyOwnEnds ==
    /\ \A p \in Stage : running(p) \/ not_found(p) =>
        ends(p) = {reads(q) : q \in {p - 1} \cap DOMAIN fill}
                     \cup {writes(q) : q \in {p} \cap DOMAIN fill}
    /\ pc \in {"wait", "prompt"} => table[Shell] = terminal

\* At the prompt of 00shell every stage has been reaped, whichever ended first
\* and whatever the background job did, and if all could be started "?" is what
\* the last command of the line returned.
StatusOfLast ==
    who = "00shell" /\ pc = "prompt" =>
        /\ \A p \in Stage : child[p].pc \in {"none", "reaped"}
        /\ ~failed => result = decode_wait_status(status[Stages])

\* When a command of the line has ended, or could not be started, the others
\* end too and the prompt comes back: those before it by SIGPIPE, those behind
\* it at the end of their input.  testcode_runner waits once for every command,
\* so with one that could not be started it is the background job it waits for.
PipelineEnds ==
    /\ pc = "wait" /\ \E p \in Stage : ~alive(p)
    /\ who = "testcode_runner" => ~failed \/ ~alive(Job)
    ~> pc = "prompt"

-------------------------------------------------------------------------------
\* The inductive invariant behind OnlyOwnEnds and StatusOfLast.

\* A table with stdin and stdout at 0 and 1, the read end of the pipe before
\* stage i at prev, and the ends of its own pipe at r and w.
opened(i, prev, r, w, in, out) ==
    [fd \in Fd |->
        CASE fd = 0 -> in
          [] fd = 1 -> out
          [] fd = 2 -> Tty
          [] fd > 2 -> IF fd = prev THEN reads(i - 1)
                       ELSE IF fd = r THEN reads(i)
                       ELSE IF fd = w THEN writes(i) ELSE Closed]

Spare == 3 .. 5
End == {Tty, Closed} \cup {"read", "write"} \X (1 .. Stages)
std_in(p) == IF p = 1 THEN Tty ELSE reads(p - 1)
std_out(p) == IF last(p) THEN Tty ELSE writes(p)

\* Where the turn of stage i has its descriptors.
in_slot(i, prev) == IF i = 1 THEN prev = NoFd ELSE prev \in Spare
slots(i, prev, f) ==
    /\ in_slot(i, prev)
    /\ IF last(i) THEN f = <<0, 0>>
       ELSE f \in Spare \X Spare /\ f[1] # f[2] /\ prev \notin {f[1], f[2]}

\* What the shell has open at each point of its loop.
ShellTable ==
    LET t == table[Shell] IN
    /\ pc \in {"pipe", "fork", "close_prev", "close_write"} => cmd \in Stage
    /\ pc = "pipe" => /\ in_slot(cmd, prev_read)
                      /\ t = opened(cmd, prev_read, NoFd, NoFd, Tty, Tty)
    /\ pc \in {"fork", "close_prev"} =>
            /\ slots(cmd, prev_read, fds)
            /\ t = opened(cmd, prev_read, fds[1], fds[2], Tty, Tty)
    /\ pc = "close_write" =>
            /\ slots(cmd, prev_read, fds)
            /\ t = opened(cmd, NoFd, fds[1], fds[2], Tty, Tty)
    /\ pc = "close_last" =>
            /\ prev_read \in Spare \cup {NoFd}
            /\ t = opened(cmd, prev_read, NoFd, NoFd, Tty, Tty)
    /\ pc \in {"wait", "prompt"} => t = terminal

\* What stage p has open at each point between fork and exec, and after it.
ChildTable(p) ==
    LET c == child[p]
        t == table[p] IN
    /\ alive(p) => slots(p, c.prev_read, c.fds)
    /\ c.pc = "dup_in" =>
            p # 1 /\ t = opened(p, c.prev_read, c.fds[1], c.fds[2], Tty, Tty)
    /\ c.pc = "close_in" =>
            p # 1 /\ t = opened(p, c.prev_read, c.fds[1], c.fds[2], std_in(p), Tty)
    /\ c.pc = "close_read" => t = opened(p, NoFd, c.fds[1], c.fds[2], std_in(p), Tty)
    /\ c.pc = "dup_out" =>
            ~last(p) /\ t = opened(p, NoFd, NoFd, c.fds[2], std_in(p), Tty)
    /\ c.pc = "close_write" =>
            ~last(p) /\ t = opened(p, NoFd, NoFd, c.fds[2], std_in(p), std_out(p))
    /\ c.pc \in {"exec", "say_name", "say_not_found", "exit", "run"} =>
            t = opened(p, NoFd, NoFd, NoFd, std_in(p), std_out(p))

\* The types the two above leave open.
Types ==
    /\ pc \in {"pipe", "fork", "close_prev", "close_write", "close_last", "wait", "prompt"}
    /\ child \in [Child -> [pc : {"none", "dup_in", "close_in", "close_read", "dup_out",
                                  "close_write", "exec", "say_name", "say_not_found", "exit",
                                  "run", "zombie", "reaped"},
                            prev_read : Fd \cup {NoFd}, fds : Fd \X Fd]]
    /\ table \in [Child \cup {Shell} -> [Fd -> End]]
    /\ status \in [Child -> Int]
    /\ fill \in [1 .. Stages - 1 -> Int]

\* The pids the shell has noted, the children they stand for, and what it has
\* waited for.
Pids ==
    /\ pids \in Seq(Int) /\ Len(pids) <= Stages
    /\ pc \in {"pipe", "fork"} => cmd = Len(pids) + 1
    /\ pc \in {"close_prev", "close_write"} => cmd = Len(pids)
    /\ pc \in {"close_last", "wait", "prompt"} => failed \/ Len(pids) = Stages
    /\ \A i \in 1 .. Len(pids) :
            pids[i] = i \/ (pids[i] = EAGAIN /\ failed /\ child[i].pc = "none")
    /\ \A p \in Stage : p > Len(pids) => child[p].pc = "none"
    /\ Len(pids) = Stages => last_pid = pids[Stages]

Waits ==
    /\ waited \in Nat
    /\ pc \notin {"wait", "prompt"} => waited = 0
    /\ who = "00shell" =>
            /\ waited <= Len(pids)
            /\ \A i \in 1 .. waited : child[i].pc \in {"none", "reaped"}
            /\ ~failed /\ waited = Stages => last_status = status[Stages]
            /\ pc = "prompt" => waited = Len(pids) /\ result = decode_wait_status(last_status)

IndInv ==
    /\ Types
    /\ ShellTable
    /\ \A p \in Stage : ChildTable(p)
    /\ Pids
    /\ Waits
================================================================================
