---------------------------- MODULE PipelineProofs ----------------------------
(***************************************************************************)
(* Proofs about Pipeline, for a line of any number of commands: which      *)
(* process has which end of a pipe, and what the shell has waited for.     *)
(***************************************************************************)
EXTENDS Pipeline, SequenceTheorems, TLAPS

\* The processes and the constants.
LEMMA Basics ==
  /\ Stages \in Nat /\ Stages >= 2
  /\ Stage \subseteq Nat \ {0} /\ Stage \subseteq Child /\ Child \subseteq Nat
  /\ Shell \notin Child /\ Shell \in Nat /\ Job \in Child /\ Job \notin Stage
  /\ EAGAIN \notin Child /\ NoFd \notin Fd
  /\ Spare \subseteq Fd
  /\ Tty \in End /\ Closed \in End /\ Tty # Closed
  /\ \A q \in Stage : /\ reads(q) \in End /\ writes(q) \in End
                      /\ reads(q) \notin {Tty, Closed} /\ writes(q) \notin {Tty, Closed}
<1>1. /\ Stages \in Nat /\ Stages >= 2
      /\ Stage \subseteq Nat \ {0} /\ Stage \subseteq Child /\ Child \subseteq Nat
      /\ Shell \notin Child /\ Shell \in Nat /\ Job \in Child /\ Job \notin Stage
      /\ EAGAIN \notin Child /\ NoFd \notin Fd
      /\ Spare \subseteq Fd
  BY PipelineAssumption DEF Stage, Child, Shell, Job, EAGAIN, NoFd, Fd, Spare
<1>2. Tty \in End /\ Closed \in End /\ Tty # Closed
  BY PipelineAssumption DEF End
<1>3. \A q \in Stage : reads(q) \in End /\ writes(q) \in End
  BY DEF End, reads, writes, Stage
<1>4. \A q \in Stage : reads(q) \notin {Tty, Closed} /\ writes(q) \notin {Tty, Closed}
  BY PipelineAssumption DEF reads, writes, Stage
<1>5. QED
  BY <1>1, <1>2, <1>3, <1>4

\* A table, descriptor by descriptor.
LEMMA Opened ==
  ASSUME NEW i, NEW prev, NEW r, NEW w, NEW in, NEW out
  PROVE  LET t == opened(i, prev, r, w, in, out)
         IN  /\ t = [fd \in Fd |-> t[fd]]
             /\ t[0] = in /\ t[1] = out /\ t[2] = Tty
             /\ \A fd \in Spare : t[fd] = IF fd = prev THEN reads(i - 1)
                                          ELSE IF fd = r THEN reads(i)
                                          ELSE IF fd = w THEN writes(i) ELSE Closed
BY DEF opened, Fd, Spare

\* Two tables are equal when their descriptors are.
LEMMA SameTable ==
  ASSUME NEW t, NEW u, t = [fd \in Fd |-> t[fd]], u = [fd \in Fd |-> u[fd]],
         t[0] = u[0], t[1] = u[1], t[2] = u[2], \A fd \in Spare : t[fd] = u[fd]
  PROVE  t = u
<1>1. \A fd \in Fd : fd \in {0, 1, 2} \cup Spare
  BY DEF Fd, Spare
<1>2. \A fd \in Fd : t[fd] = u[fd]
  BY <1>1
<1>3. QED
  BY <1>2

\* close, descriptor by descriptor.
LEMMA CloseTable ==
  ASSUME NEW t, t = [g \in Fd |-> t[g]], NEW fd \in Spare
  PROVE  LET u == close(t, fd)
         IN  /\ u = [g \in Fd |-> u[g]]
             /\ u[0] = t[0] /\ u[1] = t[1] /\ u[2] = t[2]
             /\ \A g \in Spare : u[g] = IF g = fd THEN Closed ELSE t[g]
<1>1. DOMAIN t = Fd
  OBVIOUS
<1>2. close(t, fd) = [g \in Fd |-> IF g = fd THEN Closed ELSE t[g]]
  BY <1>1 DEF close
<1>3. QED
  BY <1>2 DEF Fd, Spare

\* dup3 and close on a table.
LEMMA TableSteps ==
  ASSUME NEW i \in Nat, NEW prev, NEW r, NEW w, NEW in, NEW out
  PROVE  /\ prev \in Spare
              => dup3(opened(i, prev, r, w, in, out), prev, 0)
                   = opened(i, prev, r, w, reads(i - 1), out)
         /\ prev \in Spare /\ prev \notin {r, w}
              => close(opened(i, prev, r, w, in, out), prev) = opened(i, NoFd, r, w, in, out)
         /\ r \in Spare /\ r # w
              => close(opened(i, NoFd, r, w, in, out), r) = opened(i, NoFd, NoFd, w, in, out)
         /\ w \in Spare
              => dup3(opened(i, NoFd, NoFd, w, in, out), w, 1)
                   = opened(i, NoFd, NoFd, w, in, writes(i))
         /\ w \in Spare
              => close(opened(i, NoFd, NoFd, w, in, out), w)
                   = opened(i, NoFd, NoFd, NoFd, in, out)
         /\ r \in Spare /\ w \in Spare /\ r # w
              => close(opened(i, NoFd, r, w, in, out), w) = opened(i + 1, r, NoFd, NoFd, in, out)
         /\ opened(i, prev, 0, 0, in, out) = opened(i, prev, NoFd, NoFd, in, out)
         /\ opened(i, NoFd, NoFd, NoFd, in, out) = opened(i + 1, NoFd, NoFd, NoFd, in, out)
         /\ opened(i, NoFd, NoFd, NoFd, Tty, Tty) = terminal
<1> USE DEF Fd, Spare, NoFd, opened
<1>1. prev \in Spare
        => dup3(opened(i, prev, r, w, in, out), prev, 0)
             = opened(i, prev, r, w, reads(i - 1), out)
  BY DEF dup3
<1>2. prev \in Spare /\ prev \notin {r, w}
        => close(opened(i, prev, r, w, in, out), prev) = opened(i, NoFd, r, w, in, out)
  <2> DEFINE t == opened(i, prev, r, w, in, out)
             u == opened(i, NoFd, r, w, in, out)
  <2> SUFFICES ASSUME prev \in Spare, prev \notin {r, w}
               PROVE  close(t, prev) = u
    OBVIOUS
  <2> HIDE DEF opened, t, u, Fd
  <2>1. \A fd \in Spare : close(t, prev)[fd] = u[fd]
    BY CloseTable, Opened DEF t, u
  <2>2. QED
    BY <2>1, CloseTable, Opened, SameTable DEF t, u
<1>3. r \in Spare /\ r # w
        => close(opened(i, NoFd, r, w, in, out), r) = opened(i, NoFd, NoFd, w, in, out)
  <2> DEFINE t == opened(i, NoFd, r, w, in, out)
             u == opened(i, NoFd, NoFd, w, in, out)
  <2> SUFFICES ASSUME r \in Spare, r # w
               PROVE  close(t, r) = u
    OBVIOUS
  <2> HIDE DEF opened, t, u, Fd
  <2>1. \A fd \in Spare : close(t, r)[fd] = u[fd]
    BY CloseTable, Opened DEF t, u
  <2>2. QED
    BY <2>1, CloseTable, Opened, SameTable DEF t, u
<1>4. w \in Spare
        => dup3(opened(i, NoFd, NoFd, w, in, out), w, 1)
             = opened(i, NoFd, NoFd, w, in, writes(i))
  BY DEF dup3
<1>5. w \in Spare
        => close(opened(i, NoFd, NoFd, w, in, out), w) = opened(i, NoFd, NoFd, NoFd, in, out)
  <2> DEFINE t == opened(i, NoFd, NoFd, w, in, out)
             u == opened(i, NoFd, NoFd, NoFd, in, out)
  <2> SUFFICES ASSUME w \in Spare
               PROVE  close(t, w) = u
    OBVIOUS
  <2> HIDE DEF opened, t, u, Fd
  <2>1. \A fd \in Spare : close(t, w)[fd] = u[fd]
    BY CloseTable, Opened DEF t, u
  <2>2. QED
    BY <2>1, CloseTable, Opened, SameTable DEF t, u
<1>6. r \in Spare /\ w \in Spare /\ r # w
        => close(opened(i, NoFd, r, w, in, out), w) = opened(i + 1, r, NoFd, NoFd, in, out)
  <2>1. (i + 1) - 1 = i
    OBVIOUS
  <2> DEFINE t == opened(i, NoFd, r, w, in, out)
             u == opened(i + 1, r, NoFd, NoFd, in, out)
  <2> SUFFICES ASSUME r \in Spare, w \in Spare, r # w
               PROVE  close(t, w) = u
    OBVIOUS
  <2> HIDE DEF opened, t, u, Fd
  <2>2. \A fd \in Spare : close(t, w)[fd] = u[fd]
    BY <2>1, CloseTable, Opened DEF t, u
  <2>3. QED
    BY <2>2, CloseTable, Opened, SameTable DEF t, u
<1>7. opened(i, prev, 0, 0, in, out) = opened(i, prev, NoFd, NoFd, in, out)
  OBVIOUS
<1>8. opened(i, NoFd, NoFd, NoFd, in, out) = opened(i + 1, NoFd, NoFd, NoFd, in, out)
  OBVIOUS
<1>9. opened(i, NoFd, NoFd, NoFd, Tty, Tty) = terminal
  BY DEF terminal
<1>10. QED
  BY <1>1, <1>2, <1>3, <1>4, <1>5, <1>6, <1>7, <1>8, <1>9

-------------------------------------------------------------------------------
\* What a step has to leave alone for each part of the invariant.
LEMMA KeepsChildren ==
  ASSUME \A p \in Stage : ChildTable(p), child' = child,
         \A p \in Stage : table'[p] = table[p]
  PROVE  \A p \in Stage : ChildTable(p)'
BY DEF ChildTable, alive

\* The same for the table of the shell,
LEMMA KeepsShell ==
  ASSUME ShellTable, UNCHANGED <<pc, cmd, prev_read, fds>>, table'[Shell] = table[Shell]
  PROVE  ShellTable'
BY DEF ShellTable

\* for the pids it remembers,
LEMMA KeepsPids ==
  ASSUME Pids, UNCHANGED <<pc, cmd, pids, last_pid, failed>>,
         \A p \in Stage : child[p].pc = "none" => child'[p].pc = "none"
  PROVE  Pids'
<1>1. \A i \in 1 .. Len(pids) : i \in Stage
  BY Basics DEF Pids, Stage
<1>2. QED
  BY <1>1 DEF Pids

\* and for what it has waited for.
LEMMA KeepsWaits ==
  ASSUME Waits, Pids, UNCHANGED <<who, pc, pids, last_status, waited, result, failed>>,
         \A p \in Stage : child[p].pc \in {"none", "reaped"} =>
             child'[p].pc \in {"none", "reaped"} /\ status'[p] = status[p]
  PROVE  Waits'
<1>1. who = "00shell" => \A i \in 1 .. waited : i \in Stage
  BY Basics DEF Pids, Waits, Stage
<1>2. Stages \in Stage /\ (waited = Stages => Stages \in 1 .. waited)
  BY Basics DEF Stage
<1>3. QED
  BY <1>1, <1>2 DEF Waits

\* The initial states.
LEMMA InitIndInv == Init => IndInv
<1> SUFFICES ASSUME Init PROVE IndInv
  OBVIOUS
<1>1. PICK job \in {"run", "reaped"} :
        /\ child = [p \in Child |->
                      [pc |-> IF p = Job THEN job ELSE "none", prev_read |-> NoFd, fds |-> <<0, 0>>]]
        /\ table = [p \in Child \cup {Shell} |->
                      IF p = Shell \/ (p = Job /\ job = "run") THEN terminal ELSE nothing]
  BY DEF Init
<1>2. terminal \in [Fd -> End] /\ nothing \in [Fd -> End]
  BY Basics DEF terminal, nothing
<1>3. Types
  BY <1>1, <1>2, Basics DEF Init, Types, Fd
<1>4. table[Shell] = opened(1, NoFd, NoFd, NoFd, Tty, Tty)
  BY <1>1, TableSteps
<1>5. ShellTable
  BY <1>4, Basics DEF Init, ShellTable, Stage, in_slot
<1>6. \A p \in Stage : child[p].pc = "none"
  BY <1>1, Basics
<1>7. \A p \in Stage : ChildTable(p)
  BY <1>6 DEF ChildTable, alive
<1>8. pids \in Seq(Int) /\ Len(pids) = 0
  BY EmptySeq DEF Init
<1>9. Pids
  BY <1>6, <1>8, Basics DEF Init, Pids
<1>10. Waits
  BY <1>8, Basics DEF Init, Waits
<1>11. QED
  BY <1>3, <1>5, <1>7, <1>9, <1>10 DEF IndInv

\* Table t is what stage p has to have open when it comes to "to".
Ready(p, to, t) ==
  LET r == child[p].fds[1]
      w == child[p].fds[2] IN
  /\ slots(p, child[p].prev_read, child[p].fds)
  /\ \/ /\ p # 1 /\ to = "close_in"
        /\ t = opened(p, child[p].prev_read, r, w, std_in(p), Tty)
     \/ to = "close_read" /\ t = opened(p, NoFd, r, w, std_in(p), Tty)
     \/ ~last(p) /\ to = "dup_out" /\ t = opened(p, NoFd, NoFd, w, std_in(p), Tty)
     \/ ~last(p) /\ to = "close_write" /\ t = opened(p, NoFd, NoFd, w, std_in(p), std_out(p))
     \/ to \in {"exec", "say_name", "run"} /\ t = opened(p, NoFd, NoFd, NoFd, std_in(p), std_out(p))

\* A step of stage p between fork and exec.
LEMMA ChildStepIndInv ==
  ASSUME IndInv, NEW p \in Stage, NEW from, NEW to, NEW t \in [Fd -> End],
         from \notin {"none", "reaped"}, child_step(p, from, to, t), Ready(p, to, t)
  PROVE  IndInv'
<1> USE DEF IndInv
<1>1. /\ child' = [child EXCEPT ![p].pc = to] /\ child[p].pc = from
      /\ table' = [table EXCEPT ![p] = t]
      /\ p \in Child /\ p # Shell
      /\ UNCHANGED <<who, pc, shellVars, kernelVars, failed>>
  BY Basics DEF child_step
<1>2. /\ child'[p].pc = to /\ child'[p].prev_read = child[p].prev_read
      /\ child'[p].fds = child[p].fds
      /\ \A r \in Child : r # p => child'[r] = child[r]
      /\ table'[p] = t
      /\ \A r \in Child \cup {Shell} : r # p => table'[r] = table[r]
  BY <1>1 DEF Types
<1>3. Types'
  <2>1. to \in {"close_in", "close_read", "dup_out", "close_write", "exec", "say_name", "run"}
    BY DEF Ready
  <2>2. QED
    BY <1>1, <2>1, ZenonT(40) DEF Types, kernelVars
<1>4. ShellTable'
  BY <1>1, <1>2, KeepsShell DEF shellVars
<1>5. \A r \in Stage : ChildTable(r)'
  <2>1. ChildTable(p)'
    BY <1>2 DEF ChildTable, alive, Ready
  <2>2. ASSUME NEW r \in Stage, r # p PROVE ChildTable(r)'
    <3>1. child'[r] = child[r] /\ table'[r] = table[r]
      BY <1>2, <2>2, Basics
    <3>2. QED
      BY <3>1 DEF ChildTable, alive
  <2>3. QED
    BY <2>1, <2>2
<1>6. \A r \in Stage : child[r].pc \in {"none", "reaped"} => child'[r] = child[r]
  BY <1>1, <1>2, Basics
<1>7. Pids' /\ Waits'
  BY <1>1, <1>6, KeepsPids, KeepsWaits DEF shellVars, kernelVars
<1>8. QED
  BY <1>3, <1>4, <1>5, <1>7

\* dup3 and close bring the child from its shell's table to its own ends.
LEMMA ChildrenIndInv ==
  ASSUME IndInv, NEW p \in Stage,
         \/ ch_dup_in(p) \/ ch_close_in(p) \/ ch_close_read(p)
         \/ ch_dup_out(p) \/ ch_close_write(p) \/ ch_exec(p) \/ ch_exec_fails(p)
  PROVE  IndInv'
<1> DEFINE c == child[p]
           pr == c.prev_read
           r == c.fds[1]
           w == c.fds[2]
<1>1. /\ p \in Child /\ p \in Nat /\ p # 0
      /\ table[p] \in [Fd -> End] /\ pr \in Fd \cup {NoFd} /\ r \in Fd /\ w \in Fd
      /\ ChildTable(p)
  BY Basics DEF IndInv, Types
<1>2. alive(p)
  BY DEF ch_dup_in, ch_close_in, ch_close_read, ch_dup_out, ch_close_write, ch_exec,
         ch_exec_fails, child_step, alive
<1>3. slots(p, pr, c.fds)
  BY <1>1, <1>2 DEF ChildTable
<1>4. /\ p # 1 => pr \in Spare
      /\ ~last(p) => r \in Spare /\ w \in Spare /\ r # w /\ pr \notin {r, w}
      /\ last(p) => r = 0 /\ w = 0
  BY <1>3 DEF slots, in_slot
<1>5. \A t \in [Fd -> End], a, b \in Fd : dup3(t, a, b) \in [Fd -> End] /\ close(t, a) \in [Fd -> End]
  BY Basics DEF dup3, close
<1>6. CASE ch_dup_in(p)
  <2>1. /\ c.pc = "dup_in" /\ p # 1
        /\ table[p] = opened(p, pr, r, w, Tty, Tty)
    BY <1>1, <1>6 DEF ch_dup_in, child_step, ChildTable
  <2>2. dup3(table[p], pr, 0) = opened(p, pr, r, w, std_in(p), Tty)
    BY <1>1, <1>4, <2>1, TableSteps DEF std_in
  <2>3. dup3(table[p], pr, 0) \in [Fd -> End]
    <3>1. pr \in Fd /\ 0 \in Fd
      BY <1>4, <2>1 DEF Fd, Spare
    <3>2. QED
      BY <1>1, <1>5, <3>1
  <2>4. QED
    BY <1>3, <1>6, <2>1, <2>2, <2>3, ChildStepIndInv DEF ch_dup_in, Ready
<1>7. CASE ch_close_in(p)
  <2>1. /\ c.pc = "close_in" /\ p # 1
        /\ table[p] = opened(p, pr, r, w, std_in(p), Tty)
    BY <1>1, <1>7 DEF ch_close_in, child_step, ChildTable
  <2>2. pr \in Spare /\ pr \notin {r, w}
    BY <1>4, <2>1 DEF Spare
  <2>3. close(table[p], pr) = opened(p, NoFd, r, w, std_in(p), Tty)
    BY <1>1, <2>1, <2>2, TableSteps
  <2>4. close(table[p], pr) \in [Fd -> End]
    BY <1>1, <1>5, <2>2, Basics
  <2>5. QED
    BY <1>3, <1>7, <2>1, <2>3, <2>4, ChildStepIndInv DEF ch_close_in, Ready
<1>8. CASE ch_close_read(p)
  <2>1. /\ c.pc = "close_read"
        /\ table[p] = opened(p, NoFd, r, w, std_in(p), Tty)
    BY <1>1, <1>8 DEF ch_close_read, child_step, ChildTable
  <2>2. CASE last(p)
    <3>1. table[p] = opened(p, NoFd, NoFd, NoFd, std_in(p), std_out(p))
      BY <1>1, <1>4, <2>1, <2>2, TableSteps DEF std_out
    <3>2. child_step(p, "close_read", "exec", table[p])
      BY <1>8, <2>2 DEF ch_close_read
    <3>3. Ready(p, "exec", table[p])
      BY <1>3, <3>1 DEF Ready
    <3>4. QED
      BY <1>1, <3>2, <3>3, ChildStepIndInv
  <2>3. CASE ~last(p)
    <3>1. close(table[p], r) = opened(p, NoFd, NoFd, w, std_in(p), Tty)
      BY <1>1, <1>4, <2>1, <2>3, TableSteps
    <3>2. close(table[p], r) \in [Fd -> End]
      BY <1>1, <1>5
    <3>3. child_step(p, "close_read", "dup_out", close(table[p], r))
      BY <1>8, <2>3 DEF ch_close_read
    <3>4. Ready(p, "dup_out", close(table[p], r))
      BY <1>3, <2>3, <3>1 DEF Ready
    <3>5. QED
      BY <3>2, <3>3, <3>4, ChildStepIndInv
  <2>4. QED
    BY <2>2, <2>3
<1>9. CASE ch_dup_out(p)
  <2>1. /\ c.pc = "dup_out" /\ ~last(p)
        /\ table[p] = opened(p, NoFd, NoFd, w, std_in(p), Tty)
    BY <1>1, <1>9 DEF ch_dup_out, child_step, ChildTable
  <2>2. dup3(table[p], w, 1) = opened(p, NoFd, NoFd, w, std_in(p), std_out(p))
    BY <1>1, <1>4, <2>1, TableSteps DEF std_out
  <2>3. dup3(table[p], w, 1) \in [Fd -> End]
    BY <1>1, <1>5 DEF Fd
  <2>4. QED
    BY <1>3, <1>9, <2>1, <2>2, <2>3, ChildStepIndInv DEF ch_dup_out, Ready
<1>10. CASE ch_close_write(p)
  <2>1. /\ c.pc = "close_write" /\ ~last(p)
        /\ table[p] = opened(p, NoFd, NoFd, w, std_in(p), std_out(p))
    BY <1>1, <1>10 DEF ch_close_write, child_step, ChildTable
  <2>2. close(table[p], w) = opened(p, NoFd, NoFd, NoFd, std_in(p), std_out(p))
    BY <1>1, <1>4, <2>1, TableSteps
  <2>3. close(table[p], w) \in [Fd -> End]
    BY <1>1, <1>5
  <2>4. QED
    BY <1>3, <1>10, <2>1, <2>2, <2>3, ChildStepIndInv DEF ch_close_write, Ready
<1>11. CASE ch_exec(p) \/ ch_exec_fails(p)
  <2>1. table[p] = opened(p, NoFd, NoFd, NoFd, std_in(p), std_out(p))
    BY <1>1, <1>11 DEF ch_exec, ch_exec_fails, child_step, ChildTable
  <2>2. CASE ch_exec(p)
    BY <1>1, <1>3, <2>1, <2>2, ChildStepIndInv DEF ch_exec, Ready
  <2>3. CASE ch_exec_fails(p)
    BY <1>1, <1>3, <2>1, <2>3, ChildStepIndInv DEF ch_exec_fails, Ready
  <2>4. QED
    BY <1>11, <2>2, <2>3
<1>12. QED
  BY <1>6, <1>7, <1>8, <1>9, <1>10, <1>11

\* A program that ends is a zombie with no descriptor.
LEMMA EndIndInv ==
  ASSUME IndInv, NEW p \in Child, NEW st \in Int, child[p].pc \notin {"none", "reaped"},
         end_process(p, st), UNCHANGED <<who, pc, shellVars, fill, failed>>
  PROVE  IndInv'
<1> USE DEF IndInv
<1>1. nothing \in [Fd -> End] /\ p # Shell
  BY Basics DEF nothing
<1>2. Types'
  BY <1>1, ZenonT(40) DEF Types, end_process
<1>3. /\ child'[p].pc = "zombie"
      /\ \A r \in Child : r # p => child'[r] = child[r] /\ status'[r] = status[r]
      /\ \A r \in Child \cup {Shell} : r # p => table'[r] = table[r]
  BY DEF Types, end_process
<1>4. ShellTable'
  BY <1>1, <1>3, KeepsShell DEF shellVars
<1>5. ASSUME NEW r \in Stage PROVE ChildTable(r)'
  <2>1. CASE r = p
    BY <1>3, <2>1 DEF ChildTable, alive
  <2>2. CASE r # p
    <3>1. child'[r] = child[r] /\ table'[r] = table[r]
      BY <1>3, <2>2, Basics
    <3>2. QED
      BY <3>1 DEF ChildTable, alive
  <2>3. QED
    BY <2>1, <2>2
<1>6. \A r \in Stage : child[r].pc \in {"none", "reaped"} =>
                          child'[r] = child[r] /\ status'[r] = status[r]
  BY <1>3, Basics
<1>7. Pids' /\ Waits'
  BY <1>6, KeepsPids, KeepsWaits DEF shellVars
<1>8. QED
  BY <1>2, <1>4, <1>5, <1>7

\* A child that found no program writes its message.
LEMMA NotFoundIndInv ==
  ASSUME IndInv, NEW p \in Stage, ch_not_found(p)
  PROVE  IndInv'
<1> USE DEF IndInv
<1>1. PICK to \in {"say_not_found", "exit"} : child' = [child EXCEPT ![p].pc = to]
  <2>1. CASE child[p].pc = "say_name"
    BY <2>1 DEF ch_not_found
  <2>2. CASE child[p].pc # "say_name"
    BY <2>2 DEF ch_not_found
  <2>3. QED
    BY <2>1, <2>2
<1>2. /\ UNCHANGED <<who, pc, shellVars, table, status, failed>>
      /\ child[p].pc \in {"say_name", "say_not_found"} /\ p \in Child /\ p # Shell
  BY Basics DEF ch_not_found, not_found
<1>3. /\ child'[p].pc = to /\ child'[p].prev_read = child[p].prev_read
      /\ child'[p].fds = child[p].fds
      /\ \A r \in Child : r # p => child'[r] = child[r]
  BY <1>1, <1>2 DEF Types
<1>4. fill' \in [1 .. Stages - 1 -> Int]
  BY DEF ch_not_found, write_stdout, Types
<1>5. Types'
  BY <1>1, <1>2, <1>4, ZenonT(40) DEF Types
<1>6. ShellTable'
  BY <1>2, KeepsShell DEF shellVars
<1>7. ASSUME NEW r \in Stage PROVE ChildTable(r)'
  <2>1. CASE r = p
    <3>1. table[p] = opened(p, NoFd, NoFd, NoFd, std_in(p), std_out(p))
          /\ slots(p, child[p].prev_read, child[p].fds)
      BY <1>2 DEF ChildTable, alive
    <3>2. QED
      BY <1>2, <1>3, <2>1, <3>1 DEF ChildTable
  <2>2. CASE r # p
    <3>1. child'[r] = child[r] /\ table'[r] = table[r]
      BY <1>2, <1>3, <2>2, Basics
    <3>2. QED
      BY <3>1 DEF ChildTable, alive
  <2>3. QED
    BY <2>1, <2>2
<1>8. \A r \in Stage : child[r].pc \in {"none", "reaped"} =>
                          child'[r] = child[r] /\ status'[r] = status[r]
  BY <1>2, <1>3, Basics
<1>9. Pids' /\ Waits'
  BY <1>2, <1>8, KeepsPids, KeepsWaits DEF shellVars
<1>10. QED
  BY <1>5, <1>6, <1>7, <1>9

\* The programs: reading and writing moves pieces, ending leaves a zombie.
LEMMA ProgramIndInv ==
  ASSUME IndInv,
         \/ \E p \in Stage : \/ program_read(p) \/ program_write(p)
                             \/ program_eof(p) \/ program_sigpipe(p) \/ ch_exit(p)
         \/ \E p \in Child : program_exit(p)
  PROVE  IndInv'
<1>1. SIGPIPE \in Int /\ exited(-1) \in Int /\ \A c \in Codes : exited(c) \in Int
  BY PipelineAssumption DEF SIGPIPE, exited
<1>2. ASSUME NEW p \in Stage, program_read(p) \/ program_write(p)
      PROVE  IndInv'
  <2>1. fill' \in [1 .. Stages - 1 -> Int]
    BY <1>2 DEF program_read, program_write, write_stdout, IndInv, Types
  <2>2. UNCHANGED <<who, pc, shellVars, table, child, status, failed>>
    BY <1>2 DEF program_read, program_write
  <2>3. Types' /\ ShellTable' /\ \A r \in Stage : ChildTable(r)'
    BY <2>1, <2>2, KeepsShell, KeepsChildren DEF IndInv, Types, shellVars
  <2>4. Pids' /\ Waits'
    BY <2>2, KeepsPids, KeepsWaits DEF IndInv, shellVars
  <2>5. QED
    BY <2>3, <2>4 DEF IndInv
<1>3. ASSUME NEW p \in Stage, program_eof(p) \/ program_sigpipe(p) \/ ch_exit(p)
      PROVE  IndInv'
  <2>1. p \in Child /\ child[p].pc \notin {"none", "reaped"}
    BY <1>3, Basics
    DEF program_eof, program_sigpipe, ch_exit, running, has_output, not_found
  <2>2. \E st \in Int : end_process(p, st)
    BY <1>1, <1>3 DEF program_eof, program_sigpipe, ch_exit
  <2>3. UNCHANGED <<who, pc, shellVars, fill, failed>>
    BY <1>3 DEF program_eof, program_sigpipe, ch_exit
  <2>4. QED
    BY <2>1, <2>2, <2>3, EndIndInv
<1>4. ASSUME NEW p \in Child, program_exit(p)
      PROVE  IndInv'
  <2>1. child[p].pc \notin {"none", "reaped"} /\ UNCHANGED <<who, pc, shellVars, fill, failed>>
    BY <1>4 DEF program_exit, running
  <2>2. \E st \in Int : end_process(p, st)
    BY <1>1, <1>4 DEF program_exit
  <2>3. QED
    BY <2>1, <2>2, EndIndInv
<1>5. QED
  BY <1>2, <1>3, <1>4

\* pipe takes two free descriptors for the two ends.
LEMMA PipeIndInv ==
  ASSUME IndInv, sh_pipe
  PROVE  IndInv'
<1> USE DEF IndInv
<1> DEFINE t == table[Shell]
           r == lowest(t)
           u == [t EXCEPT ![r] = reads(cmd)]
           w == lowest(u)
<1>1. /\ cmd \in Stage /\ cmd \in Nat /\ ~last(cmd) /\ in_slot(cmd, prev_read) /\ pc = "pipe"
      /\ t = opened(cmd, prev_read, NoFd, NoFd, Tty, Tty)
      /\ t \in [Fd -> End]
  BY Basics DEF sh_pipe, ShellTable, Types
<1>2. /\ reads(cmd) \in End /\ writes(cmd) \in End /\ reads(cmd) # Closed /\ Tty # Closed
      /\ prev_read \in Spare => reads(cmd - 1) # Closed
  <2>1. prev_read \in Spare => cmd - 1 \in Stage
    BY <1>1, Basics DEF in_slot, Spare, NoFd, Stage
  <2>2. QED
    BY <1>1, <2>1, Basics
<1>3. /\ t[0] = Tty /\ t[1] = Tty /\ t[2] = Tty
      /\ \A fd \in Spare : t[fd] = IF fd = prev_read THEN reads(cmd - 1) ELSE Closed
  BY <1>1, Opened DEF NoFd, Spare
<1>4. r \in Spare /\ r # prev_read
  <2>1. \E fd \in Fd : t[fd] = Closed /\ \A g \in Fd : t[g] = Closed => fd <= g
    <3>1. CASE prev_read = 3
      <4>1. t[4] = Closed /\ \A g \in Fd : t[g] = Closed => 4 <= g
        BY <1>2, <1>3, <3>1 DEF Fd, Spare
      <4>2. QED
        BY <4>1 DEF Fd
    <3>2. CASE prev_read # 3
      <4>1. t[3] = Closed /\ \A g \in Fd : t[g] = Closed => 3 <= g
        BY <1>2, <1>3, <3>2 DEF Fd, Spare
      <4>2. QED
        BY <4>1 DEF Fd
    <3>3. QED
      BY <3>1, <3>2
  <2>2. r \in Fd /\ t[r] = Closed
    BY <2>1 DEF lowest
  <2>3. QED
    BY <1>2, <1>3, <2>2 DEF Fd, Spare
<1> HIDE DEF t, r
<1>5. /\ u \in [Fd -> End] /\ u[r] = reads(cmd)
      /\ \A fd \in Fd : fd # r => u[fd] = t[fd]
  BY <1>1, <1>2, <1>4, Basics
<1> HIDE DEF u
<1>6. w \in Spare /\ w # prev_read /\ w # r
  <2>1. \E fd \in Fd : u[fd] = Closed /\ \A g \in Fd : u[g] = Closed => fd <= g
    <3>0. \A fd \in Fd : u[fd] = Closed <=> fd \in Spare /\ fd # prev_read /\ fd # r
      BY <1>2, <1>3, <1>4, <1>5 DEF Fd, Spare
    <3>1. CASE 3 \notin {prev_read, r}
      <4>1. u[3] = Closed /\ \A g \in Fd : u[g] = Closed => 3 <= g
        BY <3>0, <3>1 DEF Fd, Spare
      <4>2. QED
        BY <4>1 DEF Fd
    <3>2. CASE 3 \in {prev_read, r} /\ 4 \notin {prev_read, r}
      <4>1. u[4] = Closed /\ \A g \in Fd : u[g] = Closed => 4 <= g
        BY <3>0, <3>2 DEF Fd, Spare
      <4>2. QED
        BY <4>1 DEF Fd
    <3>3. CASE 3 \in {prev_read, r} /\ 4 \in {prev_read, r}
      <4>1. u[5] = Closed /\ \A g \in Fd : u[g] = Closed => 5 <= g
        BY <3>0, <3>3 DEF Fd, Spare
      <4>2. QED
        BY <4>1 DEF Fd
    <3>4. QED
      BY <3>1, <3>2, <3>3
  <2>2. w \in Fd /\ u[w] = Closed
    BY <2>1 DEF lowest
  <2>3. QED
    BY <1>2, <1>3, <1>5, <2>2 DEF Fd, Spare
<1> HIDE DEF w
<1> DEFINE v == [t EXCEPT ![r] = reads(cmd), ![w] = writes(cmd)]
<1>7. /\ pc' = "fork" /\ fds' = <<r, w>>
      /\ table' = [table EXCEPT ![Shell] = v]
      /\ UNCHANGED <<who, cmd, prev_read, pids, last_pid, last_status, waited, result,
                     child, kernelVars, failed>>
  BY DEF sh_pipe, t, r, u, w
<1>8. v \in [Fd -> End]
  BY <1>1, <1>2, <1>4, <1>6, Basics
<1>9. v = opened(cmd, prev_read, r, w, Tty, Tty)
  <2> DEFINE o == opened(cmd, prev_read, r, w, Tty, Tty)
  <2>1. /\ v[r] = reads(cmd) /\ v[w] = writes(cmd)
        /\ \A fd \in Fd : fd # r /\ fd # w => v[fd] = t[fd]
    BY <1>1, <1>4, <1>6, Basics
  <2> HIDE DEF v
  <2>2. v[0] = Tty /\ v[1] = Tty /\ v[2] = Tty
    BY <1>3, <1>4, <1>6, <2>1 DEF Fd, Spare
  <2>3. /\ o = [fd \in Fd |-> o[fd]]
        /\ o[0] = Tty /\ o[1] = Tty /\ o[2] = Tty
        /\ \A fd \in Spare : o[fd] = IF fd = prev_read THEN reads(cmd - 1)
                                     ELSE IF fd = r THEN reads(cmd)
                                     ELSE IF fd = w THEN writes(cmd) ELSE Closed
    BY Opened
  <2> HIDE DEF o
  <2>4. \A fd \in Spare : v[fd] = o[fd]
    BY <1>3, <1>4, <1>6, <2>1, <2>3, Basics
  <2>5. v = [fd \in Fd |-> v[fd]]
    BY <1>8
  <2>6. QED
    BY <2>2, <2>3, <2>4, <2>5, SameTable DEF o
<1>10. /\ table'[Shell] = v
       /\ \A p \in Stage : table'[p] = table[p]
       /\ table' \in [Child \cup {Shell} -> [Fd -> End]]
  BY <1>7, <1>8, Basics DEF Types
<1>11. Types'
  BY <1>7, <1>10 DEF Types, kernelVars
<1>12. ShellTable'
  <2>1. slots(cmd, prev_read, <<r, w>>)
    BY <1>1, <1>4, <1>6 DEF slots
  <2> HIDE DEF v
  <2>2. QED
    BY <1>1, <1>7, <1>9, <1>10, <2>1 DEF ShellTable
<1>13. \A p \in Stage : ChildTable(p)'
  BY <1>7, <1>10, KeepsChildren
<1>14. Pids' /\ Waits'
  BY <1>1, <1>7 DEF Pids, Waits, kernelVars
<1>15. QED
  BY <1>11, <1>12, <1>13, <1>14

\* The turn of the last command, and a pipe that fails, leave the tables alone.
LEMMA NoPipeIndInv ==
  ASSUME IndInv, sh_no_pipe \/ sh_pipe_fails
  PROVE  IndInv'
<1> USE DEF IndInv
<1>1. /\ pc = "pipe" /\ cmd \in Stage /\ cmd \in Nat /\ in_slot(cmd, prev_read)
      /\ table[Shell] = opened(cmd, prev_read, NoFd, NoFd, Tty, Tty)
      /\ UNCHANGED <<who, cmd, prev_read, pids, last_pid, last_status, waited, result,
                     table, child, kernelVars>>
  BY Basics DEF sh_no_pipe, sh_pipe_fails, ShellTable, shellVars
<1>2. Types' /\ \A p \in Stage : ChildTable(p)'
  BY <1>1, KeepsChildren DEF Types, kernelVars, sh_no_pipe, sh_pipe_fails
<1>3. CASE sh_no_pipe
  <2>1. pc' = "fork" /\ fds' = <<0, 0>> /\ last(cmd) /\ failed' = failed
    BY <1>3 DEF sh_no_pipe
  <2>2. opened(cmd, prev_read, NoFd, NoFd, Tty, Tty) = opened(cmd, prev_read, 0, 0, Tty, Tty)
    BY <1>1, TableSteps
  <2>3. slots(cmd, prev_read, <<0, 0>>)
    BY <1>1, <2>1 DEF slots
  <2>4. ShellTable'
    BY <1>1, <2>1, <2>2, <2>3 DEF ShellTable
  <2>5. Pids' /\ Waits'
    BY <1>1, <2>1 DEF Pids, Waits, kernelVars
  <2>6. QED
    BY <1>2, <2>4, <2>5
<1>4. CASE sh_pipe_fails
  <2>1. pc' = "close_last" /\ failed' = TRUE
    BY <1>4 DEF sh_pipe_fails
  <2>2. ShellTable'
    BY <1>1, <2>1 DEF ShellTable, in_slot
  <2>3. Pids'
    BY <1>1, <2>1 DEF Pids
  <2>4. Waits'
    BY <1>1, <2>1 DEF Waits, kernelVars
  <2>5. QED
    BY <1>2, <2>2, <2>3, <2>4
<1>5. QED
  BY <1>3, <1>4

\* The pid of this turn joins the list: the child's, or EAGAIN.
LEMMA NotePid ==
  ASSUME IndInv, pc = "fork", NEW pid, note_pid(pid),
         \/ /\ pid = cmd /\ failed' = failed
            /\ \A r \in Stage : r # cmd => child'[r] = child[r]
         \/ /\ pid = EAGAIN /\ failed' = TRUE /\ child' = child
  PROVE  Pids' /\ Waits'
<1> USE DEF IndInv
<1>1. /\ cmd \in Stage /\ cmd = Len(pids) + 1 /\ Len(pids) \in Nat /\ cmd <= Stages
      /\ pids \in Seq(Int) /\ pid \in Int /\ Stages \in Nat
  BY Basics DEF ShellTable, Pids, Stage, EAGAIN
<1>2. /\ pids' = Append(pids, pid) /\ pc' = "close_prev"
      /\ last_pid' = IF last(cmd) THEN pid ELSE last_pid
      /\ UNCHANGED <<who, cmd, last_status, waited, result, kernelVars>>
  BY DEF note_pid
<1>3. /\ pids' \in Seq(Int) /\ Len(pids') = cmd /\ pids'[cmd] = pid
      /\ \A i \in 1 .. Len(pids) : pids'[i] = pids[i]
  BY <1>1, <1>2
<1>4. \A i \in 1 .. cmd : i \in 1 .. Len(pids) \/ i = cmd
  BY <1>1
<1>5. \A i \in 1 .. Len(pids) : i \in Stage /\ i # cmd
  BY <1>1 DEF Stage
<1>6. child[cmd].pc = "none"
  BY <1>1 DEF Pids
<1>7. \A i \in 1 .. Len(pids') :
        pids'[i] = i \/ (pids'[i] = EAGAIN /\ failed' /\ child'[i].pc = "none")
  <2> SUFFICES ASSUME NEW i \in 1 .. cmd
               PROVE  pids'[i] = i \/ (pids'[i] = EAGAIN /\ failed' /\ child'[i].pc = "none")
    BY <1>3
  <2>1. CASE i = cmd
    BY <1>3, <1>6, <2>1
  <2>2. CASE i \in 1 .. Len(pids)
    <3>1. pids'[i] = pids[i] /\ child'[i] = child[i] /\ (failed => failed')
      BY <1>3, <1>5, <2>2
    <3>2. QED
      BY <2>2, <3>1 DEF Pids
  <2>3. QED
    BY <1>4, <2>1, <2>2
<1>8. \A p \in Stage : p > cmd => child'[p].pc = "none"
  <2> SUFFICES ASSUME NEW p \in Stage, p > cmd PROVE child'[p].pc = "none"
    OBVIOUS
  <2>1. p # cmd /\ p > Len(pids)
    BY <1>1, Basics
  <2>2. QED
    BY <2>1 DEF Pids
<1>9. Len(pids') = Stages => last_pid' = pids'[Stages]
  BY <1>2, <1>3 DEF last
<1>10. Pids'
  BY <1>1, <1>2, <1>3, <1>7, <1>8, <1>9 DEF Pids
<1>11. Waits'
  <2>1. waited = 0 /\ waited' = 0 /\ pc' = "close_prev"
    BY <1>2 DEF Waits
  <2>2. QED
    BY <1>1, <1>3, <2>1, Basics DEF Waits
<1>12. QED
  BY <1>10, <1>11

\* fork copies the shell's table and descriptors to the child.
LEMMA ForkIndInv ==
  ASSUME IndInv, sh_fork \/ sh_fork_fails
  PROVE  IndInv'
<1> USE DEF IndInv
<1>1. /\ pc = "fork" /\ pc' = "close_prev" /\ cmd \in Stage /\ cmd \in Child /\ cmd # Shell
      /\ cmd \in Nat
      /\ slots(cmd, prev_read, fds)
      /\ table[Shell] = opened(cmd, prev_read, fds[1], fds[2], Tty, Tty)
      /\ table[Shell] \in [Fd -> End]
      /\ UNCHANGED <<who, cmd, prev_read, fds, last_status, waited, result, kernelVars>>
  BY Basics DEF sh_fork, sh_fork_fails, note_pid, ShellTable, Types
<1>2. table'[Shell] = table[Shell] /\ \A p \in Stage : p # cmd => table'[p] = table[p]
  BY <1>1, Basics DEF sh_fork, sh_fork_fails, Types
<1>3. ShellTable'
  BY <1>1, <1>2 DEF ShellTable
<1>4. CASE sh_fork_fails
  <2>1. Types' /\ \A p \in Stage : ChildTable(p)'
    BY <1>1, <1>4, KeepsChildren DEF sh_fork_fails, Types, kernelVars
  <2>2. Pids' /\ Waits'
    BY <1>4, NotePid DEF sh_fork_fails
  <2>3. QED
    BY <1>3, <2>1, <2>2
<1>5. CASE sh_fork
  <2> DEFINE to == IF prev_read # NoFd THEN "dup_in" ELSE "close_read"
             c == [pc |-> to, prev_read |-> prev_read, fds |-> fds]
  <2>1. child' = [child EXCEPT ![cmd] = c] /\ table' = [table EXCEPT ![cmd] = table[Shell]]
    BY <1>5 DEF sh_fork
  <2>2. prev_read \in Fd \cup {NoFd} /\ fds \in Fd \X Fd
    BY <1>1, Basics DEF slots, in_slot, Fd, Spare
  <2>3. Types'
    BY <1>1, <2>1, <2>2 DEF Types, kernelVars
  <2>4. /\ child'[cmd] = c /\ table'[cmd] = table[Shell]
        /\ \A p \in Stage : p # cmd => child'[p] = child[p]
    BY <1>1, <2>1, Basics DEF Types
  <2>5. ChildTable(cmd)'
    <3>1. c.pc = to /\ c.prev_read = prev_read /\ c.fds = fds
      OBVIOUS
    <3>2. /\ to = "dup_in" => cmd # 1
          /\ to = "close_read" => cmd = 1 /\ prev_read = NoFd
      BY <1>1 DEF slots, in_slot, Spare, NoFd
    <3>3. cmd = 1 => std_in(cmd) = Tty
      BY DEF std_in
    <3>4. to \in {"dup_in", "close_read"}
      OBVIOUS
    <3> HIDE DEF to, c
    <3>5. child'[cmd].pc = to /\ child'[cmd].prev_read = prev_read /\ child'[cmd].fds = fds
      BY <2>4, <3>1
    <3>6. cmd' = cmd
      BY <1>1
    <3>7. QED
      BY <1>1, <2>4, <3>2, <3>3, <3>4, <3>5, <3>6 DEF ChildTable, alive
  <2>6. ASSUME NEW p \in Stage, p # cmd PROVE ChildTable(p)'
    <3>1. child'[p] = child[p] /\ table'[p] = table[p]
      BY <1>2, <2>4, <2>6
    <3>2. QED
      BY <3>1 DEF ChildTable, alive
  <2>7. \A p \in Stage : ChildTable(p)'
    <3> SUFFICES ASSUME NEW p \in Stage PROVE ChildTable(p)'
      OBVIOUS
    <3>1. CASE p = cmd
      <4>1. child'[p] = child'[cmd] /\ table'[p] = table'[cmd] /\ p = cmd'
        BY <1>1, <3>1
      <4>2. QED
        BY <2>5, <4>1 DEF ChildTable, alive
    <3>2. QED
      BY <2>6, <3>1
  <2>8. Pids' /\ Waits'
    BY <1>5, <2>4, NotePid DEF sh_fork
  <2>9. QED
    BY <1>3, <2>3, <2>7, <2>8
<1>6. QED
  BY <1>4, <1>5

\* The shell closes one of its own descriptors, or none.
LEMMA ShellClose ==
  ASSUME IndInv, NEW fd \in Fd \cup {NoFd}, shell_close(fd)
  PROVE  /\ table' \in [Child \cup {Shell} -> [Fd -> End]]
         /\ table'[Shell] = IF fd = NoFd THEN table[Shell] ELSE close(table[Shell], fd)
         /\ \A p \in Stage : table'[p] = table[p]
<1>1. table \in [Child \cup {Shell} -> [Fd -> End]]
  BY DEF IndInv, Types
<1>2. CASE fd = NoFd
  BY <1>1, <1>2 DEF shell_close
<1>3. CASE fd \in Fd
  <2>1. fd # NoFd
    BY <1>3, Basics
  <2>2. table' = [table EXCEPT ![Shell] = close(table[Shell], fd)]
    BY <1>1, <2>1 DEF shell_close, close
  <2>3. close(table[Shell], fd) \in [Fd -> End]
    BY <1>1, <1>3, Basics DEF close
  <2>4. QED
    BY <1>1, <2>1, <2>2, <2>3, Basics
<1>4. QED
  BY <1>2, <1>3

\* The shell gives up the ends its child has now.
LEMMA CloseIndInv ==
  ASSUME IndInv, sh_close_prev \/ sh_close_write \/ sh_close_last
  PROVE  IndInv'
<1> USE DEF IndInv
<1>1. CASE sh_close_prev
  <2>1. /\ pc = "close_prev" /\ pc' = "close_write" /\ cmd \in Stage /\ cmd \in Nat
        /\ slots(cmd, prev_read, fds)
        /\ table[Shell] = opened(cmd, prev_read, fds[1], fds[2], Tty, Tty)
        /\ UNCHANGED <<who, shellVars, child, kernelVars, failed>>
        /\ shell_close(prev_read)
    BY <1>1, Basics DEF sh_close_prev, ShellTable
  <2>2. /\ prev_read = NoFd \/ prev_read \in Spare
        /\ prev_read \in Spare => prev_read \notin {fds[1], fds[2]}
    BY <2>1 DEF slots, in_slot, Spare
  <2>3. /\ table' \in [Child \cup {Shell} -> [Fd -> End]]
        /\ table'[Shell] = IF prev_read = NoFd THEN table[Shell] ELSE close(table[Shell], prev_read)
        /\ \A p \in Stage : table'[p] = table[p]
    BY <2>1, <2>2, ShellClose, Basics
  <2>4. table'[Shell] = opened(cmd, NoFd, fds[1], fds[2], Tty, Tty)
    BY <2>1, <2>2, <2>3, TableSteps DEF Spare, NoFd
  <2>5. Types' /\ \A p \in Stage : ChildTable(p)'
    BY <2>1, <2>3, KeepsChildren DEF Types, kernelVars
  <2>6. ShellTable'
    BY <2>1, <2>4 DEF ShellTable, shellVars
  <2>7. Pids' /\ Waits'
    BY <2>1 DEF Pids, Waits, shellVars, kernelVars
  <2>8. QED
    BY <2>5, <2>6, <2>7
<1>2. CASE sh_close_write
  <2> DEFINE fd == IF last(cmd) THEN NoFd ELSE fds[2]
  <2>1. /\ pc = "close_write" /\ cmd \in Stage /\ cmd \in Nat /\ cmd' = cmd + 1
        /\ slots(cmd, prev_read, fds)
        /\ table[Shell] = opened(cmd, NoFd, fds[1], fds[2], Tty, Tty)
        /\ shell_close(fd)
        /\ UNCHANGED <<who, fds, pids, last_pid, last_status, waited, result,
                       child, kernelVars, failed>>
    BY <1>2, Basics DEF sh_close_write, ShellTable
  <2>2. fd \in Fd \cup {NoFd}
    BY <2>1, Basics DEF slots
  <2>3. /\ table' \in [Child \cup {Shell} -> [Fd -> End]]
        /\ table'[Shell] = IF fd = NoFd THEN table[Shell] ELSE close(table[Shell], fd)
        /\ \A p \in Stage : table'[p] = table[p]
    BY <2>1, <2>2, ShellClose
  <2>4. Types' /\ \A p \in Stage : ChildTable(p)'
    <3>1. pc' \in {"close_last", "pipe"}
      BY <1>2 DEF sh_close_write
    <3>2. QED
      BY <2>1, <2>3, <3>1, KeepsChildren DEF Types, kernelVars
  <2>5. CASE last(cmd)
    <3>1. prev_read' = NoFd /\ pc' = "close_last" /\ fds = <<0, 0>> /\ cmd = Stages
      BY <1>2, <2>1, <2>5 DEF sh_close_write, slots, last
    <3>2. table'[Shell] = opened(cmd + 1, NoFd, NoFd, NoFd, Tty, Tty)
      BY <2>1, <2>3, <2>5, <3>1, TableSteps
    <3>3. ShellTable'
      BY <2>1, <3>1, <3>2 DEF ShellTable
    <3>4. Pids' /\ Waits'
      BY <2>1, <3>1 DEF Pids, Waits, kernelVars
    <3>5. QED
      BY <2>4, <3>3, <3>4
  <2>6. CASE ~last(cmd)
    <3>1. /\ prev_read' = fds[1] /\ pc' = "pipe" /\ cmd # Stages
          /\ fds[1] \in Spare /\ fds[2] \in Spare /\ fds[1] # fds[2] /\ fds[2] # NoFd
      BY <1>2, <2>1, <2>6 DEF sh_close_write, slots, last, Spare, NoFd
    <3>2. table'[Shell] = opened(cmd + 1, fds[1], NoFd, NoFd, Tty, Tty)
      BY <2>1, <2>3, <2>6, <3>1, TableSteps
    <3>3. cmd + 1 \in Stage /\ cmd + 1 # 1
      BY <2>1, <3>1, Basics DEF Stage
    <3>4. ShellTable'
      BY <2>1, <3>1, <3>2, <3>3 DEF ShellTable, in_slot
    <3>5. Pids' /\ Waits'
      BY <2>1, <3>1 DEF Pids, Waits, kernelVars
    <3>6. QED
      BY <2>4, <3>4, <3>5
  <2>7. QED
    BY <2>5, <2>6
<1>3. CASE sh_close_last
  <2>1. /\ pc = "close_last" /\ pc' = "wait" /\ prev_read \in Spare \cup {NoFd}
        /\ table[Shell] = opened(cmd, prev_read, NoFd, NoFd, Tty, Tty)
        /\ UNCHANGED <<who, shellVars, child, kernelVars, failed>>
        /\ shell_close(prev_read)
    BY <1>3 DEF sh_close_last, ShellTable
  <2>2. /\ table' \in [Child \cup {Shell} -> [Fd -> End]]
        /\ table'[Shell] = IF prev_read = NoFd THEN table[Shell] ELSE close(table[Shell], prev_read)
        /\ \A p \in Stage : table'[p] = table[p]
    BY <2>1, ShellClose, Basics
  <2>3. table'[Shell] = terminal
    <3> DEFINE u == IF prev_read = NoFd THEN table[Shell] ELSE close(table[Shell], prev_read)
    <3>1. /\ u = [fd \in Fd |-> u[fd]] /\ u[0] = Tty /\ u[1] = Tty /\ u[2] = Tty
          /\ \A fd \in Spare : u[fd] = Closed
      <4>1. CASE prev_read = NoFd
        <5>1. \A fd \in Spare : fd # NoFd
          BY Basics
        <5>2. QED
          BY <2>1, <4>1, <5>1, Opened
      <4>2. CASE prev_read # NoFd
        <5>1. \A fd \in Spare : fd # NoFd
          BY Basics
        <5>2. QED
          BY <2>1, <4>2, <5>1, Opened, CloseTable
      <4>3. QED
        BY <4>1, <4>2
    <3>2. /\ terminal = [fd \in Fd |-> terminal[fd]]
          /\ terminal[0] = Tty /\ terminal[1] = Tty /\ terminal[2] = Tty
          /\ \A fd \in Spare : terminal[fd] = Closed
      BY DEF terminal, Fd, Spare
    <3> HIDE DEF u
    <3>3. u = terminal
      BY <3>1, <3>2, SameTable
    <3>4. QED
      BY <2>2, <3>3 DEF u
  <2>4. Types' /\ \A p \in Stage : ChildTable(p)'
    BY <2>1, <2>2, KeepsChildren DEF Types, kernelVars
  <2>5. ShellTable'
    BY <2>1, <2>3 DEF ShellTable
  <2>6. Pids' /\ Waits'
    BY <2>1 DEF Pids, Waits, shellVars, kernelVars
  <2>7. QED
    BY <2>4, <2>5, <2>6
<1>4. QED
  BY <1>1, <1>2, <1>3

\* A wait reaps at most one child, and that one has ended.
LEMMA Reaping ==
  ASSUME IndInv, pc = "wait", NEW st,
         \/ \E pid : waitpid(pid, st)
         \/ waitpid_any(st)
  PROVE  /\ child' \in [Child -> [pc : {"none", "dup_in", "close_in", "close_read", "dup_out",
                                       "close_write", "exec", "say_name", "say_not_found", "exit",
                                       "run", "zombie", "reaped"},
                                 prev_read : Fd \cup {NoFd}, fds : Fd \X Fd]]
         /\ \A p \in Child : \/ child'[p] = child[p]
                             \/ child[p].pc = "zombie" /\ child'[p].pc = "reaped"
<1>1. child' = child \/ \E p \in Child : child[p].pc = "zombie" /\ reap(p)
  BY DEF waitpid, waitpid_any
<1>2. CASE child' = child
  BY <1>2 DEF IndInv, Types
<1>3. ASSUME NEW p \in Child, child[p].pc = "zombie", reap(p)
      PROVE  /\ child' = [child EXCEPT ![p].pc = "reaped"]
             /\ child'[p].pc = "reaped"
             /\ \A r \in Child : r # p => child'[r] = child[r]
  BY <1>3 DEF IndInv, Types, reap
<1>4. CASE child' # child
  <2>1. PICK p \in Child : child[p].pc = "zombie" /\ reap(p)
    BY <1>1, <1>4
  <2>2. child' = [child EXCEPT ![p].pc = "reaped"]
    BY <1>3, <2>1
  <2>3. child' \in [Child -> [pc : {"none", "dup_in", "close_in", "close_read", "dup_out",
                                    "close_write", "exec", "say_name", "say_not_found", "exit",
                                    "run", "zombie", "reaped"},
                              prev_read : Fd \cup {NoFd}, fds : Fd \X Fd]]
    BY <2>2, ZenonT(40) DEF IndInv, Types
  <2>4. QED
    BY <1>3, <2>1, <2>3
<1>5. QED
  BY <1>2, <1>4

\* The shell's wait: for its children in order, or for any child.
LEMMA WaitIndInv ==
  ASSUME IndInv, sh_wait
  PROVE  IndInv'
<1> USE DEF IndInv
<1>1. /\ pc = "wait" /\ waited' = waited + 1
      /\ UNCHANGED <<who, pc, cmd, prev_read, fds, pids, last_pid, result, table,
                     kernelVars, failed>>
  BY DEF sh_wait
<1>2. PICK st : \/ who = "00shell" /\ wait_for_pids(st)
                \/ who = "testcode_runner" /\ wait_for_len(st)
  BY DEF sh_wait
<1>3. /\ child' \in [Child -> [pc : {"none", "dup_in", "close_in", "close_read", "dup_out",
                                    "close_write", "exec", "say_name", "say_not_found", "exit",
                                    "run", "zombie", "reaped"},
                              prev_read : Fd \cup {NoFd}, fds : Fd \X Fd]]
      /\ \A p \in Child : \/ child'[p] = child[p]
                          \/ child[p].pc = "zombie" /\ child'[p].pc = "reaped"
  BY <1>1, <1>2, Reaping DEF wait_for_pids, wait_for_len
<1>4. Types' /\ ShellTable'
  BY <1>1, <1>3 DEF Types, ShellTable, kernelVars
<1>5. ASSUME NEW p \in Stage PROVE ChildTable(p)'
  <2>1. CASE child'[p] = child[p]
    BY <1>1, <2>1 DEF ChildTable, alive
  <2>2. CASE child'[p].pc = "reaped"
    BY <2>2 DEF ChildTable, alive
  <2>3. QED
    BY <1>3, <2>1, <2>2, Basics
<1>6. \A p \in Stage : child[p].pc \in {"none", "reaped"} => child'[p] = child[p]
  BY <1>3, Basics
<1>7. Pids'
  BY <1>1, <1>6, KeepsPids
<1>8. Waits'
  <2>1. CASE who # "00shell"
    BY <1>1, <2>1 DEF Waits
  <2>2. CASE who = "00shell"
    <3> DEFINE n == waited + 1
               pid == pids[n]
    <3>1. /\ waited \in Nat /\ n \in 1 .. Len(pids) /\ Len(pids) <= Stages /\ n \in Stage
          /\ Len(pids) \in Nat
          /\ waitpid(pid, st) /\ last_status' = IF pid = last_pid THEN st ELSE last_status
      BY <1>2, <2>2, Basics DEF wait_for_pids, Waits, Pids, Stage
    <3>2. \A i \in 1 .. waited : i \in Stage /\ child[i].pc \in {"none", "reaped"}
      <4>1. \A i \in 1 .. waited : i \in Stage
        BY <3>1, Basics DEF Stage
      <4>2. QED
        BY <2>2, <4>1 DEF Waits
    <3>3. \A i \in 1 .. n : i \in 1 .. waited \/ i = n
      BY <3>1
    <3>4. child'[n].pc \in {"none", "reaped"}
      <4>1. CASE pid = n
        <5>1. child' = [child EXCEPT ![n].pc = "reaped"]
          BY <3>1, <4>1, Basics DEF waitpid, reap
        <5>2. QED
          BY <3>1, <5>1, Basics DEF Types
      <4>2. CASE pid = EAGAIN /\ child[n].pc = "none"
        BY <1>6, <3>1, <4>2
      <4>3. QED
        BY <3>1, <4>1, <4>2 DEF Pids
    <3>5. \A i \in 1 .. waited' : child'[i].pc \in {"none", "reaped"}
      BY <1>1, <1>6, <3>2, <3>3, <3>4
    <3>6. ASSUME ~failed, n = Stages PROVE last_status' = status[Stages]
      <4>1. pid = Stages /\ last_pid = Stages
        BY <1>1, <3>1, <3>6 DEF Pids
      <4>2. st = status[Stages]
        <5>1. Stages \in Child
          BY <3>1, <3>6, Basics
        <5>2. waitpid(Stages, st)
          BY <3>1, <4>1
        <5>3. QED
          BY <5>1, <5>2 DEF waitpid
      <4>3. QED
        BY <3>1, <4>1, <4>2
    <3>7. QED
      BY <1>1, <3>1, <3>5, <3>6 DEF Waits, kernelVars
  <2>3. QED
    BY <2>1, <2>2
<1>9. QED
  BY <1>4, <1>5, <1>7, <1>8

\* The prompt comes back with "?" set.
LEMMA SetStatusIndInv ==
  ASSUME IndInv, sh_set_status
  PROVE  IndInv'
<1> USE DEF IndInv
<1>1. /\ pc = "wait" /\ pc' = "prompt"
      /\ waited = IF who = "00shell" THEN Len(pids) ELSE Stages
      /\ result' = IF who = "00shell" THEN decode_wait_status(last_status) ELSE last_status
      /\ UNCHANGED <<who, cmd, prev_read, fds, pids, last_pid, last_status, waited,
                     table, child, kernelVars, failed>>
  BY DEF sh_set_status
<1>2. Types' /\ ShellTable' /\ \A p \in Stage : ChildTable(p)'
  BY <1>1, KeepsChildren DEF Types, ShellTable, kernelVars
<1>3. Pids'
  BY <1>1 DEF Pids
<1>4. Waits'
  BY <1>1 DEF Waits, kernelVars
<1>5. QED
  BY <1>2, <1>3, <1>4

\* Every step of the shell, of its children and of their programs.
LEMMA NextIndInv == IndInv /\ [Next]_vars => IndInv'
<1> SUFFICES ASSUME IndInv, [Next]_vars PROVE IndInv'
  OBVIOUS
<1>1. CASE UNCHANGED vars
  <2>1. Types' /\ ShellTable' /\ \A p \in Stage : ChildTable(p)'
    BY <1>1, KeepsChildren, KeepsShell DEF IndInv, Types, vars, shellVars, kernelVars
  <2>2. Pids' /\ Waits'
    BY <1>1, KeepsPids, KeepsWaits DEF IndInv, vars, shellVars, kernelVars
  <2>3. QED
    BY <2>1, <2>2 DEF IndInv
<1>2. CASE ShellStep \/ sh_pipe_fails \/ sh_fork_fails
  BY <1>2, PipeIndInv, NoPipeIndInv, ForkIndInv, CloseIndInv, WaitIndInv, SetStatusIndInv
  DEF ShellStep
<1>3. ASSUME NEW p \in Stage, ChildStep(p) PROVE IndInv'
  BY <1>3, ChildrenIndInv, NotFoundIndInv, ProgramIndInv DEF ChildStep
<1>4. CASE \E p \in Stage : ch_exec_fails(p)
  BY <1>4, ChildrenIndInv
<1>5. CASE \E p \in Child : program_exit(p)
  BY <1>5, ProgramIndInv
<1>6. QED
  BY <1>1, <1>2, <1>3, <1>4, <1>5 DEF Next

\* For a line of any number of commands, any pipe size and any failures of
\* pipe, fork and exec: the tables and the pids are what the code intends.
THEOREM PipelineIndInv == Spec => []IndInv
<1>1. Init => IndInv
  BY InitIndInv
<1>2. IndInv /\ [Next]_vars => IndInv'
  BY NextIndInv
<1>3. QED
  BY <1>1, <1>2, PTL DEF Spec

\* A program has no end of a pipe but its stdin and stdout, and a shell that
\* waits has none: no end is left open anywhere that keeps end of file or
\* SIGPIPE from a neighbour.
THEOREM PipelineOnlyOwnEnds == Spec => []OnlyOwnEnds
<1>1. IndInv => OnlyOwnEnds
  <2> SUFFICES ASSUME IndInv PROVE OnlyOwnEnds
    OBVIOUS
  <2>1. pc \in {"wait", "prompt"} => table[Shell] = terminal
    BY DEF IndInv, ShellTable
  <2>2. ASSUME NEW p \in Stage, running(p) \/ not_found(p)
        PROVE  ends(p) = {reads(q) : q \in {p - 1} \cap DOMAIN fill}
                           \cup {writes(q) : q \in {p} \cap DOMAIN fill}
    <3>1. table[p] = opened(p, NoFd, NoFd, NoFd, std_in(p), std_out(p))
      BY <2>2 DEF IndInv, ChildTable, running, not_found
    <3>2. Range(table[p]) = {std_in(p), std_out(p), Tty, Closed}
      <4> DEFINE t == opened(p, NoFd, NoFd, NoFd, std_in(p), std_out(p))
      <4>1. /\ t = [fd \in Fd |-> t[fd]]
            /\ t[0] = std_in(p) /\ t[1] = std_out(p) /\ t[2] = Tty
            /\ \A fd \in Spare : t[fd] = Closed
        <5>1. \A fd \in Spare : fd # NoFd
          BY Basics
        <5>2. QED
          BY <5>1, Opened
      <4> HIDE DEF t
      <4>2. DOMAIN t = Fd
        BY <4>1
      <4>3. Fd = {0, 1, 2} \cup Spare /\ 3 \in Spare
        BY DEF Fd, Spare
      <4>4. Range(t) = {t[fd] : fd \in Fd}
        BY <4>2 DEF Range
      <4>5. \A fd \in Fd : t[fd] \in {std_in(p), std_out(p), Tty, Closed}
        BY <4>1, <4>3
      <4>6. \A e \in {std_in(p), std_out(p), Tty, Closed} : \E fd \in Fd : t[fd] = e
        BY <4>1, <4>3
      <4>7. QED
        BY <3>1, <4>4, <4>5, <4>6 DEF t
    <3>3. DOMAIN fill = 1 .. Stages - 1
      BY DEF IndInv, Types
    <3>4. /\ {reads(q) : q \in {p - 1} \cap DOMAIN fill}
                = IF p = 1 THEN {} ELSE {reads(p - 1)}
          /\ {writes(q) : q \in {p} \cap DOMAIN fill}
                = IF last(p) THEN {} ELSE {writes(p)}
      <4>1. p - 1 \in DOMAIN fill <=> p # 1
        BY <3>3, Basics DEF Stage
      <4>2. p \in DOMAIN fill <=> ~last(p)
        BY <3>3, Basics DEF Stage, last
      <4>3. QED
        BY <4>1, <4>2
    <3>5. /\ p # 1 => reads(p - 1) \notin {Tty, Closed}
          /\ writes(p) \notin {Tty, Closed}
      <4>1. p # 1 => p - 1 \in Stage
        BY Basics DEF Stage
      <4>2. QED
        BY <4>1, Basics
    <3>6. QED
      BY <3>2, <3>4, <3>5 DEF ends, std_in, std_out
  <2>3. QED
    BY <2>1, <2>2 DEF OnlyOwnEnds
<1>2. QED
  BY <1>1, PipelineIndInv, PTL

\* At the prompt 00shell has reaped all it started, and "?" is the status of
\* the last command, whichever ended first and whatever the background job did.
THEOREM PipelineStatusOfLast == Spec => []StatusOfLast
<1>1. IndInv => StatusOfLast
  <2> SUFFICES ASSUME IndInv, who = "00shell", pc = "prompt"
               PROVE  /\ \A p \in Stage : child[p].pc \in {"none", "reaped"}
                      /\ ~failed => result = decode_wait_status(status[Stages])
    BY DEF StatusOfLast
  <2>1. waited = Len(pids) /\ result = decode_wait_status(last_status) /\ Len(pids) \in Nat
    BY DEF IndInv, Waits, Pids
  <2>2. ASSUME NEW p \in Stage PROVE child[p].pc \in {"none", "reaped"}
    <3>1. p \in 1 .. waited \/ p > Len(pids)
      BY <2>1, Basics DEF Stage
    <3>2. QED
      BY <3>1 DEF IndInv, Pids, Waits
  <2>3. ~failed => last_status = status[Stages]
    BY <2>1 DEF IndInv, Pids, Waits
  <2>4. QED
    BY <2>1, <2>2, <2>3
<1>2. QED
  BY <1>1, PipelineIndInv, PTL
===============================================================================
