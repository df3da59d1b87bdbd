-------------------------------- MODULE Tracer --------------------------------
(***************************************************************************)
(* do_trace (src/ptrace.c): one loop of waitpid and a handler that looks   *)
(* the task up, notes the system call at its first stop and decodes it at  *)
(* the second, and lets the task go on.  What a descriptor refers to is    *)
(* kept for each task, the file's name in a string with a reference count. *)
(***************************************************************************)
EXTENDS Tracees

CONSTANT MAX_MON_FDS    \* descriptors the tracer looks at

ASSUME TracerAssumption == MAX_MON_FDS \in 1 .. NumFds

Mon    == 0 .. MAX_MON_FDS - 1
NoArc  == 0
NoStop == [pid |-> NoPid, stop |-> None]

VARIABLES
  pids,      \* tracked tasks: pid -> process_t, [syscall_num, regs, fds]
  arcs,      \* allocated arc_str_t: number -> [str, ref_cnt]
  cur,       \* what waitpid has returned: [pid, stop]
  loop,      \* of do_trace: "on" until it has returned or exited, then "over"
  decoded    \* the last write handled: [file, real], as decoded and as made

tracerVars == <<pids, arcs, cur, loop, decoded>>
vars == <<worldVars, tracerVars>>

NoRegs == [nr |-> "0", r0 |-> NoFd, file |-> None]
NoDecode == [file |-> None, real |-> None]

Looping == loop = "on"

Init ==
  /\ WorldInit
  /\ pids = [p \in {Root} |-> [syscall_num |-> "0", regs |-> NoRegs,
                               fds |-> [fd \in Mon |-> IF fd = 0 THEN 1 ELSE NoArc]]]
  /\ arcs = [n \in {1} |-> [str |-> Std, ref_cnt |-> 1]]
  /\ cur = NoStop /\ loop = "on" /\ decoded = NoDecode

-----------------------------------------------------------------------------
(* Strings with reference counts. *)

SlotsOf(ps) == (DOMAIN ps) \X Mon

\* How many of the slots in S refer to string n.
Refs(ps, S, n) == Cardinality({s \in S : ps[s[1]].fds[s[2]] = n})

\* What ref_cnt becomes when the slots in old of ps let go of their strings
\* (delete_arc_str) and those in new of qs take theirs (ref_cnt++).
Count(strs, ps, old, qs, new, n) == strs[n].ref_cnt - Refs(ps, old, n) + Refs(qs, new, n)

Recount(strs, ps, old, qs, new) ==
  [n \in {m \in DOMAIN strs : Count(strs, ps, old, qs, new, m) # 0} |->
     [strs[n] EXCEPT !.ref_cnt = Count(strs, ps, old, qs, new, n)]]

\* new_arc_str: memory that no string has.
Unused(strs) == LET n == Cardinality(DOMAIN strs) IN Lowest((1 .. n + 1) \ DOMAIN strs)

NewArc(strs, filename) ==
  [n \in DOMAIN strs \cup {Unused(strs)} |->
     IF n = Unused(strs) THEN [str |-> filename, ref_cnt |-> 1] ELSE strs[n]]

SetSlot(ps, ts, fd, n) ==
  [q \in DOMAIN ps |-> IF q \in ts THEN [ps[q] EXCEPT !.fds[fd] = n] ELSE ps[q]]

FreeFds(strs, ps, p) == Recount(strs, ps, {p} \X Mon, ps, {})

CloneFds(strs, ps, q) == Recount(strs, ps, {}, ps, {q} \X Mon)

\* Mutant of BroadcastOpen: the peers' references are not counted.
BroadcastOpenUncounted(ps, strs, p, fd) ==
  /\ pids' = SetSlot(ps, DOMAIN ps, fd, ps[p].fds[fd])
  /\ arcs' = Recount(strs, ps, (DOMAIN ps \ {p}) \X {fd}, ps, {})

\* broadcast_fd_open: the slot is copied to every other task, dropping what it held.
BroadcastOpen(ps, strs, p, fd) ==
  LET peers == DOMAIN ps \ {p}
      qs == SetSlot(ps, peers, fd, ps[p].fds[fd])
  IN  /\ pids' = qs
      /\ arcs' = Recount(strs, ps, peers \X {fd}, qs, peers \X {fd})

\* syscall_close, whatever the call returned.
SyscallClose(ps, p) ==
  LET fd == ps[p].regs.r0 IN
  IF fd \notin Mon THEN pids' = ps /\ UNCHANGED arcs
  ELSE /\ pids' = SetSlot(ps, DOMAIN ps, fd, NoArc)
       /\ arcs' = Recount(arcs, ps, (DOMAIN ps) \X {fd}, ps, {})

\* Mutant of SyscallOpen: descriptor 0 is taken for an error.
SyscallOpenNotZero(ps, p, fd) ==
  IF fd \notin Mon \ {0} THEN pids' = ps /\ UNCHANGED arcs
  ELSE \E filename \in {ps[p].regs.file} \cup (IF "unmap" \in world THEN {None} ELSE {}) :
         IF filename = None THEN BroadcastOpen(ps, arcs, p, fd)
         ELSE BroadcastOpen(SetSlot(ps, {p}, fd, Unused(arcs)), NewArc(arcs, filename), p, fd)

\* syscall_open; the name is read from the task's memory after the call and the
\* string the slot held is not released.
SyscallOpen(ps, p, fd) ==
  IF fd \notin Mon THEN pids' = ps /\ UNCHANGED arcs
  ELSE \E filename \in {ps[p].regs.file} \cup (IF "unmap" \in world THEN {None} ELSE {}) :
         IF filename = None THEN BroadcastOpen(ps, arcs, p, fd)
         ELSE BroadcastOpen(SetSlot(ps, {p}, fd, Unused(arcs)), NewArc(arcs, filename), p, fd)

\* A file that is decoded: the standard descriptors have a name and no callbacks.
Known(file) == IF file \in Files THEN file ELSE None

\* syscall_write_exit, syscall_writev_exit: the callback of the slot decodes the
\* call; what write() returned does not matter to it, what writev() did does.
SyscallWrite(ps, p, nr) ==
  LET fd   == ps[p].regs.r0
      made == task[p].pos = "exit" /\ task[p].call.nr = nr
  IN  /\ pids' = ps /\ UNCHANGED arcs
      /\ decoded' =
           IF fd \notin Mon \/ (nr = "writev" /\ RegsOf(task[p]).r0 <= 0) THEN decoded
           ELSE [file |-> IF ps[p].fds[fd] = NoArc THEN None ELSE Known(arcs[ps[p].fds[fd]].str),
                 real |-> IF made THEN Known(task[p].call.file) ELSE None]

-----------------------------------------------------------------------------
(* Handlers.  PTRACE_SYSCALL fails silently on a task that has died. *)

Continue(p) == task' = [task EXCEPT ![p] = Resumed(@)] /\ cur' = NoStop

\* The tracer exits: the kernel detaches it and every task goes on alone.
LeaveAll == task' = [p \in Pids |-> Resumed(task[p])] /\ cur' = NoStop /\ loop' = "over"

Handling(stop) == Looping /\ cur.stop = stop /\ UNCHANGED <<world, fdtab, ncalls>>

Wait ==
  /\ Looping /\ cur = NoStop
  /\ \E p \in Waitable :
       /\ cur' = [pid |-> p, stop |-> IF task[p].pos \in {"enter", "exit"} THEN "syscall" ELSE task[p].pos]
       /\ reports' = Kept(Pids \ {p})
       /\ task' = IF task[p].pos = "dead" THEN [task EXCEPT ![p].pos = "gone"] ELSE task
  /\ UNCHANGED <<world, fdtab, ncalls, pids, arcs, loop, decoded>>

\* waitpid returns -1.
NoChildren ==
  /\ Looping /\ cur = NoStop /\ Live = {} /\ Reported = {}
  /\ loop' = "over"
  /\ UNCHANGED <<worldVars, pids, arcs, cur, decoded>>

\* The task whose descriptors a new one takes over, from /proc/<pid>/stat.
Parent(q) ==
  IF task[q].pos = "gone" THEN NoPid ELSE IF task[q].ppid = Me THEN Root ELSE task[q].ppid

HandleClone ==
  /\ Handling("event") /\ Continue(cur.pid)
  /\ LET q == task[cur.pid].call.child IN       \* PTRACE_GETEVENTMSG; NoPid when it fails
     IF q \notin DOMAIN pids \cup {NoPid} /\ Parent(q) \in DOMAIN pids
     THEN /\ pids' = [r \in DOMAIN pids \cup {q} |->
                       IF r = q THEN [syscall_num |-> "0", regs |-> NoRegs, fds |-> pids[Parent(q)].fds]
                       ELSE pids[r]]
          /\ arcs' = CloneFds(arcs, pids', q)
     ELSE UNCHANGED <<pids, arcs>>
  /\ UNCHANGED <<reports, loop, decoded>>

\* A task has exited or was killed.  The loop ends with the last tracked one.
HandleGone ==
  /\ Handling("dead")
  /\ LET p == cur.pid
         left == DOMAIN pids \ {p}
     IN  /\ pids' = [q \in left |-> pids[q]]
         /\ arcs' = IF p \in DOMAIN pids THEN FreeFds(arcs, pids, p) ELSE arcs
         /\ IF left = {} THEN LeaveAll ELSE UNCHANGED <<task, loop>> /\ cur' = NoStop
  /\ UNCHANGED <<reports, decoded>>

\* The SIGSTOP of a new task.
HandleInit ==
  /\ Handling("init") /\ Continue(cur.pid)
  /\ UNCHANGED <<reports, pids, arcs, loop, decoded>>

AtSyscall(p) == Handling("syscall") /\ cur.pid = p /\ UNCHANGED reports

HandleUntracked(p) ==
  /\ AtSyscall(p) /\ p \notin DOMAIN pids /\ Continue(p)
  /\ UNCHANGED <<pids, arcs, loop, decoded>>

\* PTRACE_GETREGS fails, the task having been killed meanwhile: exit(0).
HandleVanished(p) ==
  /\ AtSyscall(p) /\ p \in DOMAIN pids /\ task[p].pos = "dead"
  /\ LeaveAll
  /\ UNCHANGED <<pids, arcs, decoded>>

HandleEnter(p) ==
  /\ AtSyscall(p) /\ p \in DOMAIN pids /\ task[p].pos # "dead"
  /\ pids[p].syscall_num = "0" /\ Continue(p)
  /\ pids' = [pids EXCEPT ![p].regs = RegsOf(task[p]), ![p].syscall_num = RegsOf(task[p]).nr]
  /\ UNCHANGED <<arcs, loop, decoded>>

\* Mutant of HandleExit: a call that failed is left early.
HandleExitFailed(p) ==
  /\ AtSyscall(p) /\ p \in DOMAIN pids /\ task[p].pos # "dead"
  /\ pids[p].syscall_num # "0" /\ Continue(p)
  /\ LET nr == pids[p].syscall_num
         ps == [pids EXCEPT ![p].syscall_num = IF nr = "open" /\ RegsOf(task[p]).r0 = NoFd THEN nr ELSE "0"]
     IN  \/ nr = "open" /\ SyscallOpen(ps, p, RegsOf(task[p]).r0) /\ UNCHANGED decoded
         \/ nr = "close" /\ SyscallClose(ps, p) /\ UNCHANGED decoded
         \/ nr \in Writing /\ SyscallWrite(ps, p, nr)
         \/ nr \in {"clone", "fork"} /\ pids' = ps /\ UNCHANGED <<arcs, decoded>>
  /\ UNCHANGED loop

HandleExit(p) ==
  /\ AtSyscall(p) /\ p \in DOMAIN pids /\ task[p].pos # "dead"
  /\ pids[p].syscall_num # "0" /\ Continue(p)
  /\ LET nr == pids[p].syscall_num
         ps == [pids EXCEPT ![p].syscall_num = "0"]
     IN  \/ nr = "open" /\ SyscallOpen(ps, p, RegsOf(task[p]).r0) /\ UNCHANGED decoded
         \/ nr = "close" /\ SyscallClose(ps, p) /\ UNCHANGED decoded
         \/ nr \in Writing /\ SyscallWrite(ps, p, nr)
         \/ nr \in {"clone", "fork"} /\ pids' = ps /\ UNCHANGED <<arcs, decoded>>
  /\ UNCHANGED loop

TracerStep ==
  \/ Wait \/ NoChildren \/ HandleClone \/ HandleGone \/ HandleInit
  \/ \E p \in Pids : HandleUntracked(p) \/ HandleVanished(p) \/ HandleEnter(p) \/ HandleExit(p)

Untouched == Looping /\ WorldStep /\ UNCHANGED tracerVars

Next == Untouched \/ TracerStep

Spec == Init /\ [][Next]_vars

-----------------------------------------------------------------------------
TypeOK ==
  /\ DOMAIN pids \subseteq Pids
  /\ \A p \in DOMAIN pids :
       /\ pids[p].fds \in [Mon -> Nat]
       /\ pids[p].regs.r0 \in Results
  /\ DOMAIN arcs \subseteq Nat \ {NoArc} /\ IsFiniteSet(DOMAIN arcs)
  /\ \A n \in DOMAIN arcs : arcs[n] \in [str : Files \cup {Std}, ref_cnt : Nat \ {0}]
  /\ cur.stop \in {None, "syscall", "event", "init", "dead"} /\ loop \in {"on", "over"}
  /\ DOMAIN task = Pids /\ ncalls \in 0 .. MaxCalls

\* arc_str_t: a string is freed only when no slot refers to it any more, however
\* opens, closes, clones and deaths of several tasks meet; a leak is possible.
RefCountsSound ==
  /\ \A s \in SlotsOf(pids) : pids[s[1]].fds[s[2]] \in DOMAIN arcs \cup {NoArc}
  /\ \A n \in DOMAIN arcs : Refs(pids, SlotsOf(pids), n) <= arcs[n].ref_cnt

\* "on open we copy the new fd state to every peer; on close we clear it
\* everywhere" (src/ptrace.c): all tracked tasks have the same descriptors.
TablesAlike == \A p, q \in DOMAIN pids : pids[p].fds = pids[q].fds

\* do_trace: a task that is stopped, tracked or not, is always one whose report
\* is to come or is being handled; no handler leaves a task hanging.
NoneHangs ==
  Looping => \A p \in Live : task[p].pos \in Stopped => p \in Reported \cup {cur.pid}

\* "All clones/forks are followed" (docs/sensor-driver-extraction.md): a task is
\* tracked from its creator's event on, as long as it lives.
EachTracked ==
  Looping => \A p \in Live :
    \/ p \in DOMAIN pids
    \/ \E q \in Live : task[q].pos = "event" /\ task[q].call.child = p

\* "a thread peer can decode write()/ioctl()/read() on the fd that was opened in
\* this process" (src/ptrace.c): what is decoded is a write that was made, on the
\* file its descriptor referred to when it was made, whether it succeeded or not.
EachDecoded == decoded.file = decoded.real

\* The threads of one program are all followed, however they are reported.
AllFollowed == "fork" \notin world => EachTracked

\* Writes of threads are attributed to the right file if their stops are reported
\* in the order in which they happened.
Attribution == world \cap {"fork", "early", "reorder", "unmap"} = {} => EachDecoded

\* do_trace keeps in step with each task: a system call is noted from the handling
\* of its first stop to that of its second, and it is the same one.  A task must
\* not run before its creator's event is seen.
Parity ==
  Looping /\ "early" \notin world => \A p \in Live \cap DOMAIN pids :
    pids[p].syscall_num = IF task[p].pos \in {"call", "event", "return", "exit"}
                          THEN task[p].call.nr ELSE "0"

\* do_trace's tables: types, names held as long as they are used, and the same
\* slots for all tasks, however opens, closes, clones and deaths meet.
TablesSound == TypeOK /\ RefCountsSound /\ TablesAlike

\* do_trace and the tasks: all are tracked, all go on, and their system calls are
\* entered and left in step, wherever the world allows it.
Followed == NoneHangs /\ AllFollowed /\ Parity
=============================================================================
