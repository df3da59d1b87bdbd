------------------------------- MODULE Tracees -------------------------------
(***************************************************************************)
(* What `ipctool trace` watches: processes and threads that open, close    *)
(* and write files, start others and die, and the kernel, which stops them *)
(* at each end of a system call and when they were created, and reports    *)
(* each stop and each death to the tracer once.                            *)
(***************************************************************************)
EXTENDS Integers, FiniteSets

CONSTANTS
  Pids, Root,    \* process and thread identifiers, given out in order; the program traced
  Files, Std,    \* files that are opened; the one that is open at first
  NumFds,        \* descriptors of a process
  MaxCalls,      \* bound: system calls of all processes together
  Worlds         \* what may happen besides threads that share their descriptors

Phenomena == {"fork",      \* processes that have descriptors of their own
              "early",     \* a new task is seen before its creator's event
              "reorder",   \* reports of several tasks are waited for in any order
              "guess",     \* a descriptor is used before the call that opened it returns
              "unmap",     \* the memory that holds a name is gone after the call
              "kill"}      \* a whole process dies at any moment

None == "none"

ASSUME TraceesAssumption ==
  /\ IsFiniteSet(Pids) /\ Pids \subseteq Nat \ {0} /\ Root \in Pids /\ \A p \in Pids : Root <= p
  /\ NumFds \in Nat \ {0} /\ MaxCalls \in Nat
  /\ None \notin Files
  /\ Worlds \subseteq SUBSET Phenomena

Fds    == 0 .. NumFds - 1
NoFd   == -1                      \* an error, or a number that is no descriptor
Results == Fds \cup {NoFd, 1}     \* of a call: a descriptor, an error, a count of bytes
NoPid  == 0
Init1  == -1                      \* the process that adopts orphans
Me     == -2                      \* the tracer, parent of the program traced
Writing == {"write", "writev"}    \* the C library's write() makes one or the other
NoCall == [nr |-> "0", fd |-> NoFd, file |-> None, child |-> NoPid]

VARIABLES
  world,     \* one of Worlds, from the start to the end
  task,      \* pid -> [pos, tgid, ppid, call, ret]; threads share tgid
  fdtab,     \* tgid -> descriptor -> file
  reports,   \* pid -> the place of its stop or death among those that the tracer
             \* has not waited for, 0 if it has none
  ncalls     \* system calls made so far

worldVars == <<world, task, fdtab, reports, ncalls>>

(* Where a task is. *)
Stopped == {"init", "enter", "event", "exit"}   \* waits for PTRACE_SYSCALL
Live    == {p \in Pids : task[p].pos \notin {None, "dead", "gone"}}
Unborn  == [pos |-> None, tgid |-> NoPid, ppid |-> NoPid, call |-> NoCall, ret |-> NoFd]

\* Where PTRACE_SYSCALL lets a stopped task go on.
Resumed(t) ==
  IF t.pos \notin Stopped THEN t
  ELSE [t EXCEPT !.pos = [init |-> "user", enter |-> "call", event |-> "return", exit |-> "user"][@],
                 !.call = IF t.pos \in {"init", "exit"} THEN NoCall ELSE @]

\* What PTRACE_GETREGS shows at a stop: the call, its first argument, its
\* filename argument; at the exit its result instead.
RegsOf(t) ==
  IF t.pos = "enter" THEN [nr |-> t.call.nr, r0 |-> t.call.fd, file |-> t.call.file]
  ELSE [nr |-> t.call.nr, r0 |-> t.ret, file |-> None]

\* The program traced has been started, or could not be: then it has ended.
WorldInit ==
  /\ world \in Worlds
  /\ \E pos \in {"user", "gone"} :
       task = [p \in Pids |-> IF p = Root
                 THEN [Unborn EXCEPT !.pos = pos, !.tgid = Root, !.ppid = Me]
                 ELSE Unborn]
  /\ fdtab = [p \in Pids |-> [fd \in Fds |-> IF p = Root /\ fd = 0 THEN Std ELSE None]]
  /\ reports = [p \in Pids |-> 0] /\ ncalls = 0

-----------------------------------------------------------------------------
(* The queue of reports. *)

Reported == {p \in Pids : reports[p] # 0}

\* The reports of the tasks in S alone, in the order they had.
Kept(S) ==
  [p \in Pids |-> IF p \notin S THEN 0
                  ELSE Cardinality({q \in S : reports[q] # 0 /\ reports[q] <= reports[p]})]

\* New reports of the tasks in S after all others.
Report(S) ==
  [p \in Pids |-> IF p \in S THEN Cardinality(Reported \ S) + Cardinality({q \in S : q <= p})
                  ELSE Kept(Pids \ S)[p]]

-----------------------------------------------------------------------------
Pending(fd) == \E q \in Live : task[q].pos = "exit" /\ task[q].call.nr = "open" /\ task[q].ret = fd

Calls(p) ==
  [nr : {"open"}, fd : {NoFd}, file : Files, child : {NoPid}]
    \cup [nr : {"close"}, fd : Fds, file : {None}, child : {NoPid}]
    \cup [nr : Writing, fd : {fd \in Fds : fdtab[task[p].tgid][fd] # None},
          file : {None}, child : {NoPid}]
    \cup [nr : {"clone"} \cup ({"fork"} \cap world), fd : {NoFd}, file : {None}, child : {NoPid}]

EnterCall(p) ==
  /\ task[p].pos = "user" /\ ncalls < MaxCalls /\ ncalls' = ncalls + 1
  /\ \E call \in Calls(p) :
       task' = [task EXCEPT ![p].pos = "enter", ![p].call = call, ![p].ret = NoFd]
  /\ reports' = Report({p})
  /\ UNCHANGED fdtab

Lowest(S) == CHOOSE x \in S : \A y \in S : x <= y

FreeFd(tab) ==
  LET free == {fd \in Fds : tab[fd] = None} IN IF free = {} THEN NoFd ELSE Lowest(free)

DoOpen(p) ==
  /\ task[p].pos = "call" /\ task[p].call.nr = "open"
  /\ LET g == task[p].tgid
         fd == FreeFd(fdtab[g])
     IN  /\ task' = [task EXCEPT ![p].pos = "exit", ![p].ret = fd]
         /\ fdtab' = IF fd = NoFd THEN fdtab ELSE [fdtab EXCEPT ![g][fd] = task[p].call.file]
  /\ reports' = Report({p})
  /\ UNCHANGED ncalls

DoClose(p) ==
  /\ task[p].pos = "call" /\ task[p].call.nr = "close"
  /\ fdtab' = [fdtab EXCEPT ![task[p].tgid][task[p].call.fd] = None]
  /\ task' = [task EXCEPT ![p].pos = "exit", ![p].ret = 0]
  /\ reports' = Report({p})
  /\ UNCHANGED ncalls

\* The call remembers the file it was made on; it writes a byte or fails, on a
\* file that is open too.
DoWrite(p) ==
  /\ task[p].pos = "call" /\ task[p].call.nr \in Writing
  /\ "guess" \in world \/ ~Pending(task[p].call.fd)
  /\ LET file == fdtab[task[p].tgid][task[p].call.fd] IN
       \E ret \in IF file = None THEN {NoFd} ELSE {NoFd, 1} :
         task' = [task EXCEPT ![p].pos = "exit", ![p].call.file = file, ![p].ret = ret]
  /\ reports' = Report({p})
  /\ UNCHANGED <<fdtab, ncalls>>

\* A thread joins its creator's group and has its parent; a forked process has
\* its creator for a parent and a copy of its descriptors.  Both tasks stop.
DoClone(p) ==
  /\ task[p].pos = "call" /\ task[p].call.nr \in {"clone", "fork"}
  /\ LET free == {q \in Pids : task[q].pos = None}
         q == Lowest(free)
         g == task[p].tgid
         child == IF task[p].call.nr = "clone"
                  THEN [Unborn EXCEPT !.pos = "init", !.tgid = g, !.ppid = task[p].ppid]
                  ELSE [Unborn EXCEPT !.pos = "init", !.tgid = q, !.ppid = g]
     IN  IF free = {}
         THEN /\ task' = [task EXCEPT ![p].pos = "exit"]     \* EAGAIN
              /\ reports' = Report({p})
              /\ UNCHANGED fdtab
         ELSE /\ task' = [task EXCEPT ![p].pos = "event", ![p].call.child = q, ![q] = child]
              /\ fdtab' = IF child.tgid = g THEN fdtab ELSE [fdtab EXCEPT ![q] = fdtab[g]]
              /\ reports' = Report({p, q})
  /\ UNCHANGED ncalls

CloneReturns(p) ==
  /\ task[p].pos = "return"
  /\ task' = [task EXCEPT ![p].pos = "exit"]
  /\ reports' = Report({p})
  /\ UNCHANGED <<fdtab, ncalls>>

\* The tasks in gone die; orphans are adopted.  A thread group is gone when its
\* last thread is.
Die(gone) ==
  LET dead == {g \in Pids : ~\E p \in Live \ gone : task[p].tgid = g} IN
  /\ task' = [p \in Pids |->
       IF p \in gone THEN [task[p] EXCEPT !.pos = "dead", !.call = NoCall, !.ret = NoFd]
       ELSE IF task[p].ppid \in dead THEN [task[p] EXCEPT !.ppid = Init1]
       ELSE task[p]]
  /\ reports' = Report(gone)
  /\ UNCHANGED <<fdtab, ncalls>>

Exits(p) == task[p].pos = "user" /\ Die({p})

\* exit_group or a fatal signal: every thread dies, wherever it is.
Killed(g) ==
  /\ "kill" \in world
  /\ LET gone == {p \in Live : task[p].tgid = g} IN gone # {} /\ Die(gone)

\* The death of a leader is reported after those of its threads.
Reportable(p) ==
  task[p].pos = "dead" /\ task[p].tgid = p =>
    \A q \in Pids \ {p} : task[q].tgid = p => task[q].pos = "gone"

Early(p) == \E q \in Live : task[q].pos = "event" /\ task[q].call.child = p

\* What waitpid may return: the first report, or others.
Waitable ==
  LET ready == {p \in Reported : Reportable(p)}
  IN  {p \in ready :
         \/ \A q \in ready : reports[p] <= reports[q]
         \/ "early" \in world /\ Early(p)
         \/ "reorder" \in world /\ ~Early(p)}

WorldStep ==
  /\ UNCHANGED world
  /\ \E p \in Pids :
       \/ EnterCall(p) \/ DoOpen(p) \/ DoClose(p) \/ DoWrite(p) \/ DoClone(p)
       \/ CloneReturns(p) \/ Exits(p) \/ Killed(p)
=============================================================================
