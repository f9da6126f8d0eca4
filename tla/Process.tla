------------------------------- MODULE Process -------------------------------
(***************************************************************************)
(* The life of a process: PID allocation and the process table, fork,      *)
(* foreground exec, exit, fault, waitpid, sleep/wakeup, signals and        *)
(* schedule().                                                             *)
(*                                                                         *)
(* The kernel runs on one CPU and is cooperative: schedule() is reached    *)
(* only from sleep_on(), process_yield(), the two exit paths and the idle  *)
(* loop.  Everything a process does between two such points is one step of *)
(* this module, and every step is a step of the process `current'.  Timer  *)
(* interrupts touch virtual runtimes only; they are in module Scheduler.   *)
(*                                                                         *)
(* A process_t is named by its address, a member of Procs.  Addresses are  *)
(* reused after kfree(), so a stale pointer may equal the address of a     *)
(* newer process.  The run queue is the set of processes in the tree; that *)
(* schedule() takes one with the least vruntime is Scheduler's subject.    *)
(* The children of a process are a set; their sibling links are left out.  *)
(*                                                                         *)
(* An operator whose name ends in Bug is a wrong version of the definition *)
(* that follows it, kept to see that the properties notice.                *)
(***************************************************************************)
EXTENDS Integers, FiniteSets

CONSTANTS
  Procs,          \* addresses at which kmalloc may place a process_t
  NULL,           \* the null pointer
  Idle,           \* the process_t of PID 0
  InitProc,       \* the process_t made by create_init_process()
  MAX_PROCESSES,  \* slots of process_table
  Sigs,           \* signal numbers in use
  Handlers,       \* dispositions a program may install, of SigHandlers
  Statuses,       \* statuses passed to SYS_EXIT
  FaultCodes,     \* codes the fault handlers pass to process_exit()
  WaitTargets     \* first arguments of waitpid()

SigHandlers == {"SIG_DFL", "SIG_IGN", "user"}
SIGKILL == 9
SIGTERM == 15
SIGCHLD == 17
SIGSTOP == 19

ASSUME AddressAssumption ==
  /\ NULL \notin Procs
  /\ {Idle, InitProc} \subseteq Procs
  /\ Idle # InitProc
  /\ \A p \in Procs : p \notin Int      \* kernel addresses are not PIDs

ASSUME ParameterAssumption ==
  /\ MAX_PROCESSES \in Nat /\ MAX_PROCESSES > 2
  /\ Sigs \subseteq 1..63
  /\ Handlers \subseteq SigHandlers
  /\ Statuses \subseteq Int /\ FaultCodes \subseteq Int /\ WaitTargets \subseteq Int

VARIABLES
  process_table,  \* PID -> process_t or NULL
  next_pid,       \* where the next PID search starts
  runq,           \* the processes in the scheduler's tree
  current,        \* the process on the CPU
  ghost,          \* a process created with PID 0 because the table was full
  \* fields of process_t
  pid, ppid, parent, children, state, wait_channel,
  pending_signals, signal_handlers, exit_code,
  \* where the process is suspended in the kernel, and the argument it keeps there
  pc, arg

table_vars == <<process_table, next_pid, ghost>>
link_vars == <<pid, ppid, parent, children>>
signal_vars == <<pending_signals, signal_handlers>>
vars == <<process_table, next_pid, runq, current, ghost, pid, ppid, parent, children,
          state, wait_channel, pending_signals, signal_handlers, exit_code, pc, arg>>

Pids == 0..(MAX_PROCESSES - 1)
States == {"UNUSED", "READY", "RUNNING", "SLEEPING", "ZOMBIE"}
NoHandlers == [s \in Sigs |-> "SIG_DFL"]

\* The structures that have been allocated and not freed.
Registered == {p \in Procs : process_table[pid[p]] = p}
Live == Registered \cup ({ghost} \ {NULL})
-----------------------------------------------------------------------------
(***************************************************************************)
(* PID allocation: the first free slot at or after next_pid, wrapping once *)
(* past MAX_PROCESSES-1 to 1.  process_alloc() and process_alloc_pid()     *)
(* search in the same order.                                               *)
(***************************************************************************)
FreePids == {i \in Pids \ {0} : process_table[i] = NULL}

IsAllocated(i) ==
  /\ i \in FreePids
  /\ \A j \in FreePids : IF i >= next_pid THEN j < next_pid \/ i <= j
                                          ELSE j < next_pid /\ i <= j

\* next_pid does not wrap.
PidAfterBug(i) == i + 1

PidAfter(i) == IF i + 1 < MAX_PROCESSES THEN i + 1 ELSE 1

-----------------------------------------------------------------------------
\* The caller is requeued only if someone marked it READY before.
ScheduleBug(st, rq) ==
  LET requeued == pid[current] # 0 /\ st[current] = "READY"
      rq1 == IF requeued THEN rq \cup {current} ELSE rq
  IN  \E next \in (IF rq1 = {} THEN {process_table[0]} ELSE rq1) :
        /\ current' = next
        /\ runq' = rq1 \ {next}
        /\ state' = [st EXCEPT ![next] = "RUNNING"]

(***************************************************************************)
(* schedule(), entered with process states st and run queue rq: requeue    *)
(* the caller if it can still run and is not PID 0, pick a queued process, *)
(* fall back to PID 0.                                                     *)
(***************************************************************************)
Schedule(st, rq) ==
  LET requeued == pid[current] # 0 /\ st[current] \in {"RUNNING", "READY"}
      rq1 == IF requeued THEN rq \cup {current} ELSE rq
      st1 == IF requeued THEN [st EXCEPT ![current] = "READY"] ELSE st
  IN  \E next \in (IF rq1 = {} THEN {process_table[0]} ELSE rq1) :
        /\ current' = next
        /\ runq' = rq1 \ {next}
        /\ state' = [st1 EXCEPT ![next] = "RUNNING"]

\* wakeup(channel): every registered process sleeping on channel.
Sleepers(st, channel) ==
  {q \in Registered : st[q] = "SLEEPING" /\ wait_channel[q] = channel}

\* wakeup(channel) followed by schedule().
WakeupAndSchedule(st, rq, channel) ==
  LET woken == Sleepers(st, channel)
  IN  /\ wait_channel' = [q \in Procs |-> IF q \in woken THEN NULL ELSE wait_channel[q]]
      /\ Schedule([q \in Procs |-> IF q \in woken THEN "READY" ELSE st[q]], rq \cup woken)

\* sleep_on(channel), called by the current process.
SleepOn(channel) ==
  /\ wait_channel' = [wait_channel EXCEPT ![current] = channel]
  /\ Schedule([state EXCEPT ![current] = "SLEEPING"], runq \ {current})
-----------------------------------------------------------------------------
(***************************************************************************)
(* check_signals(): signals in increasing order; ignored ones are cleared  *)
(* and skipped, the first other one is cleared and handled.  Nothing sets  *)
(* blocked_signals, so every pending signal is deliverable.                *)
(***************************************************************************)
NotIgnored(p) == {s \in pending_signals[p] : signal_handlers[p][s] # "SIG_IGN"}

IsHandled(p, s) == s \in NotIgnored(p) /\ \A t \in NotIgnored(p) : s <= t

PendingAfterCheck(p) ==
  {s \in pending_signals[p] : \E t \in NotIgnored(p) : t < s}

\* The signals whose handling ends the process.
FatalSignals(p) ==
  {s \in Sigs : IsHandled(p, s) /\ signal_handlers[p][s] = "SIG_DFL" /\ s # SIGCHLD}

\* The status check_signals() passes to do_exit().
SignalStatus(s) == IF s \in {SIGKILL, SIGTERM} THEN -s ELSE 128 + s

\* The entry of a system call other than SYS_EXIT that check_signals() lets through.
EnterSyscall(p) ==
  /\ current = p
  /\ pc[p] = "user"
  /\ FatalSignals(p) = {}

\* pending_signals once check_signals() has run for p.
AfterEntry(p) == [pending_signals EXCEPT ![p] = PendingAfterCheck(p)]
-----------------------------------------------------------------------------
(***************************************************************************)
(* SYS_FORK.  The child is registered, linked to the parent and queued.    *)
(***************************************************************************)
Fork(p, c, i) ==
  /\ EnterSyscall(p)
  /\ c \notin Live /\ IsAllocated(i)
  /\ process_table' = [process_table EXCEPT ![i] = c]
  /\ next_pid' = PidAfter(i)
  /\ pid' = [pid EXCEPT ![c] = i]
  /\ ppid' = [ppid EXCEPT ![c] = pid[p]]
  /\ parent' = [parent EXCEPT ![c] = p]
  /\ children' = [children EXCEPT ![p] = @ \cup {c}]
  /\ state' = [state EXCEPT ![c] = "READY"]
  /\ runq' = runq \cup {c}
  /\ pending_signals' = AfterEntry(p)
  /\ UNCHANGED <<current, ghost, wait_channel, signal_handlers, exit_code, pc, arg>>

\* SYS_FORK or SYS_EXEC that fails: before a PID is taken, or after (the slot is
\* free again, next_pid has moved).
CreateFails(p) ==
  /\ EnterSyscall(p)
  /\ \/ next_pid' = next_pid
     \/ \E i \in FreePids : IsAllocated(i) /\ next_pid' = PidAfter(i)
  /\ pending_signals' = AfterEntry(p)
  /\ UNCHANGED <<process_table, runq, current, ghost, link_vars, state, wait_channel,
                 signal_handlers, exit_code, pc, arg>>

\* The new process is linked to its creator as a forked one is.
ExecBug(p, c, i, how) ==
  /\ EnterSyscall(p)
  /\ c \notin Live /\ IsAllocated(i)
  /\ process_table' = [process_table EXCEPT ![i] = c]
  /\ next_pid' = PidAfter(i)
  /\ pid' = [pid EXCEPT ![c] = i]
  /\ ppid' = [ppid EXCEPT ![c] = pid[p]]
  /\ parent' = [parent EXCEPT ![c] = p]
  /\ children' = [children EXCEPT ![p] = @ \cup {c}]
  /\ pc' = [pc EXCEPT ![p] = how]
  /\ arg' = [arg EXCEPT ![p] = i]
  /\ pending_signals' = AfterEntry(p)
  /\ Schedule([state EXCEPT ![c] = "READY"], runq \cup {c})
  /\ UNCHANGED <<ghost, wait_channel, signal_handlers, exit_code>>

(***************************************************************************)
(* SYS_EXEC: exec_run(cmd, 1) creates a process that is registered and     *)
(* queued but linked to no parent, then yields until it is a zombie.  It   *)
(* is destroyed by the caller, unless it runs through an interpreter.      *)
(***************************************************************************)
Exec(p, c, i, how) ==
  /\ EnterSyscall(p)
  /\ c \notin Live /\ IsAllocated(i)
  /\ process_table' = [process_table EXCEPT ![i] = c]
  /\ next_pid' = PidAfter(i)
  /\ pid' = [pid EXCEPT ![c] = i]
  /\ ppid' = [ppid EXCEPT ![c] = pid[p]]
  /\ pc' = [pc EXCEPT ![p] = how]
  /\ arg' = [arg EXCEPT ![p] = i]
  /\ pending_signals' = AfterEntry(p)
  /\ Schedule([state EXCEPT ![c] = "READY"], runq \cup {c})
  /\ UNCHANGED <<ghost, parent, children, wait_channel, signal_handlers, exit_code>>

\* process_register() stores a process under PID 0.
ExecTableFullBug(p, c, how) ==
  /\ EnterSyscall(p)
  /\ FreePids = {} /\ ghost = NULL /\ c \notin Live
  /\ process_table' = [process_table EXCEPT ![0] = c]
  /\ ghost' = c
  /\ pid' = [pid EXCEPT ![c] = 0]
  /\ ppid' = [ppid EXCEPT ![c] = pid[p]]
  /\ pc' = [pc EXCEPT ![p] = how]
  /\ arg' = [arg EXCEPT ![p] = 0]
  /\ pending_signals' = AfterEntry(p)
  /\ Schedule([state EXCEPT ![c] = "READY"], runq \cup {c})
  /\ UNCHANGED <<next_pid, parent, children, wait_channel, signal_handlers, exit_code>>

\* With the table full process_alloc_pid() returns 0, which process_create_with_args()
\* takes for a PID: the process is queued but process_register() refuses it.  At most
\* one such process is modelled (a second one would share its run-queue node).
ExecTableFull(p, c, how) ==
  /\ EnterSyscall(p)
  /\ FreePids = {} /\ ghost = NULL /\ c \notin Live
  /\ ghost' = c
  /\ pid' = [pid EXCEPT ![c] = 0]
  /\ ppid' = [ppid EXCEPT ![c] = pid[p]]
  /\ pc' = [pc EXCEPT ![p] = how]
  /\ arg' = [arg EXCEPT ![p] = 0]
  /\ pending_signals' = AfterEntry(p)
  /\ Schedule([state EXCEPT ![c] = "READY"], runq \cup {c})
  /\ UNCHANGED <<process_table, next_pid, parent, children, wait_channel,
                 signal_handlers, exit_code>>

\* The table slot is not cleared.
DestroyBug(p, c) ==
  /\ pid' = [pid EXCEPT ![c] = 0]
  /\ ppid' = [ppid EXCEPT ![c] = 0]
  /\ parent' = [parent EXCEPT ![c] = NULL]
  /\ state' = [state EXCEPT ![c] = "UNUSED"]
  /\ wait_channel' = [wait_channel EXCEPT ![c] = NULL]
  /\ signal_handlers' = [signal_handlers EXCEPT ![c] = NoHandlers]
  /\ exit_code' = [exit_code EXCEPT ![c] = 0]
  /\ pc' = [pc EXCEPT ![c] = "user", ![p] = "user"]
  /\ arg' = [arg EXCEPT ![c] = 0, ![p] = 0]
  /\ UNCHANGED <<process_table, next_pid, runq, current, ghost>>

\* process_destroy(c) by p, which then returns to user mode.  The model clears the
\* fields here that the code clears when the address is allocated again.
Destroy(p, c) ==
  /\ process_table' = [process_table EXCEPT ![pid[c]] = NULL]
  /\ pid' = [pid EXCEPT ![c] = 0]
  /\ ppid' = [ppid EXCEPT ![c] = 0]
  /\ parent' = [parent EXCEPT ![c] = NULL]
  /\ state' = [state EXCEPT ![c] = "UNUSED"]
  /\ wait_channel' = [wait_channel EXCEPT ![c] = NULL]
  /\ signal_handlers' = [signal_handlers EXCEPT ![c] = NoHandlers]
  /\ exit_code' = [exit_code EXCEPT ![c] = 0]
  /\ pc' = [pc EXCEPT ![c] = "user", ![p] = "user"]
  /\ arg' = [arg EXCEPT ![c] = 0, ![p] = 0]
  /\ UNCHANGED <<next_pid, runq, current, ghost>>

\* p goes back to user mode and nothing else happens.
ReturnToUser(p) ==
  /\ pc' = [pc EXCEPT ![p] = "user"]
  /\ arg' = [arg EXCEPT ![p] = 0]
  /\ UNCHANGED <<table_vars, link_vars, runq, current, state, wait_channel,
                 signal_handlers, exit_code>>

\* One turn of exec_run()'s wait loop.
ExecPoll(p) ==
  /\ current = p
  /\ pc[p] \in {"exec", "interp"}
  /\ LET q == process_table[arg[p]]
     IN  \/ /\ q # NULL /\ state[q] # "ZOMBIE"
            /\ Schedule(state, runq)
            /\ UNCHANGED <<table_vars, link_vars, wait_channel, signal_vars, exit_code,
                           pc, arg>>
         \/ /\ q = NULL \/ (state[q] = "ZOMBIE" /\ pc[p] = "interp")
            /\ ReturnToUser(p)
            /\ UNCHANGED pending_signals
         \/ /\ q # NULL /\ state[q] = "ZOMBIE" /\ pc[p] = "exec"
            /\ Destroy(p, q)
            /\ children' = [children EXCEPT ![q] = {}]
            /\ pending_signals' = [pending_signals EXCEPT ![q] = {}]
-----------------------------------------------------------------------------
(***************************************************************************)
(* do_waitpid().  Every process group is 0: pid 0 waits for any child,     *)
(* pid < -1 for none.                                                      *)
(***************************************************************************)
Matches(t, c) == t \in {-1, 0} \/ (t > 0 /\ pid[c] = t)

NoSuchChild(p, t) ==
  children[p] = {} \/ (t > 0 /\ \A c \in children[p] : pid[c] # t)

Reapable(p, t) == {c \in children[p] : Matches(t, c) /\ state[c] = "ZOMBIE"}

\* The zombie is destroyed but stays on the list.
ReapBug(p, c, pend) ==
  /\ Destroy(p, c)
  /\ children' = [children EXCEPT ![c] = {}]
  /\ pending_signals' = [pend EXCEPT ![c] = {}]

\* Unlink the zombie c from p's children and destroy it.
Reap(p, c, pend) ==
  /\ Destroy(p, c)
  /\ children' = [children EXCEPT ![p] = @ \ {c}, ![c] = {}]
  /\ pending_signals' = [pend EXCEPT ![c] = {}]

\* One turn of do_waitpid()'s loop, with pending signals pend on entry.
WaitLoop(p, t, nohang, pend) ==
  \/ /\ NoSuchChild(p, t)
     /\ ReturnToUser(p)
     /\ pending_signals' = pend
  \/ \E c \in Reapable(p, t) : ~NoSuchChild(p, t) /\ Reap(p, c, pend)
  \/ /\ ~NoSuchChild(p, t) /\ Reapable(p, t) = {} /\ nohang
     /\ ReturnToUser(p)
     /\ pending_signals' = pend
  \/ /\ ~NoSuchChild(p, t) /\ Reapable(p, t) = {} /\ ~nohang
     /\ pc' = [pc EXCEPT ![p] = "wait"]
     /\ arg' = [arg EXCEPT ![p] = t]
     /\ pending_signals' = pend
     /\ SleepOn(p)
     /\ UNCHANGED <<table_vars, link_vars, signal_handlers, exit_code>>

Waitpid(p, t, nohang) ==
  /\ EnterSyscall(p)
  /\ WaitLoop(p, t, nohang, AfterEntry(p))

\* Back from sleep_on(): the loop starts over.
WaitpidResume(p) ==
  /\ current = p
  /\ pc[p] = "wait"
  /\ WaitLoop(p, arg[p], FALSE, pending_signals)
-----------------------------------------------------------------------------
(***************************************************************************)
(* do_exit(status): hand the children to the process with PID 1 if there   *)
(* is one, become a zombie, wake the parent, schedule.                     *)
(***************************************************************************)
WaitStatus(status) ==
  IF status < 0 THEN (-status) % 128 ELSE (status % 256) * 256

\* The parent is not woken.
DoExitBug(p, status) ==
  LET init == process_table[1]
      kids == children[p]
  IN  /\ IF init = NULL
         THEN /\ children' = [children EXCEPT ![p] = {}]
              /\ UNCHANGED <<parent, ppid>>
         ELSE /\ children' = [children EXCEPT ![init] = @ \cup kids, ![p] = {}]
              /\ parent' = [c \in Procs |-> IF c \in kids THEN init ELSE parent[c]]
              /\ ppid' = [c \in Procs |-> IF c \in kids THEN pid[init] ELSE ppid[c]]
      /\ exit_code' = [exit_code EXCEPT ![p] = WaitStatus(status)]
      /\ Schedule([state EXCEPT ![p] = "ZOMBIE"], runq \ {p})
      /\ UNCHANGED <<table_vars, pid, signal_handlers, pc, arg, wait_channel>>

DoExit(p, status) ==
  LET init == process_table[1]
      kids == children[p]
      dead == [state EXCEPT ![p] = "ZOMBIE"]
  IN  /\ IF init = NULL
         THEN /\ children' = [children EXCEPT ![p] = {}]
              /\ UNCHANGED <<parent, ppid>>
         ELSE /\ children' = [children EXCEPT ![init] = @ \cup kids, ![p] = {}]
              /\ parent' = [c \in Procs |-> IF c \in kids THEN init ELSE parent[c]]
              /\ ppid' = [c \in Procs |-> IF c \in kids THEN pid[init] ELSE ppid[c]]
      /\ exit_code' = [exit_code EXCEPT ![p] = WaitStatus(status)]
      /\ IF parent'[p] # NULL
         THEN WakeupAndSchedule(dead, runq \ {p}, parent'[p])
         ELSE Schedule(dead, runq \ {p}) /\ UNCHANGED wait_channel
      /\ UNCHANGED <<table_vars, pid, signal_handlers, pc, arg>>

\* SYS_EXIT, the one system call that does not check signals first.
Exit(p, status) ==
  /\ current = p /\ pc[p] = "user"
  /\ DoExit(p, status)
  /\ UNCHANGED pending_signals

\* Any other system call by a process with a fatal signal pending.
DieBySignal(p) ==
  /\ current = p /\ pc[p] = "user"
  /\ \E s \in FatalSignals(p) : DoExit(p, SignalStatus(s))
  /\ pending_signals' = AfterEntry(p)

\* A fault in user mode: process_exit().  The children stay where they are and the
\* parent is looked up by PID.
ProcessExit(p, code) ==
  LET dead == [state EXCEPT ![p] = "ZOMBIE"]
      par == process_table[ppid[p]]
  IN  /\ current = p /\ pc[p] = "user"
      /\ exit_code' = [exit_code EXCEPT ![p] = code]
      /\ IF par # NULL
         THEN WakeupAndSchedule(dead, runq \ {p}, par)
         ELSE Schedule(dead, runq \ {p}) /\ UNCHANGED wait_channel
      /\ UNCHANGED <<table_vars, link_vars, signal_vars, pc, arg>>
-----------------------------------------------------------------------------
\* kernel_main()'s idle loop.
IdleLoop ==
  /\ current = Idle
  /\ Schedule(state, runq)
  /\ UNCHANGED <<table_vars, link_vars, wait_channel, signal_vars, exit_code, pc, arg>>

\* SYS_YIELD.
Yield(p) ==
  /\ EnterSyscall(p)
  /\ pending_signals' = AfterEntry(p)
  /\ Schedule(state, runq)
  /\ UNCHANGED <<table_vars, link_vars, wait_channel, signal_handlers, exit_code, pc, arg>>

\* SYS_SLEEP: process_sleep() sleeps on the caller's own PID as a channel.
Sleep(p) ==
  /\ EnterSyscall(p)
  /\ pending_signals' = AfterEntry(p)
  /\ pc' = [pc EXCEPT ![p] = "sleep"]
  /\ SleepOn(pid[p])
  /\ UNCHANGED <<table_vars, link_vars, signal_handlers, exit_code, arg>>

\* sleep_on() returned to process_sleep().
SleepReturn(p) ==
  /\ current = p
  /\ pc[p] = "sleep"
  /\ ReturnToUser(p)
  /\ UNCHANGED pending_signals

\* The woken target is not put into the run queue.
KillUnqueuedBug(p, i, s) ==
  LET q == process_table[i]
      entered == AfterEntry(p)
  IN  /\ EnterSyscall(p)
      /\ \/ /\ q = NULL
            /\ pending_signals' = entered
            /\ UNCHANGED <<state, runq>>
         \/ /\ q # NULL
            /\ pending_signals' = [entered EXCEPT ![q] = @ \cup {s}]
            /\ IF state[q] = "SLEEPING"
               THEN state' = [state EXCEPT ![q] = "READY"] /\ runq' = runq
               ELSE UNCHANGED <<state, runq>>
      /\ UNCHANGED <<table_vars, link_vars, current, wait_channel, signal_handlers,
                     exit_code, pc, arg>>

\* Whatever is not running is woken.
KillAnyBug(p, i, s) ==
  LET q == process_table[i]
      entered == AfterEntry(p)
  IN  /\ EnterSyscall(p)
      /\ \/ /\ q = NULL
            /\ pending_signals' = entered
            /\ UNCHANGED <<state, runq>>
         \/ /\ q # NULL
            /\ pending_signals' = [entered EXCEPT ![q] = @ \cup {s}]
            /\ IF state[q] # "RUNNING"
               THEN state' = [state EXCEPT ![q] = "READY"] /\ runq' = runq \cup {q}
               ELSE UNCHANGED <<state, runq>>
      /\ UNCHANGED <<table_vars, link_vars, current, wait_channel, signal_handlers,
                     exit_code, pc, arg>>

\* SYS_KILL: a sleeping target is queued, its wait_channel left as it is.
Kill(p, i, s) ==
  LET q == process_table[i]
      entered == AfterEntry(p)
  IN  /\ EnterSyscall(p)
      /\ \/ /\ q = NULL
            /\ pending_signals' = entered
            /\ UNCHANGED <<state, runq>>
         \/ /\ q # NULL
            /\ pending_signals' = [entered EXCEPT ![q] = @ \cup {s}]
            /\ IF state[q] = "SLEEPING"
               THEN state' = [state EXCEPT ![q] = "READY"] /\ runq' = runq \cup {q}
               ELSE UNCHANGED <<state, runq>>
      /\ UNCHANGED <<table_vars, link_vars, current, wait_channel, signal_handlers,
                     exit_code, pc, arg>>

\* Only SIGSTOP keeps its default action.
SignalBug(p, s, h) ==
  /\ EnterSyscall(p)
  /\ pending_signals' = AfterEntry(p)
  /\ signal_handlers' = IF s = SIGSTOP THEN signal_handlers
                        ELSE [signal_handlers EXCEPT ![p] = [@ EXCEPT ![s] = h]]
  /\ UNCHANGED <<table_vars, link_vars, runq, current, state, wait_channel, exit_code,
                 pc, arg>>

\* SYS_SIGNAL: SIGKILL and SIGSTOP keep their default action.
Signal(p, s, h) ==
  /\ EnterSyscall(p)
  /\ pending_signals' = AfterEntry(p)
  /\ signal_handlers' = IF s \in {SIGKILL, SIGSTOP} THEN signal_handlers
                        ELSE [signal_handlers EXCEPT ![p] = [@ EXCEPT ![s] = h]]
  /\ UNCHANGED <<table_vars, link_vars, runq, current, state, wait_channel, exit_code,
                 pc, arg>>
-----------------------------------------------------------------------------
(***************************************************************************)
(* After process_management_init() and create_init_process(): the idle     *)
(* process was allocated PID 1 and then renumbered 0, so PID 1 is free,    *)
(* the search for the next PID started at 2, and that is init's PID.       *)
(***************************************************************************)
Init ==
  /\ process_table = [i \in Pids |-> CASE i = 0 -> Idle [] i = 2 -> InitProc [] OTHER -> NULL]
  /\ next_pid = PidAfter(2)
  /\ runq = {InitProc}
  /\ current = Idle
  /\ ghost = NULL
  /\ pid = [p \in Procs |-> IF p = InitProc THEN 2 ELSE 0]
  /\ ppid = [p \in Procs |-> 0]
  /\ parent = [p \in Procs |-> NULL]
  /\ children = [p \in Procs |-> {}]
  /\ state = [p \in Procs |-> CASE p = Idle -> "RUNNING" [] p = InitProc -> "READY"
                                [] OTHER -> "UNUSED"]
  /\ wait_channel = [p \in Procs |-> NULL]
  /\ pending_signals = [p \in Procs |-> {}]
  /\ signal_handlers = [p \in Procs |-> NoHandlers]
  /\ exit_code = [p \in Procs |-> 0]
  /\ pc = [p \in Procs |-> IF p = Idle THEN "idle" ELSE "user"]
  /\ arg = [p \in Procs |-> 0]

\* The steps of one process.
Step(p) ==
  \/ \E c \in Procs, i \in Pids : Fork(p, c, i)
  \/ CreateFails(p)
  \/ \E c \in Procs, i \in Pids, how \in {"exec", "interp"} : Exec(p, c, i, how)
  \/ \E c \in Procs, how \in {"exec", "interp"} : ExecTableFull(p, c, how)
  \/ ExecPoll(p)
  \/ \E t \in WaitTargets, nohang \in BOOLEAN : Waitpid(p, t, nohang)
  \/ WaitpidResume(p)
  \/ \E status \in Statuses : Exit(p, status)
  \/ DieBySignal(p)
  \/ \E code \in FaultCodes : ProcessExit(p, code)
  \/ Yield(p)
  \/ Sleep(p)
  \/ SleepReturn(p)
  \/ \E i \in Pids, s \in Sigs : Kill(p, i, s)
  \/ \E s \in Sigs, h \in Handlers : Signal(p, s, h)

Next == IdleLoop \/ \E p \in Procs : Step(p)

Spec == Init /\ [][Next]_vars

\* A process waiting for the CPU is switched to.
PickUp(q) == q \in runq /\ Next /\ current' = q

(***************************************************************************)
(* Fairness.  A queued process is picked if it can be picked again and     *)
(* again: the others give up the CPU now and then, and the queue serves    *)
(* everyone (Scheduler's StarvationFree).  A process inside the kernel     *)
(* goes on when it has the CPU.                                            *)
(***************************************************************************)
FairSpec ==
  /\ Spec
  /\ WF_vars(IdleLoop)
  /\ \A q \in Procs : SF_vars(PickUp(q))
  /\ \A q \in Procs : WF_vars(WaitpidResume(q) \/ ExecPoll(q) \/ SleepReturn(q))
-----------------------------------------------------------------------------
\* The type of every variable.
TypeOK ==
  /\ process_table \in [Pids -> Procs \cup {NULL}]
  /\ next_pid \in Pids \ {0}
  /\ runq \subseteq Procs
  /\ current \in Procs
  /\ ghost \in Procs \cup {NULL}
  /\ pid \in [Procs -> Pids]
  /\ ppid \in [Procs -> Pids]
  /\ parent \in [Procs -> Procs \cup {NULL}]
  /\ children \in [Procs -> SUBSET Procs]
  /\ state \in [Procs -> States]
  /\ wait_channel \in [Procs -> Procs \cup {NULL} \cup Pids]
  /\ pending_signals \in [Procs -> SUBSET Sigs]
  /\ signal_handlers \in [Procs -> [Sigs -> SigHandlers]]
  /\ exit_code \in [Procs -> Int]
  /\ pc \in [Procs -> {"user", "wait", "sleep", "exec", "interp", "idle"}]
  /\ arg \in [Procs -> Int]

\* A process is in the run queue exactly when it is READY: fork, exec, wakeup, signals
\* and requeueing never leave a READY process out of the tree (it would never run
\* again) and never leave a sleeping, dead or freed one in it.
QueueHoldsReady == \A p \in Procs : p \in runq <=> state[p] = "READY"

\* The CPU's owner is RUNNING and no other process is, apart from the idle process
\* (schedule() never takes RUNNING away from PID 0) and one created with PID 0.
OneRunning ==
  /\ state[current] = "RUNNING"
  /\ \A p \in Procs : state[p] = "RUNNING" => p \in {current, Idle, ghost}

\* The table and the pid fields agree, so no two live processes share a PID, and a
\* structure is in use exactly while the table (or the run queue, for one created with
\* PID 0) holds it.
TableConsistent ==
  /\ \A i \in Pids : process_table[i] # NULL => pid[process_table[i]] = i
  /\ \A p \in Procs : state[p] # "UNUSED" <=> p \in Live

\* A children list never holds a freed structure and agrees with the parent and ppid
\* fields, so each process is on at most one list: waitpid() walks live memory, and
\* do_exit()'s and process_exit()'s wakeups go to the process that will reap.
ChildrenLinked ==
  \A p \in Procs : \A c \in children[p] :
    /\ {p, c} \subseteq Live
    /\ parent[c] = p
    /\ ppid[c] = pid[p]

\* No process sleeps in waitpid() while a child it waits for is already a zombie.  The
\* process with PID 1 is excepted: do_exit() hands it zombies without waking it.
NoLostWakeup ==
  \A p \in Registered :
    (pc[p] = "wait" /\ state[p] = "SLEEPING" /\ pid[p] # 1) => Reapable(p, arg[p]) = {}

\* The process a foreground exec waits for keeps its PID and its table slot until the
\* waiter has seen it die: nobody else reaps it, and no other exec waits for it.
ExecTargetStays ==
  \A p \in Procs : (pc[p] \in {"exec", "interp"} /\ state[p] # "ZOMBIE" /\ arg[p] # 0) =>
    /\ process_table[arg[p]] # NULL
    /\ \A q \in Procs : process_table[arg[p]] \notin children[q]
    /\ \A q \in Procs \ {p} : (pc[q] \in {"exec", "interp"} /\ state[q] # "ZOMBIE")
                                  => arg[q] # arg[p]

\* A zombie never runs again: it stays a zombie until its structure is freed.
ZombiesStayDead ==
  [][\A p \in Procs : state[p] = "ZOMBIE" => state'[p] \in {"ZOMBIE", "UNUSED"}]_vars

\* Whatever dispositions a program installs, once SIGKILL is the first signal
\* check_signals() finds, the next thing the process does in user mode ends it.
SigkillFinal ==
  [][\A p \in Procs :
       (current = p /\ pc[p] = "user" /\ IsHandled(p, SIGKILL)) => state'[p] = "ZOMBIE"]_vars

\* waitpid() and a foreground exec return once the process they wait for is dead: the
\* wakeup in do_exit(), the rescan after it and exec_run()'s polling together suffice.
\* (PID 1 is excepted as in NoLostWakeup.)
WaitersReturn ==
  \A q \in Procs :
    /\ (pc[q] = "wait" /\ pid[q] # 1 /\ Reapable(q, arg[q]) # {}) ~> (pc[q] = "user")
    /\ (/\ pc[q] \in {"exec", "interp"} /\ state[q] # "ZOMBIE" /\ arg[q] # 0
        /\ state[process_table[arg[q]]] = "ZOMBIE") ~> (pc[q] = "user")
-----------------------------------------------------------------------------
(***************************************************************************)
(* What the source's comments say and the code does not do.                *)
(***************************************************************************)
\* "Reparent children to init": no process that is still in the table has a parent
\* that has died.
OrphansAdopted ==
  \A c \in Registered : parent[c] # NULL => state[parent[c]] \notin {"ZOMBIE", "UNUSED"}

\* "Tick count for process_sleep": a process that sleeps for some time wakes up.
SleepEnds == \A p \in Procs : (pc[p] = "sleep") ~> (pc[p] = "user")
-----------------------------------------------------------------------------
(***************************************************************************)
(* What the safety properties need to be inductive.                        *)
(***************************************************************************)
\* PID 0 keeps its slot, never leaves RUNNING and never enters user mode.
IdleStays ==
  /\ process_table[0] = Idle
  /\ pid[Idle] = 0
  /\ state[Idle] = "RUNNING"
  /\ \A p \in Procs : pc[p] = "idle" <=> p = Idle

\* Neither PID 0 nor a process created with PID 0 is ever anyone's child.
PidZeroApart ==
  /\ ghost # NULL => pid[ghost] = 0 /\ ghost # Idle
  /\ \A p \in Procs : {Idle, ghost} \cap children[p] = {}

\* waitpid() sleeps on the caller's own address.
SleepsOnSelf ==
  \A p \in Procs : (pc[p] = "wait" /\ state[p] = "SLEEPING") => wait_channel[p] = p

\* exec_run() polls for a PID of the table.
PollsPid == \A p \in Procs : pc[p] \in {"exec", "interp"} => arg[p] \in Pids

\* The invariant the proofs are about: each step preserves it as a whole.
Inv ==
  /\ TypeOK /\ QueueHoldsReady /\ OneRunning /\ TableConsistent /\ ChildrenLinked
  /\ NoLostWakeup /\ ExecTargetStays
  /\ IdleStays /\ PidZeroApart /\ SleepsOnSelf /\ PollsPid
=============================================================================
