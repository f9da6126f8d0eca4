--------------------------- MODULE ProcessLemmas ----------------------------
(***************************************************************************)
(* What schedule(), sleeping, waking and signals keep of the invariant Inv *)
(* of module Process.                                                      *)
(***************************************************************************)
EXTENDS Process, TLAPS

Runnable == {"READY", "RUNNING"}

\* The step leaves every zombie a zombie or frees it.
ZombiesKept == \A q \in Procs : state[q] = "ZOMBIE" => state'[q] \in {"ZOMBIE", "UNUSED"}

\* schedule() may start from these process states st and this run queue rq.
MaySchedule(st, rq) ==
  /\ st \in [Procs -> States]
  /\ rq \subseteq Procs
  /\ \A p \in Procs : p \in rq <=> st[p] = "READY"
  /\ st[Idle] = "RUNNING"

\* What schedule() does to process states st.
Scheduled(st) ==
  /\ current' \in Procs
  /\ runq' \subseteq Procs
  /\ state' \in [Procs -> States]
  /\ \A p \in Procs : p \in runq' <=> state'[p] = "READY"
  /\ state'[current'] = "RUNNING"
  /\ \A p \in Procs : state'[p] = "RUNNING" =>
       \/ p = current'
       \/ st[p] = "RUNNING" /\ (p # current \/ pid[p] = 0)
  /\ state'[Idle] = "RUNNING"
  /\ \A p \in Procs : state'[p] = st[p] \/ (state'[p] \in Runnable /\ st[p] \in Runnable)

\* schedule() keeps the run queue equal to the READY processes and runs one process.
LEMMA ScheduleLemma ==
  ASSUME current \in Procs, process_table[0] = Idle, pid \in [Procs -> Pids], pid[Idle] = 0,
         NEW st, NEW rq, MaySchedule(st, rq), Schedule(st, rq)
  PROVE  Scheduled(st)
<1> DEFINE requeued == pid[current] # 0 /\ st[current] \in {"RUNNING", "READY"}
           rq1 == IF requeued THEN rq \cup {current} ELSE rq
           st1 == IF requeued THEN [st EXCEPT ![current] = "READY"] ELSE st
<1>1. PICK next \in (IF rq1 = {} THEN {process_table[0]} ELSE rq1) :
        current' = next /\ runq' = rq1 \ {next} /\ state' = [st1 EXCEPT ![next] = "RUNNING"]
  BY DEF Schedule
<1>2. /\ st1 \in [Procs -> States]
      /\ rq1 \subseteq Procs
      /\ \A p \in Procs : p \in rq1 <=> st1[p] = "READY"
      /\ \A p \in Procs : st1[p] = st[p] \/ (st1[p] \in Runnable /\ st[p] \in Runnable)
      /\ \A p \in Procs : st1[p] = "RUNNING" => st[p] = "RUNNING" /\ (p # current \/ pid[p] = 0
                                 \/ st[current] \notin {"RUNNING", "READY"})
      /\ st1[Idle] = "RUNNING"
  BY AddressAssumption DEF MaySchedule, States, Runnable
<1>3. next \in Procs /\ st1[next] \in Runnable
  BY <1>1, <1>2, AddressAssumption DEF Runnable
<1> QED BY <1>1, <1>2, <1>3, AddressAssumption DEF Scheduled, Runnable, States

-----------------------------------------------------------------------------
\* The part of the invariant about the table and the links between processes.
Links == TableConsistent /\ ChildrenLinked /\ IdleStays /\ PidZeroApart

\* A live process with PID 0 is the idle process or the one created with PID 0.
LEMMA PidZero ==
  ASSUME Inv, NEW p \in Procs, pid[p] = 0, state[p] # "UNUSED"
  PROVE  p \in {Idle, ghost}
  BY DEF Inv, TableConsistent, IdleStays, Live, Registered

\* The current process is live and is not the idle process when it is in user mode.
LEMMA CurrentLive ==
  ASSUME Inv
  PROVE  /\ current \in Live
         /\ state[current] = "RUNNING"
         /\ pc[current] # "idle" => current # Idle
  BY DEF Inv, TypeOK, OneRunning, TableConsistent, IdleStays

\* The scheduling invariants after schedule(), when nobody else was made RUNNING.
LEMMA RunningKept ==
  ASSUME Inv, NEW st, Scheduled(st), st \in [Procs -> States],
         \A p \in Procs : st[p] = "RUNNING" => state[p] = "RUNNING",
         ghost' = ghost \/ ghost = NULL
  PROVE  QueueHoldsReady' /\ OneRunning'
<1>1. QueueHoldsReady'
  BY DEF Scheduled, QueueHoldsReady
<1>2. ASSUME NEW p \in Procs, state'[p] = "RUNNING"
      PROVE  p \in {current', Idle, ghost'}
  <2>1. CASE st[p] = "RUNNING" /\ p # current
    BY <2>1, AddressAssumption DEF Inv, OneRunning
  <2>2. CASE st[p] = "RUNNING" /\ pid[p] = 0
    <3>1. state[p] # "UNUSED"
      BY <2>2
    <3> QED BY <2>2, <3>1, PidZero, AddressAssumption
  <2> QED BY <1>2, <2>1, <2>2 DEF Scheduled
<1> QED BY <1>1, <1>2 DEF Scheduled, OneRunning

\* Steps that leave the table and the links alone, and free or allocate nothing.
LEMMA LinksKept ==
  ASSUME Inv, UNCHANGED <<process_table, ghost, pid, ppid, parent, children>>,
         \A p \in Procs : state'[p] = "UNUSED" <=> state[p] = "UNUSED",
         state'[Idle] = "RUNNING",
         \A p \in Procs : pc'[p] = "idle" <=> pc[p] = "idle"
  PROVE  Links'
<1>1. Live' = Live
  BY DEF Live, Registered
<1> QED BY <1>1 DEF Inv, Links, TableConsistent, ChildrenLinked, IdleStays, PidZeroApart

\* Steps after which the processes asleep in waitpid() are those that were, or have just
\* found no zombie to reap.
LEMMA WaitKept ==
  ASSUME Inv, UNCHANGED <<process_table, pid, children>>,
         \A p \in Procs : state'[p] = "ZOMBIE" => state[p] = "ZOMBIE",
         \A p \in Procs : pc'[p] = "wait" /\ state'[p] = "SLEEPING" =>
           \/ /\ pc[p] = "wait" /\ state[p] = "SLEEPING"
              /\ arg'[p] = arg[p] /\ wait_channel'[p] = wait_channel[p]
           \/ Reapable(p, arg'[p]) = {} /\ wait_channel'[p] = p
  PROVE  NoLostWakeup' /\ SleepsOnSelf'
<1>1. SleepsOnSelf'
  BY DEF Inv, SleepsOnSelf
<1>2. ASSUME NEW p \in Procs, p \in Registered',
             pc'[p] = "wait", state'[p] = "SLEEPING", pid'[p] # 1
      PROVE  Reapable(p, arg[p])' = {}
  <2>1. p \in Registered
    BY <1>2 DEF Registered
  <2>2. Reapable(p, arg'[p]) = {}
    BY <1>2, <2>1 DEF Inv, NoLostWakeup
  <2>3. \A c \in children[p] : Matches(arg[p], c)' <=> Matches(arg'[p], c)
    BY DEF Matches
  <2>4. children[p] \subseteq Procs
    BY DEF Inv, TypeOK
  <2> QED BY <2>2, <2>3, <2>4 DEF Reapable
<1>3. Registered' \subseteq Procs
  BY DEF Registered
<1> QED BY <1>1, <1>2, <1>3 DEF NoLostWakeup

\* Steps after which the processes polling for an exec'd process are among those that were.
LEMMA ExecKept ==
  ASSUME Inv, UNCHANGED <<process_table, children>>,
         \A p \in Procs : pc'[p] \in {"exec", "interp"} =>
           pc[p] \in {"exec", "interp"} /\ arg'[p] = arg[p],
         \A p \in Procs : state[p] = "ZOMBIE" => state'[p] = "ZOMBIE"
  PROVE  ExecTargetStays' /\ PollsPid'
  BY DEF Inv, ExecTargetStays, PollsPid

-----------------------------------------------------------------------------
\* schedule() may be called with the states and the queue as they are.
LEMMA MayScheduleNow ==
  ASSUME Inv
  PROVE  MaySchedule(state, runq)
  BY DEF Inv, TypeOK, QueueHoldsReady, IdleStays, MaySchedule

\* schedule() in a state that satisfies the invariant.
LEMMA ScheduleInv ==
  ASSUME Inv, NEW st, NEW rq, MaySchedule(st, rq), Schedule(st, rq)
  PROVE  Scheduled(st)
  BY ScheduleLemma DEF Inv, TypeOK, IdleStays

\* check_signals() removes signals only.
LEMMA EntryType ==
  ASSUME Inv, NEW p \in Procs
  PROVE  AfterEntry(p) \in [Procs -> SUBSET Sigs]
<1>1. PendingAfterCheck(p) \subseteq pending_signals[p]
  BY DEF PendingAfterCheck
<1> QED BY <1>1 DEF Inv, TypeOK, AfterEntry

\* schedule() called with nothing else changed.
LEMMA PlainSchedule ==
  ASSUME Inv, Schedule(state, runq),
         UNCHANGED <<process_table, next_pid, ghost, pid, ppid, parent, children, wait_channel,
                     signal_handlers, exit_code, pc, arg>>,
         pending_signals' \in [Procs -> SUBSET Sigs]
  PROVE  Inv' /\ ZombiesKept
<1>1. Scheduled(state)
  BY MayScheduleNow, ScheduleInv
<1>2. TypeOK'
  BY <1>1 DEF Inv, TypeOK, Scheduled
<1>3. QueueHoldsReady' /\ OneRunning'
  BY <1>1, RunningKept DEF Inv, TypeOK
<1>4. \A p \in Procs : /\ state'[p] = "UNUSED" <=> state[p] = "UNUSED"
                       /\ state'[p] = "ZOMBIE" <=> state[p] = "ZOMBIE"
                       /\ state'[p] = "SLEEPING" <=> state[p] = "SLEEPING"
  BY <1>1 DEF Scheduled, Runnable
<1>5. Links'
  BY <1>1, <1>4, LinksKept DEF Scheduled
<1>6. NoLostWakeup' /\ SleepsOnSelf'
  BY <1>4, WaitKept
<1>7. ExecTargetStays' /\ PollsPid'
  BY <1>4, ExecKept
<1> QED BY <1>2, <1>3, <1>4, <1>5, <1>6, <1>7 DEF Inv, Links, ZombiesKept

\* sleep_on() called by the current process from SYS_SLEEP, or from waitpid() when there is
\* nothing to reap.
LEMMA SleepOnInv ==
  ASSUME Inv, NEW channel \in Procs \cup {NULL} \cup Pids, SleepOn(channel), pc[current] # "idle",
         UNCHANGED <<process_table, next_pid, ghost, pid, ppid, parent, children,
                     signal_handlers, exit_code>>,
         pending_signals' \in [Procs -> SUBSET Sigs],
         NEW where \in {"wait", "sleep"}, pc' = [pc EXCEPT ![current] = where],
         arg' \in [Procs -> Int], \A p \in Procs : p # current => arg'[p] = arg[p],
         where = "wait" => channel = current /\ Reapable(current, arg'[current]) = {}
  PROVE  Inv' /\ ZombiesKept
<1> DEFINE st == [state EXCEPT ![current] = "SLEEPING"]
<1>0. current \in Procs /\ current # Idle /\ state[current] = "RUNNING" /\ current \notin runq
  BY CurrentLive DEF Inv, TypeOK, QueueHoldsReady
<1>1. MaySchedule(st, runq \ {current})
  BY <1>0, MayScheduleNow DEF MaySchedule, States
<1>2. Scheduled(st)
  BY <1>1, ScheduleInv DEF SleepOn
<1>3. TypeOK'
  BY <1>0, <1>2 DEF Inv, TypeOK, Scheduled, SleepOn
<1>4. QueueHoldsReady' /\ OneRunning'
  <2>1. st \in [Procs -> States]
    BY <1>1 DEF MaySchedule
  <2>2. \A p \in Procs : st[p] = "RUNNING" => state[p] = "RUNNING"
    BY <1>0 DEF Inv, TypeOK
  <2> HIDE DEF st
  <2> QED BY <1>2, <2>1, <2>2, RunningKept
<1>5. \A p \in Procs : /\ state'[p] = "UNUSED" <=> state[p] = "UNUSED"
                       /\ state'[p] = "ZOMBIE" <=> state[p] = "ZOMBIE"
                       /\ p # current /\ state'[p] = "SLEEPING" => state[p] = "SLEEPING"
  <2>1. \A p \in Procs : st[p] = IF p = current THEN "SLEEPING" ELSE state[p]
    BY DEF Inv, TypeOK
  <2> HIDE DEF st
  <2> QED BY <1>0, <1>2, <2>1 DEF Scheduled, Runnable
<1>6. Links'
  BY <1>0, <1>2, <1>5, LinksKept DEF Scheduled, Inv, TypeOK
<1>7. NoLostWakeup' /\ SleepsOnSelf'
  <2>1. \A p \in Procs : pc'[p] = "wait" /\ state'[p] = "SLEEPING" =>
           \/ /\ pc[p] = "wait" /\ state[p] = "SLEEPING"
              /\ arg'[p] = arg[p] /\ wait_channel'[p] = wait_channel[p]
           \/ Reapable(p, arg'[p]) = {} /\ wait_channel'[p] = p
    BY <1>0, <1>5 DEF SleepOn, Inv, TypeOK
  <2> QED BY <1>5, <2>1, WaitKept
<1>8. ExecTargetStays' /\ PollsPid'
  BY <1>0, <1>5, ExecKept DEF Inv, TypeOK
<1> QED BY <1>3, <1>4, <1>5, <1>6, <1>7, <1>8 DEF Inv, Links, ZombiesKept

\* A step that changes neither states nor links, in which the current process stays where it
\* is or returns to user mode.
LEMMA QuietInv ==
  ASSUME Inv, UNCHANGED <<process_table, ghost, pid, ppid, parent, children, runq, current, state,
                          wait_channel, exit_code>>,
         next_pid' \in Pids \ {0},
         pending_signals' \in [Procs -> SUBSET Sigs],
         signal_handlers' \in [Procs -> [Sigs -> SigHandlers]],
         \/ UNCHANGED <<pc, arg>>
         \/ /\ pc[current] # "idle"
            /\ pc' = [pc EXCEPT ![current] = "user"] /\ arg' = [arg EXCEPT ![current] = 0]
  PROVE  Inv' /\ ZombiesKept
<1>0. current \in Procs /\ state[current] = "RUNNING"
  BY CurrentLive DEF Inv, TypeOK
<1>1. TypeOK'
  BY <1>0 DEF Inv, TypeOK
<1>2. QueueHoldsReady' /\ OneRunning'
  BY DEF Inv, QueueHoldsReady, OneRunning
<1>3. \A p \in Procs : pc'[p] = "idle" <=> pc[p] = "idle"
  BY <1>0 DEF Inv, TypeOK
<1>4. Links'
  BY <1>3, LinksKept DEF Inv, IdleStays
<1>5. NoLostWakeup' /\ SleepsOnSelf'
  BY <1>0, WaitKept DEF Inv, TypeOK
<1>6. ExecTargetStays' /\ PollsPid'
  BY <1>0, ExecKept DEF Inv, TypeOK
<1> QED BY <1>1, <1>2, <1>4, <1>5, <1>6 DEF Inv, Links, ZombiesKept

LEMMA CreateFailsInv ==
  ASSUME Inv, NEW p \in Procs, CreateFails(p)
  PROVE  Inv' /\ ZombiesKept
<1>1. next_pid' \in Pids \ {0}
  BY ParameterAssumption DEF CreateFails, Inv, TypeOK, FreePids, PidAfter, Pids
<1>2. pending_signals' \in [Procs -> SUBSET Sigs]
  BY EntryType DEF CreateFails
<1>3. signal_handlers' \in [Procs -> [Sigs -> SigHandlers]]
  BY DEF CreateFails, Inv, TypeOK
<1> QED BY <1>1, <1>2, <1>3, QuietInv DEF CreateFails, link_vars

LEMMA SignalInv ==
  ASSUME Inv, NEW p \in Procs, NEW s \in Sigs, NEW h \in Handlers, Signal(p, s, h)
  PROVE  Inv' /\ ZombiesKept
<1>1. pending_signals' \in [Procs -> SUBSET Sigs]
  BY EntryType DEF Signal
<1>2. signal_handlers' \in [Procs -> [Sigs -> SigHandlers]]
  BY ParameterAssumption DEF Signal, Inv, TypeOK
<1>3. next_pid' \in Pids \ {0}
  BY DEF Signal, table_vars, Inv, TypeOK
<1> QED BY <1>1, <1>2, <1>3, QuietInv DEF Signal, link_vars, table_vars

\* The return to user mode of the current process.
LEMMA ReturnInv ==
  ASSUME Inv, ReturnToUser(current), pc[current] # "idle",
         pending_signals' \in [Procs -> SUBSET Sigs]
  PROVE  Inv' /\ ZombiesKept
<1>1. signal_handlers' \in [Procs -> [Sigs -> SigHandlers]] /\ next_pid' \in Pids \ {0}
  BY DEF ReturnToUser, table_vars, Inv, TypeOK
<1> QED BY <1>1, QuietInv DEF ReturnToUser, link_vars, table_vars

LEMMA KillInv ==
  ASSUME Inv, NEW p \in Procs, NEW i \in Pids, NEW s \in Sigs, Kill(p, i, s)
  PROVE  Inv' /\ ZombiesKept
<1> DEFINE q == process_table[i]
<1>0. /\ UNCHANGED <<process_table, next_pid, ghost, pid, ppid, parent, children, current,
                     wait_channel, signal_handlers, exit_code, pc, arg>>
      /\ AfterEntry(p) \in [Procs -> SUBSET Sigs]
      /\ q \in Procs \cup {NULL}
  BY EntryType DEF Kill, table_vars, link_vars, Inv, TypeOK
<1>1. CASE q # NULL /\ state[q] = "SLEEPING"
  <2>0. q \in Procs
    BY <1>0, <1>1
  <2>1. /\ pending_signals' = [AfterEntry(p) EXCEPT ![q] = @ \cup {s}]
        /\ state' = [state EXCEPT ![q] = "READY"] /\ runq' = runq \cup {q}
    BY <1>1 DEF Kill
  <2>2. pending_signals' \in [Procs -> SUBSET Sigs]
    BY <1>0, <2>0, <2>1
  <2>3. TypeOK'
    BY <1>0, <2>0, <2>1, <2>2 DEF Inv, TypeOK, States
  <2>4. QueueHoldsReady' /\ OneRunning'
    BY <1>0, <1>1, <2>0, <2>1 DEF Inv, TypeOK, QueueHoldsReady, OneRunning
  <2>5. Links'
    BY <1>0, <1>1, <2>0, <2>1, LinksKept DEF Inv, TypeOK, IdleStays
  <2>6. NoLostWakeup' /\ SleepsOnSelf'
    BY <1>0, <2>0, <2>1, WaitKept DEF Inv, TypeOK
  <2>7. ExecTargetStays' /\ PollsPid'
    BY <1>0, <1>1, <2>0, <2>1, ExecKept DEF Inv, TypeOK
  <2>8. ZombiesKept
    BY <1>1, <2>0, <2>1 DEF ZombiesKept, Inv, TypeOK
  <2> QED BY <2>3, <2>4, <2>5, <2>6, <2>7, <2>8 DEF Inv, Links
<1>2. CASE ~(q # NULL /\ state[q] = "SLEEPING")
  <2>1. UNCHANGED <<state, runq>>
    BY <1>2 DEF Kill
  <2>2. pending_signals' \in [Procs -> SUBSET Sigs]
    <3>1. CASE q = NULL
      BY <1>0, <3>1 DEF Kill
    <3>2. CASE q # NULL
      <4>1. pending_signals' = [AfterEntry(p) EXCEPT ![q] = @ \cup {s}]
        BY <3>2 DEF Kill
      <4>2. q \in Procs
        BY <1>0, <3>2
      <4> QED BY <1>0, <4>1, <4>2
    <3> QED BY <3>1, <3>2
  <2>3. signal_handlers' \in [Procs -> [Sigs -> SigHandlers]] /\ next_pid' \in Pids \ {0}
    BY <1>0 DEF Inv, TypeOK
  <2> QED BY <1>0, <2>1, <2>2, <2>3, QuietInv
<1> QED BY <1>1, <1>2
=============================================================================
