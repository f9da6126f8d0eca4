--------------------------- MODULE ProcessProofs ----------------------------
(***************************************************************************)
(* The death of a process preserves the invariant Inv of module Process,   *)
(* and so does every other step, for every number of processes, PIDs,      *)
(* signals and statuses.                                                   *)
(***************************************************************************)
EXTENDS ProcessCreation, ProcessReaping

\* The current process has become a zombie, the processes of woken have been woken, and
\* schedule() has run.
Died(woken) ==
  /\ current' \in Procs /\ runq' \subseteq Procs /\ state' \in [Procs -> States]
  /\ wait_channel' \in [Procs -> Procs \cup {NULL} \cup Pids]
  /\ QueueHoldsReady' /\ OneRunning'
  /\ state'[Idle] = "RUNNING"
  /\ \A q \in Procs : /\ state'[q] = "UNUSED" <=> state[q] = "UNUSED"
                      /\ state'[q] = "ZOMBIE" <=> state[q] = "ZOMBIE" \/ q = current
                      /\ state'[q] = "SLEEPING" =>
                           /\ state[q] = "SLEEPING" /\ q \notin woken
                           /\ wait_channel'[q] = wait_channel[q]

\* schedule() once the current process is a zombie and some sleepers are READY.
LEMMA DieSchedule ==
  ASSUME Inv, current # Idle, ghost' = ghost,
         NEW woken \in SUBSET Procs, \A q \in woken : state[q] = "SLEEPING",
         NEW st \in [Procs -> States], NEW rq \in SUBSET Procs,
         \A q \in Procs : st[q] = IF q \in woken THEN "READY"
                                  ELSE IF q = current THEN "ZOMBIE" ELSE state[q],
         \A q \in Procs : q \in rq <=> q \in woken \/ (q \in runq /\ q # current),
         Schedule(st, rq),
         wait_channel' \in [Procs -> Procs \cup {NULL} \cup Pids],
         \A q \in Procs : q \notin woken => wait_channel'[q] = wait_channel[q]
  PROVE  Died(woken)
<1>0. current \in Procs /\ state[current] = "RUNNING" /\ current \notin woken
  BY CurrentLive DEF Inv, TypeOK
<1>1. MaySchedule(st, rq)
  <2>1. st[Idle] = "RUNNING"
    BY AddressAssumption DEF Inv, IdleStays
  <2>2. \A q \in Procs : q \in rq <=> st[q] = "READY"
    BY <1>0 DEF Inv, QueueHoldsReady
  <2> QED BY <2>1, <2>2 DEF MaySchedule
<1>2. Scheduled(st)
  BY <1>1, ScheduleInv
<1>3. QueueHoldsReady' /\ OneRunning'
  BY <1>2, RunningKept
<1>4. \A q \in Procs : /\ state'[q] = "UNUSED" <=> state[q] = "UNUSED"
                       /\ state'[q] = "ZOMBIE" <=> state[q] = "ZOMBIE" \/ q = current
                       /\ state'[q] = "SLEEPING" => state[q] = "SLEEPING" /\ q \notin woken
  BY <1>0, <1>2 DEF Scheduled, Runnable
<1> QED BY <1>2, <1>3, <1>4 DEF Scheduled, Died

\* Death with a wakeup of the processes that sleep on channel.
LEMMA DieWakeup ==
  ASSUME Inv, current # Idle, ghost' = ghost, NEW channel,
         WakeupAndSchedule([state EXCEPT ![current] = "ZOMBIE"], runq \ {current}, channel)
  PROVE  Died(Sleepers(state, channel))
<1> DEFINE dead == [state EXCEPT ![current] = "ZOMBIE"]
           woken == Sleepers(dead, channel)
           st == [q \in Procs |-> IF q \in woken THEN "READY" ELSE dead[q]]
           rq == (runq \ {current}) \cup woken
<1>0. current \in Procs /\ state[current] = "RUNNING"
  BY CurrentLive DEF Inv, TypeOK
<1>1. \A q \in Procs : dead[q] = IF q = current THEN "ZOMBIE" ELSE state[q]
  BY DEF Inv, TypeOK
<1>2. dead \in [Procs -> States]
  BY DEF Inv, TypeOK, States
<1> HIDE DEF dead
<1>3. /\ woken = Sleepers(state, channel) /\ woken \in SUBSET Procs
      /\ \A q \in woken : state[q] = "SLEEPING"
  BY <1>0, <1>1 DEF Sleepers, Registered
<1>4. /\ wait_channel' = [q \in Procs |-> IF q \in woken THEN NULL ELSE wait_channel[q]]
      /\ Schedule(st, rq)
  BY DEF WakeupAndSchedule, dead
<1> HIDE DEF woken
<1>5. /\ st \in [Procs -> States]
      /\ \A q \in Procs : st[q] = IF q \in woken THEN "READY"
                                  ELSE IF q = current THEN "ZOMBIE" ELSE state[q]
  BY <1>1, <1>2 DEF States
<1>6. /\ rq \in SUBSET Procs
      /\ \A q \in Procs : q \in rq <=> q \in woken \/ (q \in runq /\ q # current)
  BY <1>3 DEF Inv, TypeOK
<1>7. /\ wait_channel' \in [Procs -> Procs \cup {NULL} \cup Pids]
      /\ \A q \in Procs : q \notin woken => wait_channel'[q] = wait_channel[q]
  BY <1>4 DEF Inv, TypeOK
<1>8. Died(woken)
  <2> HIDE DEF st, rq
  <2> QED BY <1>3, <1>4, <1>5, <1>6, <1>7, DieSchedule
<1> QED BY <1>3, <1>8

\* Death with nobody to wake.
LEMMA DieAlone ==
  ASSUME Inv, current # Idle, ghost' = ghost,
         Schedule([state EXCEPT ![current] = "ZOMBIE"], runq \ {current}),
         UNCHANGED wait_channel
  PROVE  Died({})
<1> DEFINE st == [state EXCEPT ![current] = "ZOMBIE"]
           rq == runq \ {current}
<1>1. /\ st \in [Procs -> States]
      /\ \A q \in Procs : st[q] = IF q = current THEN "ZOMBIE" ELSE state[q]
      /\ rq \in SUBSET Procs
  BY DEF Inv, TypeOK, States
<1>2. wait_channel' \in [Procs -> Procs \cup {NULL} \cup Pids]
  BY DEF Inv, TypeOK
<1>3. \A q \in Procs : q \in rq <=> q \in runq /\ q # current
  OBVIOUS
<1>4. Schedule(st, rq)
  OBVIOUS
<1> HIDE DEF st, rq
<1>5. /\ {} \in SUBSET Procs /\ \A q \in {} : state[q] = "SLEEPING"
      /\ \A q \in Procs : st[q] = IF q \in {} THEN "READY"
                                  ELSE IF q = current THEN "ZOMBIE" ELSE state[q]
      /\ \A q \in Procs : q \in rq <=> q \in {} \/ (q \in runq /\ q # current)
      /\ \A q \in Procs : q \notin {} => wait_channel'[q] = wait_channel[q]
  BY <1>1, <1>3
<1> QED BY <1>1, <1>2, <1>4, <1>5, DieSchedule

\* The invariant after a death in which each child stays with its parent, is handed to the
\* process with PID 1 or is dropped from the dead process's list, and in which a parent
\* asleep in waitpid() was woken.
LEMMA DieInv ==
  ASSUME Inv, pc[current] = "user", NEW woken, Died(woken),
         UNCHANGED <<process_table, next_pid, ghost, pid, signal_handlers, pc, arg>>,
         pending_signals' \in [Procs -> SUBSET Sigs], exit_code' \in [Procs -> Int],
         parent' \in [Procs -> Procs \cup {NULL}], ppid' \in [Procs -> Pids],
         children' \in [Procs -> SUBSET Procs],
         \A q \in Procs, c \in Procs : c \in children'[q] =>
           \/ c \in children[q] /\ parent'[c] = parent[c] /\ ppid'[c] = ppid[c]
           \/ /\ c \in children[current] /\ q = process_table[1]
              /\ parent'[c] = q /\ ppid'[c] = pid[q],
         \A q \in Registered : (state[q] = "SLEEPING" /\ wait_channel[q] = q /\ pid[q] # 1
                                  /\ current \in children[q]) => q \in woken
  PROVE  Inv' /\ ZombiesKept
<1>0. /\ current \in Procs /\ current # Idle /\ state[current] = "RUNNING"
      /\ 1 \in Pids
  BY CurrentLive, ParameterAssumption DEF Inv, TypeOK, Pids
<1>1. TypeOK'
  BY DEF Died, Inv, TypeOK
<1>2. Live' = Live /\ Registered' = Registered
  BY DEF Live, Registered
<1>3. TableConsistent'
  BY <1>2 DEF Died, Inv, TableConsistent
<1>4. ChildrenLinked'
  <2>1. ASSUME NEW q \in Procs, NEW c \in Procs, c \in children'[q]
        PROVE  {q, c} \subseteq Live /\ parent'[c] = q /\ ppid'[c] = pid[q]
    <3>1. CASE c \in children[q] /\ parent'[c] = parent[c] /\ ppid'[c] = ppid[c]
      BY <3>1 DEF Inv, ChildrenLinked
    <3>2. CASE /\ c \in children[current] /\ q = process_table[1]
               /\ parent'[c] = q /\ ppid'[c] = pid[q]
      <4>1. c \in Live
        BY <1>0, <3>2 DEF Inv, ChildrenLinked
      <4>2. pid[q] = 1
        BY <1>0, <3>2, AddressAssumption DEF Inv, TableConsistent
      <4>3. q \in Live
        BY <3>2, <4>2 DEF Live, Registered
      <4> QED BY <3>2, <4>1, <4>3
    <3> QED BY <2>1, <3>1, <3>2
  <2>2. \A q \in Procs : children'[q] \subseteq Procs
    OBVIOUS
  <2> QED BY <1>2, <2>1, <2>2 DEF ChildrenLinked
<1>5. IdleStays'
  BY DEF Died, Inv, IdleStays
<1>6. \A q \in Procs, c \in Procs : c \in children'[q] => \E r \in Procs : c \in children[r]
  BY <1>0
<1>7. PidZeroApart'
  <2>1. \A q \in Procs : Idle \notin children[q] /\ ghost \notin children[q]
    BY DEF Inv, PidZeroApart
  <2>2. \A q \in Procs : Idle \notin children'[q] /\ ghost \notin children'[q]
    BY <1>6, <2>1 DEF Inv, TypeOK
  <2> QED BY <2>2 DEF Inv, PidZeroApart
<1>8. SleepsOnSelf'
  BY DEF Died, Inv, SleepsOnSelf
<1>9. NoLostWakeup'
  <2>1. ASSUME NEW q \in Procs, q \in Registered, pc[q] = "wait", state'[q] = "SLEEPING",
               pid[q] # 1
        PROVE  Reapable(q, arg[q])' = {}
    <3>1. q # process_table[1] /\ q # current
      BY <1>0, <2>1, AddressAssumption DEF Died, Inv, TypeOK, TableConsistent
    <3>2. state[q] = "SLEEPING" /\ wait_channel[q] = q /\ q \notin woken
      BY <2>1 DEF Died, Inv, SleepsOnSelf
    <3>3. current \notin children[q]
      BY <2>1, <3>2
    <3>4. Reapable(q, arg[q]) = {}
      BY <2>1, <3>2 DEF Inv, NoLostWakeup
    <3>5. \A c \in children'[q] : c \in children[q] /\ c # current /\ c \in Procs
      BY <3>1, <3>3
    <3>6. \A c \in children'[q] : state'[c] = "ZOMBIE" => state[c] = "ZOMBIE"
      BY <3>5 DEF Died
    <3>7. \A c \in children'[q] : Matches(arg[q], c)' <=> Matches(arg[q], c)
      BY DEF Matches
    <3> QED BY <3>4, <3>5, <3>6, <3>7 DEF Reapable
  <2>2. Registered \subseteq Procs
    BY DEF Registered
  <2> QED BY <1>2, <2>1, <2>2 DEF NoLostWakeup
<1>10. PollsPid'
  BY DEF Inv, PollsPid
<1>11. ExecTargetStays'
  <2>1. \A q \in Procs : (pc[q] \in {"exec", "interp"} /\ state'[q] # "ZOMBIE") =>
          state[q] # "ZOMBIE"
    BY DEF Died
  <2>2. \A q \in Procs : pc[q] \in {"exec", "interp"} =>
          arg[q] \in Pids /\ process_table[arg[q]] \in Procs \cup {NULL}
    BY DEF Inv, PollsPid, TypeOK
  <2>3. ASSUME NEW q \in Procs, pc[q] \in {"exec", "interp"}, state'[q] # "ZOMBIE", arg[q] # 0
        PROVE  \A r \in Procs : process_table[arg[q]] \notin children'[r]
    BY <1>6, <2>1, <2>2, <2>3 DEF Inv, ExecTargetStays
  <2> QED BY <2>1, <2>3 DEF Inv, ExecTargetStays
<1>12. ZombiesKept
  BY DEF Died, ZombiesKept
<1> QED BY <1>1, <1>3, <1>4, <1>5, <1>7, <1>8, <1>9, <1>10, <1>11, <1>12 DEF Inv, Died
LEMMA StatusType ==
  ASSUME NEW status \in Int
  PROVE  WaitStatus(status) \in Int
  BY SMT DEF WaitStatus

LEMMA SignalStatusType ==
  ASSUME NEW s \in Sigs
  PROVE  SignalStatus(s) \in Int
<1>1. s \in Int
  BY ParameterAssumption
<1> QED BY <1>1 DEF SignalStatus, SIGKILL, SIGTERM

LEMMA DoExitInv ==
  ASSUME Inv, pc[current] = "user", NEW status \in Int, DoExit(current, status),
         pending_signals' \in [Procs -> SUBSET Sigs]
  PROVE  Inv' /\ ZombiesKept
<1> DEFINE init == process_table[1]
           kids == children[current]
           dead == [state EXCEPT ![current] = "ZOMBIE"]
<1>0. /\ current \in Procs /\ current # Idle /\ 1 \in Pids
      /\ init \in Procs \cup {NULL} /\ children \in [Procs -> SUBSET Procs]
      /\ parent \in [Procs -> Procs \cup {NULL}] /\ ppid \in [Procs -> Pids]
      /\ pid \in [Procs -> Pids]
  BY CurrentLive, ParameterAssumption DEF Inv, TypeOK, Pids
<1>1. UNCHANGED <<process_table, next_pid, ghost, pid, signal_handlers, pc, arg>>
  BY DEF DoExit, table_vars
<1>2. exit_code' \in [Procs -> Int]
  <2>1. exit_code' = [exit_code EXCEPT ![current] = WaitStatus(status)]
    BY DEF DoExit
  <2> QED BY <2>1, StatusType DEF Inv, TypeOK
<1>3. /\ parent' \in [Procs -> Procs \cup {NULL}] /\ ppid' \in [Procs -> Pids]
      /\ children' \in [Procs -> SUBSET Procs]
      /\ \A q \in Procs : q # current => (q \notin kids => parent'[q] = parent[q])
      /\ \A q \in Procs, c \in Procs : c \in children'[q] =>
           \/ c \in children[q] /\ parent'[c] = parent[c] /\ ppid'[c] = ppid[c]
           \/ /\ c \in kids /\ q = init
              /\ parent'[c] = q /\ ppid'[c] = pid[q]
      /\ current \notin kids => parent'[current] = parent[current]
  <2>1. CASE init = NULL
    <3>1. children' = [children EXCEPT ![current] = {}] /\ UNCHANGED <<parent, ppid>>
      BY <2>1 DEF DoExit
    <3> QED BY <1>0, <3>1
  <2>2. CASE init # NULL
    <3>1. /\ children' = [children EXCEPT ![init] = @ \cup kids, ![current] = {}]
          /\ parent' = [c \in Procs |-> IF c \in kids THEN init ELSE parent[c]]
          /\ ppid' = [c \in Procs |-> IF c \in kids THEN pid[init] ELSE ppid[c]]
      BY <2>2 DEF DoExit
    <3>2. init \in Procs /\ pid[init] \in Pids /\ kids \subseteq Procs
      BY <1>0, <2>2
    <3>3. /\ children' \in [Procs -> SUBSET Procs]
          /\ \A q \in Procs : children'[q] = IF q = current THEN {}
                                             ELSE IF q = init THEN children[q] \cup kids
                                             ELSE children[q]
      <4>1. children' = [[children EXCEPT ![init] = @ \cup kids] EXCEPT ![current] = {}]
        BY <3>1
      <4> HIDE DEF init, kids
      <4> QED BY <1>0, <3>2, <4>1
    <3>4. \A q \in Procs : q # current => children[q] \cap kids = {}
      BY <1>0 DEF Inv, ChildrenLinked
    <3>5. parent' \in [Procs -> Procs \cup {NULL}] /\ ppid' \in [Procs -> Pids]
      BY <1>0, <3>1, <3>2
    <3>6. \A c \in Procs : /\ parent'[c] = IF c \in kids THEN init ELSE parent[c]
                           /\ ppid'[c] = IF c \in kids THEN pid[init] ELSE ppid[c]
      BY <3>1
    <3> HIDE DEF init, kids
    <3> QED BY <1>0, <3>3, <3>4, <3>5, <3>6
  <2> QED BY <2>1, <2>2
<1>4. ASSUME NEW q \in Registered, state[q] = "SLEEPING", current \in children[q]
      PROVE  parent'[current] = q
  <2>1. q \in Procs /\ parent[current] = q
    BY <1>4 DEF Registered, Inv, ChildrenLinked
  <2>2. q # current
    BY <1>4, CurrentLive
  <2>3. current \notin kids
    BY <1>0, <2>1, <2>2 DEF Inv, ChildrenLinked
  <2> QED BY <1>3, <2>1, <2>3
<1>5. CASE parent'[current] # NULL
  <2> DEFINE woken == Sleepers(state, parent'[current])
  <2>1. WakeupAndSchedule(dead, runq \ {current}, parent'[current])
    BY <1>5 DEF DoExit
  <2>2. Died(woken)
    BY <1>0, <1>1, <2>1, DieWakeup
  <2>3. \A q \in Registered : (state[q] = "SLEEPING" /\ wait_channel[q] = q /\ pid[q] # 1
                                 /\ current \in children[q]) => q \in woken
    BY <1>4 DEF Sleepers
  <2> HIDE DEF woken
  <2> QED BY <1>1, <1>2, <1>3, <2>2, <2>3, DieInv
<1>6. CASE parent'[current] = NULL
  <2>1. Schedule(dead, runq \ {current}) /\ UNCHANGED wait_channel
    BY <1>6 DEF DoExit
  <2>2. Died({})
    BY <1>0, <1>1, <2>1, DieAlone
  <2>3. \A q \in Registered : (state[q] = "SLEEPING" /\ wait_channel[q] = q /\ pid[q] # 1
                                 /\ current \in children[q]) => q \in {}
    BY <1>4, <1>6, AddressAssumption DEF Registered
  <2> QED BY <1>1, <1>2, <1>3, <2>2, <2>3, DieInv
<1> QED BY <1>5, <1>6

LEMMA ProcessExitInv ==
  ASSUME Inv, NEW p \in Procs, NEW code \in Int, ProcessExit(p, code)
  PROVE  Inv' /\ ZombiesKept
<1> DEFINE par == process_table[ppid[p]]
           dead == [state EXCEPT ![p] = "ZOMBIE"]
<1>0. /\ p = current /\ pc[current] = "user" /\ current # Idle
      /\ UNCHANGED <<process_table, next_pid, ghost, pid, ppid, parent, children,
                     pending_signals, signal_handlers, pc, arg>>
  BY CurrentLive DEF ProcessExit, table_vars, link_vars, signal_vars
<1>1. /\ exit_code' \in [Procs -> Int]
      /\ parent' \in [Procs -> Procs \cup {NULL}] /\ ppid' \in [Procs -> Pids]
      /\ children' \in [Procs -> SUBSET Procs] /\ pending_signals' \in [Procs -> SUBSET Sigs]
  BY <1>0 DEF ProcessExit, Inv, TypeOK
<1>2. \A q \in Procs, c \in Procs : c \in children'[q] =>
        c \in children[q] /\ parent'[c] = parent[c] /\ ppid'[c] = ppid[c]
  BY <1>0
<1>3. \A q \in Registered : current \in children[q] => q = par /\ q # NULL
  BY <1>0, AddressAssumption DEF Registered, Inv, ChildrenLinked
<1>4. CASE par # NULL
  <2> DEFINE woken == Sleepers(state, par)
  <2>1. WakeupAndSchedule(dead, runq \ {p}, par)
    BY <1>4 DEF ProcessExit
  <2>2. Died(woken)
    BY <1>0, <2>1, DieWakeup
  <2>3. \A q \in Registered : (state[q] = "SLEEPING" /\ wait_channel[q] = q /\ pid[q] # 1
                                 /\ current \in children[q]) => q \in woken
    BY <1>3 DEF Sleepers
  <2> HIDE DEF woken
  <2> QED BY <1>0, <1>1, <1>2, <2>2, <2>3, DieInv
<1>5. CASE par = NULL
  <2>1. Schedule(dead, runq \ {p}) /\ UNCHANGED wait_channel
    BY <1>5 DEF ProcessExit
  <2>2. Died({})
    BY <1>0, <2>1, DieAlone
  <2>3. \A q \in Registered : (state[q] = "SLEEPING" /\ wait_channel[q] = q /\ pid[q] # 1
                                 /\ current \in children[q]) => q \in {}
    BY <1>3, <1>5
  <2> QED BY <1>0, <1>1, <1>2, <2>2, <2>3, DieInv
<1> QED BY <1>4, <1>5

-----------------------------------------------------------------------------
LEMMA InitInv ==
  ASSUME Init
  PROVE  Inv
<1>0. /\ 0 \in Pids /\ 1 \in Pids /\ 2 \in Pids /\ PidAfter(2) \in Pids \ {0}
      /\ NoHandlers \in [Sigs -> SigHandlers]
      /\ NULL \notin Procs /\ Idle \in Procs /\ InitProc \in Procs /\ Idle # InitProc
  BY ParameterAssumption, AddressAssumption DEF Pids, PidAfter, NoHandlers, SigHandlers
<1>1. /\ \A i \in Pids : process_table[i] = IF i = 0 THEN Idle ELSE IF i = 2 THEN InitProc ELSE NULL
      /\ \A p \in Procs : /\ pid[p] = IF p = InitProc THEN 2 ELSE 0
                          /\ state[p] = IF p = Idle THEN "RUNNING"
                                        ELSE IF p = InitProc THEN "READY" ELSE "UNUSED"
                          /\ children[p] = {} /\ arg[p] = 0
                          /\ pc[p] = IF p = Idle THEN "idle" ELSE "user"
      /\ runq = {InitProc} /\ current = Idle /\ ghost = NULL
  BY <1>0 DEF Init
<1>2. TypeOK
  <2>1. process_table \in [Pids -> Procs \cup {NULL}] /\ state \in [Procs -> States]
    BY <1>0 DEF Init, States
  <2> QED BY <1>0, <2>1 DEF Init, TypeOK
<1>3. QueueHoldsReady /\ OneRunning
  BY <1>0, <1>1 DEF QueueHoldsReady, OneRunning
<1>4. \A p \in Procs : p \in Live <=> p \in {Idle, InitProc}
  BY <1>0, <1>1 DEF Live, Registered
<1>5. TableConsistent
  BY <1>0, <1>1, <1>4 DEF TableConsistent
<1>6. ChildrenLinked /\ PidZeroApart /\ IdleStays
  BY <1>0, <1>1 DEF ChildrenLinked, PidZeroApart, IdleStays
<1>7. NoLostWakeup /\ SleepsOnSelf /\ ExecTargetStays /\ PollsPid
  BY <1>1 DEF NoLostWakeup, SleepsOnSelf, ExecTargetStays, PollsPid, Registered
<1> QED BY <1>2, <1>3, <1>5, <1>6, <1>7 DEF Inv

\* Every step of the kernel preserves the invariant and resurrects no zombie.
LEMMA NextInv ==
  ASSUME Inv, Next
  PROVE  Inv' /\ ZombiesKept
<1>1. CASE IdleLoop
  BY <1>1, PlainSchedule DEF IdleLoop, table_vars, link_vars, signal_vars, Inv, TypeOK
<1>2. ASSUME NEW p \in Procs, Step(p)
      PROVE  Inv' /\ ZombiesKept
  <2>0. AfterEntry(p) \in [Procs -> SUBSET Sigs] /\ pending_signals \in [Procs -> SUBSET Sigs]
    BY EntryType DEF Inv, TypeOK
  <2>1. CASE \E c \in Procs, i \in Pids : Fork(p, c, i)
    BY <2>1, ForkInv
  <2>2. CASE CreateFails(p)
    BY <2>2, CreateFailsInv
  <2>3. CASE \E c \in Procs, i \in Pids, how \in {"exec", "interp"} : Exec(p, c, i, how)
    BY <2>3, ExecInv
  <2>4. CASE \E c \in Procs, how \in {"exec", "interp"} : ExecTableFull(p, c, how)
    BY <2>4, ExecTableFullInv
  <2>5. CASE ExecPoll(p)
    BY <2>5, ExecPollInv
  <2>6. CASE \E t \in WaitTargets, nohang \in BOOLEAN : Waitpid(p, t, nohang)
    <3>1. PICK t \in WaitTargets, nohang \in BOOLEAN : Waitpid(p, t, nohang)
      BY <2>6
    <3>2. /\ current = p /\ pc[current] # "idle" /\ t \in Int
          /\ WaitLoop(current, t, nohang, AfterEntry(p))
      BY <3>1, ParameterAssumption DEF Waitpid, EnterSyscall
    <3> QED BY <2>0, <3>2, WaitLoopInv
  <2>7. CASE WaitpidResume(p)
    <3>1. /\ current = p /\ pc[current] # "idle" /\ arg[p] \in Int
          /\ WaitLoop(current, arg[p], FALSE, pending_signals)
      BY <2>7 DEF WaitpidResume, Inv, TypeOK
    <3> QED BY <2>0, <3>1, WaitLoopInv
  <2>8. CASE \E status \in Statuses : Exit(p, status)
    <3>1. PICK status \in Statuses : Exit(p, status)
      BY <2>8
    <3>2. /\ pc[current] = "user" /\ DoExit(current, status) /\ status \in Int
          /\ pending_signals' \in [Procs -> SUBSET Sigs]
      BY <2>0, <3>1, ParameterAssumption DEF Exit
    <3> QED BY <3>2, DoExitInv
  <2>9. CASE DieBySignal(p)
    <3>1. PICK s \in FatalSignals(p) : DoExit(p, SignalStatus(s))
      BY <2>9 DEF DieBySignal
    <3>2. s \in Sigs
      BY DEF FatalSignals
    <3>3. SignalStatus(s) \in Int
      BY <3>2, SignalStatusType
    <3>4. /\ pc[current] = "user" /\ DoExit(current, SignalStatus(s))
          /\ pending_signals' \in [Procs -> SUBSET Sigs]
      BY <2>0, <2>9, <3>1 DEF DieBySignal
    <3> QED BY <3>3, <3>4, DoExitInv
  <2>10. CASE \E code \in FaultCodes : ProcessExit(p, code)
    BY <2>10, ProcessExitInv, ParameterAssumption
  <2>11. CASE Yield(p)
    BY <2>0, <2>11, PlainSchedule DEF Yield, table_vars, link_vars
  <2>12. CASE Sleep(p)
    <3>1. /\ p = current /\ pc[current] # "idle" /\ pid[p] \in Pids
          /\ arg' \in [Procs -> Int] /\ arg' = arg
      BY <2>12 DEF Sleep, EnterSyscall, Inv, TypeOK
    <3>2. /\ SleepOn(pid[p]) /\ pc' = [pc EXCEPT ![current] = "sleep"]
          /\ UNCHANGED <<process_table, next_pid, ghost, pid, ppid, parent, children,
                         signal_handlers, exit_code>>
          /\ pending_signals' \in [Procs -> SUBSET Sigs]
      BY <2>0, <2>12, <3>1 DEF Sleep, table_vars, link_vars
    <3>3. pid[p] \in Procs \cup {NULL} \cup Pids
      BY <3>1
    <3> QED BY <3>1, <3>2, <3>3, SleepOnInv
  <2>13. CASE SleepReturn(p)
    BY <2>0, <2>13, ReturnInv DEF SleepReturn
  <2>14. CASE \E i \in Pids, s \in Sigs : Kill(p, i, s)
    BY <2>14, KillInv
  <2>15. CASE \E s \in Sigs, h \in Handlers : Signal(p, s, h)
    BY <2>15, SignalInv
  <2> QED BY <1>2, <2>1, <2>2, <2>3, <2>4, <2>5, <2>6, <2>7, <2>8, <2>9, <2>10, <2>11, <2>12,
             <2>13, <2>14, <2>15 DEF Step
<1> QED BY <1>1, <1>2 DEF Next

LEMMA StutterInv ==
  ASSUME Inv, UNCHANGED vars
  PROVE  Inv'
<1>1. UNCHANGED <<process_table, ghost, pid, ppid, parent, children, runq, current, state,
                  wait_channel, exit_code, pc, arg, next_pid, pending_signals, signal_handlers>>
  BY DEF vars
<1>2. /\ next_pid' \in Pids \ {0} /\ pending_signals' \in [Procs -> SUBSET Sigs]
      /\ signal_handlers' \in [Procs -> [Sigs -> SigHandlers]]
  BY <1>1 DEF Inv, TypeOK
<1> QED BY <1>1, <1>2, QuietInv

\* Inv is an invariant of the process subsystem.
THEOREM ProcessInvariant == Spec => []Inv
<1>1. Init => Inv
  BY InitInv
<1>2. Inv /\ [Next]_vars => Inv'
  BY NextInv, StutterInv
<1> QED BY <1>1, <1>2, PTL DEF Spec

\* Every field and every kernel variable keeps its type, whatever the number of processes,
\* signals and table slots.
THEOREM ProcessTypeCorrect == Spec => []TypeOK
<1>1. Inv => TypeOK
  BY DEF Inv
<1> QED BY <1>1, ProcessInvariant, PTL

\* The scheduler's tree always holds exactly the READY processes.
THEOREM ProcessQueueHoldsReady == Spec => []QueueHoldsReady
<1>1. Inv => QueueHoldsReady
  BY DEF Inv
<1> QED BY <1>1, ProcessInvariant, PTL

\* One process runs; only the idle process and one created with PID 0 may also be marked so.
THEOREM ProcessOneRunning == Spec => []OneRunning
<1>1. Inv => OneRunning
  BY DEF Inv
<1> QED BY <1>1, ProcessInvariant, PTL

\* The process table, the pid fields and the set of allocated structures agree.
THEOREM ProcessTableConsistent == Spec => []TableConsistent
<1>1. Inv => TableConsistent
  BY DEF Inv
<1> QED BY <1>1, ProcessInvariant, PTL

\* Children lists hold live processes and agree with parent and ppid.
THEOREM ProcessChildrenLinked == Spec => []ChildrenLinked
<1>1. Inv => ChildrenLinked
  BY DEF Inv
<1> QED BY <1>1, ProcessInvariant, PTL

\* A process other than PID 1 is never left asleep in waitpid() with a zombie to reap.
THEOREM ProcessNoLostWakeup == Spec => []NoLostWakeup
<1>1. Inv => NoLostWakeup
  BY DEF Inv
<1> QED BY <1>1, ProcessInvariant, PTL

\* The process a foreground exec polls for keeps its slot and has no other reaper.
THEOREM ProcessExecTargetStays == Spec => []ExecTargetStays
<1>1. Inv => ExecTargetStays
  BY DEF Inv
<1> QED BY <1>1, ProcessInvariant, PTL

\* No step brings a zombie back to life.
THEOREM ProcessZombiesStayDead == Spec => ZombiesStayDead
<1> DEFINE A == \A p \in Procs : state[p] = "ZOMBIE" => state'[p] \in {"ZOMBIE", "UNUSED"}
<1>1. Inv /\ [Next]_vars => [A]_vars
  BY NextInv DEF ZombiesKept
<1> HIDE DEF A
<1>2. Spec => [][A]_vars
  BY <1>1, ProcessInvariant, PTL DEF Spec
<1> QED BY <1>2 DEF ZombiesStayDead, A
=============================================================================
