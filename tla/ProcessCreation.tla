--------------------------- MODULE ProcessCreation --------------------------
(***************************************************************************)
(* fork() and exec preserve the invariant Inv of module Process.           *)
(***************************************************************************)
EXTENDS ProcessLemmas

\* An address that is not in use is nowhere in the kernel's structures.
LEMMA FreshAddress ==
  ASSUME Inv, NEW c \in Procs, c \notin Live
  PROVE  /\ state[c] = "UNUSED" /\ c \notin runq /\ c # current /\ c # Idle /\ c # ghost
         /\ children[c] = {} /\ \A q \in Procs : c \notin children[q]
<1>1. state[c] = "UNUSED"
  BY DEF Inv, TableConsistent
<1>2. c # ghost
  BY AddressAssumption DEF Live
<1>3. children[c] = {} /\ \A q \in Procs : c \notin children[q]
  BY DEF Inv, ChildrenLinked
<1> QED BY <1>1, <1>2, <1>3 DEF Inv, QueueHoldsReady, OneRunning, IdleStays

\* The PID a search returns is that of a free slot, and next_pid stays in range.
LEMMA FreshPid ==
  ASSUME Inv, NEW i \in Pids, IsAllocated(i)
  PROVE  i # 0 /\ process_table[i] = NULL /\ PidAfter(i) \in Pids \ {0}
  BY ParameterAssumption DEF IsAllocated, FreePids, PidAfter, Pids

\* process_register() of a new process in a free slot.
LEMMA RegisterLive ==
  ASSUME Inv, NEW c \in Procs, c \notin Live, NEW i \in Pids, i # 0, process_table[i] = NULL,
         process_table' = [process_table EXCEPT ![i] = c], pid' = [pid EXCEPT ![c] = i],
         ghost' = ghost
  PROVE  /\ Live' = Live \cup {c}
         /\ \A j \in Pids : process_table'[j] # NULL => pid'[process_table'[j]] = j
         /\ \A q \in Procs : q \in Registered' => q \in Registered \/ q = c
         /\ process_table'[0] = Idle
<1>1. /\ \A j \in Pids : process_table'[j] = IF j = i THEN c ELSE process_table[j]
      /\ \A q \in Procs : pid'[q] = IF q = c THEN i ELSE pid[q]
      /\ \A q \in Procs : pid[q] \in Pids
      /\ 0 \in Pids
  BY ParameterAssumption DEF Inv, TypeOK, Pids
<1>2. \A q \in Procs : q \in Registered' <=> q \in Registered \/ q = c
  BY <1>1, AddressAssumption DEF Registered
<1>3. Live' = Live \cup {c}
  BY <1>2 DEF Live, Registered
<1>4. \A j \in Pids : process_table[j] # NULL => process_table[j] \in Procs
  BY DEF Inv, TypeOK
<1>5. \A j \in Pids : process_table[j] # c
  BY <1>4, AddressAssumption DEF Inv, TableConsistent, Live, Registered
<1>6. \A j \in Pids : process_table'[j] # NULL => pid'[process_table'[j]] = j
  BY <1>1, <1>4, <1>5 DEF Inv, TableConsistent
<1> QED BY <1>1, <1>2, <1>3, <1>6 DEF Inv, IdleStays

\* The links after a process c has been created by the current process, as its child or as
\* nobody's.
LEMMA CreateLinks ==
  ASSUME Inv, NEW c \in Procs, c \notin Live, current # Idle, NEW i \in Pids,
         Live' = Live \cup {c}, pid' = [pid EXCEPT ![c] = i],
         \A j \in Pids : process_table'[j] # NULL => pid'[process_table'[j]] = j,
         process_table'[0] = Idle,
         ppid' = [ppid EXCEPT ![c] = pid[current]],
         \/ UNCHANGED <<parent, children>> /\ (ghost' = ghost \/ (ghost' = c /\ i = 0))
         \/ /\ ghost' = ghost
            /\ parent' = [parent EXCEPT ![c] = current]
            /\ children' = [children EXCEPT ![current] = @ \cup {c}],
         \A q \in Procs : state'[q] = "UNUSED" <=> (state[q] = "UNUSED" /\ q # c),
         state'[Idle] = "RUNNING",
         \A q \in Procs : pc'[q] = "idle" <=> pc[q] = "idle"
  PROVE  Links'
<1>1. /\ current \in Procs /\ current \in Live
      /\ state[c] = "UNUSED" /\ c # current /\ c # Idle /\ c # ghost
      /\ children[c] = {} /\ \A q \in Procs : c \notin children[q]
  BY FreshAddress, CurrentLive DEF Inv, TypeOK
<1>2. /\ \A q \in Procs : pid'[q] = IF q = c THEN i ELSE pid[q]
      /\ \A q \in Procs : ppid'[q] = IF q = c THEN pid[current] ELSE ppid[q]
      /\ \A q \in Procs : q # c => parent'[q] = parent[q]
      /\ \A q \in Procs : children'[q] = children[q] \/
           /\ q = current /\ children'[q] = children[q] \cup {c} /\ parent'[c] = current
           /\ ghost' = ghost
      /\ children \in [Procs -> SUBSET Procs]
  BY <1>1 DEF Inv, TypeOK
<1>3. TableConsistent'
  BY <1>1 DEF Inv, TableConsistent
<1>4. ChildrenLinked'
  BY <1>1, <1>2 DEF Inv, ChildrenLinked
<1>5. IdleStays'
  BY <1>1, <1>2 DEF Inv, IdleStays
<1>6. PidZeroApart'
  <2>1. /\ \A q \in Procs : Idle \notin children[q] /\ ghost \notin children[q]
        /\ ghost \in Procs \cup {NULL} /\ NULL \notin Procs
        /\ ghost # NULL => pid[ghost] = 0 /\ ghost # Idle
    BY AddressAssumption DEF Inv, PidZeroApart, TypeOK
  <2>2. ghost' # NULL => pid'[ghost'] = 0 /\ ghost' # Idle
    BY <1>1, <1>2, <2>1
  <2>3. \A q \in Procs : Idle \notin children'[q] /\ ghost' \notin children'[q]
    BY <1>1, <1>2, <2>1
  <2> QED BY <2>2, <2>3 DEF PidZeroApart
<1> QED BY <1>3, <1>4, <1>5, <1>6 DEF Links

\* Nobody who waits is affected by the creation of c.
LEMMA CreateWait ==
  ASSUME Inv, NEW c \in Procs, c \notin Live, NEW i \in Pids,
         pid' = [pid EXCEPT ![c] = i],
         \A q \in Procs : q \in Registered' => q \in Registered \/ q = c,
         children' = children \/ children' = [children EXCEPT ![current] = @ \cup {c}],
         \A q \in Procs : state'[q] = "ZOMBIE" <=> state[q] = "ZOMBIE",
         \A q \in Procs : state'[q] = "SLEEPING" <=> state[q] = "SLEEPING",
         UNCHANGED wait_channel,
         \A q \in Procs : q # current => pc'[q] = pc[q] /\ arg'[q] = arg[q]
  PROVE  NoLostWakeup' /\ SleepsOnSelf'
<1>1. /\ state[c] = "UNUSED" /\ state[current] = "RUNNING" /\ current \in Procs
      /\ \A q \in Procs : c \notin children[q]
  BY FreshAddress, CurrentLive DEF Inv, TypeOK
<1>2. SleepsOnSelf'
  BY <1>1 DEF Inv, SleepsOnSelf
<1>3. ASSUME NEW q \in Procs, q \in Registered',
             pc'[q] = "wait", state'[q] = "SLEEPING", pid'[q] # 1
      PROVE  Reapable(q, arg[q])' = {}
  <2>1. q # c /\ q # current /\ q \in Registered /\ state[q] = "SLEEPING" /\ pid[q] # 1
    BY <1>1, <1>3 DEF Inv, TypeOK
  <2>2. pc[q] = "wait" /\ arg'[q] = arg[q] /\ children'[q] = children[q]
    BY <1>1, <1>3, <2>1 DEF Inv, TypeOK
  <2>3. Reapable(q, arg[q]) = {}
    BY <2>1, <2>2 DEF Inv, NoLostWakeup
  <2>4. \A d \in children[q] : d \in Procs /\ d # c /\ (Matches(arg[q], d)' <=> Matches(arg[q], d))
    <3>1. \A d \in children[q] : d \in Procs /\ d # c /\ pid'[d] = pid[d]
      BY <1>1 DEF Inv, TypeOK
    <3> QED BY <2>2, <3>1 DEF Matches
  <2> QED BY <2>2, <2>3, <2>4 DEF Reapable
<1>4. Registered' \subseteq Procs
  BY DEF Registered
<1> QED BY <1>2, <1>3, <1>4 DEF NoLostWakeup
\* A foreground exec polls for a slot that was free; every other poller keeps its slot.
LEMMA CreateExec ==
  ASSUME Inv, NEW c \in Procs, c \notin Live, NEW i \in Pids, i # 0, process_table[i] = NULL,
         process_table' = [process_table EXCEPT ![i] = c],
         children' = children \/ children' = [children EXCEPT ![current] = @ \cup {c}],
         \A q \in Procs : state'[q] = "ZOMBIE" <=> state[q] = "ZOMBIE",
         \A q \in Procs : q # current => pc'[q] = pc[q] /\ arg'[q] = arg[q],
         pc'[current] \in {"exec", "interp"} => children' = children /\ arg'[current] = i
  PROVE  ExecTargetStays' /\ PollsPid'
<1> DEFINE Polls(q) == pc[q] \in {"exec", "interp"}
           Waits(q) == Polls(q) /\ state[q] # "ZOMBIE"
<1>1. /\ \A q \in Procs : c \notin children[q]
      /\ \A j \in Pids : process_table'[j] = IF j = i THEN c ELSE process_table[j]
      /\ children \in [Procs -> SUBSET Procs]
      /\ current \in Procs /\ c # NULL
  BY FreshAddress, AddressAssumption DEF Inv, TypeOK
<1>2. \A q \in Procs : Polls(q)' => \/ q # current /\ Polls(q) /\ arg'[q] = arg[q] /\ arg[q] \in Pids
                                    \/ q = current /\ arg'[q] = i /\ children' = children
  BY DEF Inv, PollsPid
<1>3. PollsPid'
  BY <1>2 DEF PollsPid
<1>4. \A q \in Procs : Waits(q) /\ arg[q] # 0 => arg[q] # i
  BY DEF Inv, ExecTargetStays
<1>5. ASSUME NEW q \in Procs, Waits(q)', arg'[q] # 0
      PROVE  /\ process_table'[arg'[q]] # NULL
             /\ \A r \in Procs : process_table'[arg'[q]] \notin children'[r]
             /\ \A r \in Procs \ {q} : Waits(r)' => arg'[r] # arg'[q]
  <2>1. CASE q = current /\ arg'[q] = i /\ children' = children
    <3>1. \A r \in Procs \ {q} : Waits(r)' => Waits(r) /\ arg'[r] = arg[r]
      BY <2>1
    <3> QED BY <1>1, <1>4, <2>1, <3>1
  <2>2. CASE q # current /\ Polls(q) /\ arg'[q] = arg[q] /\ arg[q] \in Pids
    <3>1. Waits(q)
      BY <1>5, <2>2
    <3>2. /\ process_table[arg[q]] # NULL
          /\ \A r \in Procs : process_table[arg[q]] \notin children[r]
          /\ \A r \in Procs \ {q} : Waits(r) => arg[r] # arg[q]
      BY <1>5, <2>2, <3>1 DEF Inv, ExecTargetStays
    <3>3. arg[q] # i /\ process_table'[arg'[q]] = process_table[arg[q]] /\ process_table[arg[q]] # c
      <4>1. process_table[arg[q]] # c
        BY <2>2, <3>2 DEF Inv, TableConsistent, Live, Registered
      <4> QED BY <1>1, <1>4, <1>5, <2>2, <3>1, <4>1
    <3>4. \A r \in Procs : process_table'[arg'[q]] \notin children'[r]
      BY <1>1, <3>2, <3>3
    <3>5. ASSUME NEW r \in Procs \ {q}, Waits(r)'
          PROVE  arg'[r] # arg'[q]
      <4>1. CASE r = current
        BY <1>2, <2>2, <3>3, <3>5, <4>1
      <4>2. CASE r # current
        BY <2>2, <3>2, <3>5, <4>2
      <4> QED BY <4>1, <4>2
    <3> QED BY <3>2, <3>3, <3>4, <3>5
  <2> QED BY <1>2, <1>5, <2>1, <2>2
<1>6. ExecTargetStays'
  BY <1>5 DEF ExecTargetStays
<1> QED BY <1>3, <1>6

LEMMA ForkInv ==
  ASSUME Inv, NEW p \in Procs, NEW c \in Procs, NEW i \in Pids, Fork(p, c, i)
  PROVE  Inv' /\ ZombiesKept
<1>0. /\ p = current /\ pc[p] = "user" /\ c \notin Live /\ current # Idle
      /\ i # 0 /\ process_table[i] = NULL /\ next_pid' \in Pids \ {0}
      /\ state[c] = "UNUSED" /\ c \notin runq /\ c # current /\ c # Idle
      /\ AfterEntry(p) \in [Procs -> SUBSET Sigs]
  BY FreshAddress, FreshPid, EntryType, CurrentLive DEF Fork, EnterSyscall
<1>1. \A q \in Procs : state'[q] = IF q = c THEN "READY" ELSE state[q]
  BY DEF Fork, Inv, TypeOK
<1>2. TypeOK'
  <2>1. pid[p] \in Pids
    BY DEF Inv, TypeOK
  <2> QED BY <1>0, <2>1 DEF Fork, Inv, TypeOK, States
<1>3. QueueHoldsReady' /\ OneRunning'
  BY <1>0, <1>1 DEF Fork, Inv, QueueHoldsReady, OneRunning, TypeOK
<1>4. /\ Live' = Live \cup {c}
      /\ \A j \in Pids : process_table'[j] # NULL => pid'[process_table'[j]] = j
      /\ \A q \in Procs : q \in Registered' => q \in Registered \/ q = c
      /\ process_table'[0] = Idle
  BY <1>0, RegisterLive DEF Fork
<1>5. Links'
  <2>1. \A q \in Procs : state'[q] = "UNUSED" <=> (state[q] = "UNUSED" /\ q # c)
    BY <1>1
  <2>2. state'[Idle] = "RUNNING"
    BY <1>0, <1>1, AddressAssumption DEF Inv, IdleStays
  <2> QED BY <1>0, <1>4, <2>1, <2>2, CreateLinks DEF Fork
<1>6. /\ pid' = [pid EXCEPT ![c] = i] /\ process_table' = [process_table EXCEPT ![i] = c]
      /\ children' = [children EXCEPT ![current] = @ \cup {c}]
      /\ UNCHANGED <<wait_channel, pc, arg>>
      /\ \A q \in Procs : state'[q] = "ZOMBIE" <=> state[q] = "ZOMBIE"
      /\ \A q \in Procs : state'[q] = "SLEEPING" <=> state[q] = "SLEEPING"
      /\ pc[current] \notin {"exec", "interp"}
  BY <1>0, <1>1 DEF Fork
<1>7. NoLostWakeup' /\ SleepsOnSelf'
  BY <1>0, <1>4, <1>6, CreateWait
<1>8. ExecTargetStays' /\ PollsPid'
  BY <1>0, <1>6, CreateExec
<1> QED BY <1>0, <1>1, <1>2, <1>3, <1>5, <1>7, <1>8 DEF Inv, Links, ZombiesKept

\* schedule() right after a new process has been queued.
LEMMA CreateSchedule ==
  ASSUME Inv, NEW c \in Procs, c \notin Live, current # Idle,
         Schedule([state EXCEPT ![c] = "READY"], runq \cup {c}),
         ghost' = ghost \/ ghost = NULL
  PROVE  /\ current' \in Procs /\ runq' \subseteq Procs /\ state' \in [Procs -> States]
         /\ QueueHoldsReady' /\ OneRunning' /\ ZombiesKept
         /\ state'[Idle] = "RUNNING"
         /\ \A q \in Procs : /\ state'[q] = "UNUSED" <=> (state[q] = "UNUSED" /\ q # c)
                             /\ state'[q] = "ZOMBIE" <=> state[q] = "ZOMBIE"
                             /\ state'[q] = "SLEEPING" <=> state[q] = "SLEEPING"
<1> DEFINE st == [state EXCEPT ![c] = "READY"]
<1>0. state[c] = "UNUSED" /\ c # current /\ c # Idle
  BY FreshAddress
<1>1. MaySchedule(st, runq \cup {c})
  BY <1>0, MayScheduleNow, AddressAssumption DEF MaySchedule, States
<1>2. Scheduled(st)
  BY <1>1, ScheduleInv
<1>3. \A q \in Procs : st[q] = IF q = c THEN "READY" ELSE state[q]
  BY DEF Inv, TypeOK
<1>4. st \in [Procs -> States]
  BY <1>1 DEF MaySchedule
<1> HIDE DEF st
<1>5. \A q \in Procs : st[q] = "RUNNING" => state[q] = "RUNNING"
  BY <1>3
<1>6. QueueHoldsReady' /\ OneRunning'
  BY <1>2, <1>4, <1>5, RunningKept
<1>7. \A q \in Procs : /\ state'[q] = "UNUSED" <=> (state[q] = "UNUSED" /\ q # c)
                       /\ state'[q] = "ZOMBIE" <=> state[q] = "ZOMBIE"
                       /\ state'[q] = "SLEEPING" <=> state[q] = "SLEEPING"
  BY <1>0, <1>2, <1>3 DEF Scheduled, Runnable
<1> QED BY <1>2, <1>6, <1>7 DEF Scheduled, ZombiesKept

LEMMA ExecInv ==
  ASSUME Inv, NEW p \in Procs, NEW c \in Procs, NEW i \in Pids, NEW how \in {"exec", "interp"},
         Exec(p, c, i, how)
  PROVE  Inv' /\ ZombiesKept
<1>0. /\ p = current /\ pc[p] = "user" /\ c \notin Live /\ current # Idle
      /\ i # 0 /\ process_table[i] = NULL /\ next_pid' \in Pids \ {0}
      /\ AfterEntry(p) \in [Procs -> SUBSET Sigs]
  BY FreshPid, EntryType, CurrentLive DEF Exec, EnterSyscall
<1>1. /\ current' \in Procs /\ runq' \subseteq Procs /\ state' \in [Procs -> States]
      /\ QueueHoldsReady' /\ OneRunning' /\ ZombiesKept
      /\ state'[Idle] = "RUNNING"
      /\ \A q \in Procs : /\ state'[q] = "UNUSED" <=> (state[q] = "UNUSED" /\ q # c)
                          /\ state'[q] = "ZOMBIE" <=> state[q] = "ZOMBIE"
                          /\ state'[q] = "SLEEPING" <=> state[q] = "SLEEPING"
  BY <1>0, CreateSchedule DEF Exec
<1>2. TypeOK'
  <2>1. pid[p] \in Pids /\ i \in Int
    BY ParameterAssumption DEF Inv, TypeOK, Pids
  <2> QED BY <1>0, <1>1, <2>1 DEF Exec, Inv, TypeOK
<1>3. /\ Live' = Live \cup {c}
      /\ \A j \in Pids : process_table'[j] # NULL => pid'[process_table'[j]] = j
      /\ \A q \in Procs : q \in Registered' => q \in Registered \/ q = c
      /\ process_table'[0] = Idle
  BY <1>0, RegisterLive DEF Exec
<1>4. \A q \in Procs : /\ pc'[q] = IF q = current THEN how ELSE pc[q]
                       /\ arg'[q] = IF q = current THEN i ELSE arg[q]
  BY <1>0 DEF Exec, Inv, TypeOK
<1>5. /\ pid' = [pid EXCEPT ![c] = i] /\ process_table' = [process_table EXCEPT ![i] = c]
      /\ ppid' = [ppid EXCEPT ![c] = pid[current]]
      /\ UNCHANGED <<parent, children, ghost, wait_channel>>
      /\ \A q \in Procs : pc'[q] = "idle" <=> pc[q] = "idle"
      /\ \A q \in Procs : q # current => pc'[q] = pc[q] /\ arg'[q] = arg[q]
      /\ arg'[current] = i
  BY <1>0, <1>4 DEF Exec
<1>6. Links'
  BY <1>0, <1>1, <1>3, <1>5, CreateLinks
<1>7. NoLostWakeup' /\ SleepsOnSelf'
  BY <1>0, <1>1, <1>3, <1>5, CreateWait
<1>8. ExecTargetStays' /\ PollsPid'
  BY <1>0, <1>1, <1>5, CreateExec
<1> QED BY <1>1, <1>2, <1>6, <1>7, <1>8 DEF Inv, Links

LEMMA ExecTableFullInv ==
  ASSUME Inv, NEW p \in Procs, NEW c \in Procs, NEW how \in {"exec", "interp"},
         ExecTableFull(p, c, how)
  PROVE  Inv' /\ ZombiesKept
<1>0. /\ p = current /\ pc[p] = "user" /\ c \notin Live /\ current # Idle
      /\ state[c] = "UNUSED" /\ c # Idle
      /\ ghost = NULL /\ ghost' = c /\ 0 \in Pids
      /\ AfterEntry(p) \in [Procs -> SUBSET Sigs]
  BY FreshAddress, EntryType, CurrentLive, ParameterAssumption
     DEF ExecTableFull, EnterSyscall, Pids
<1>1. /\ current' \in Procs /\ runq' \subseteq Procs /\ state' \in [Procs -> States]
      /\ QueueHoldsReady' /\ OneRunning' /\ ZombiesKept
      /\ state'[Idle] = "RUNNING"
      /\ \A q \in Procs : /\ state'[q] = "UNUSED" <=> (state[q] = "UNUSED" /\ q # c)
                          /\ state'[q] = "ZOMBIE" <=> state[q] = "ZOMBIE"
                          /\ state'[q] = "SLEEPING" <=> state[q] = "SLEEPING"
  BY <1>0, CreateSchedule DEF ExecTableFull
<1>2. TypeOK'
  <2>1. pid[p] \in Pids /\ 0 \in Int
    BY DEF Inv, TypeOK
  <2>2. /\ pid' \in [Procs -> Pids] /\ ppid' \in [Procs -> Pids] /\ arg' \in [Procs -> Int]
        /\ pc' \in [Procs -> {"user", "wait", "sleep", "exec", "interp", "idle"}]
        /\ pending_signals' \in [Procs -> SUBSET Sigs]
    BY <1>0, <2>1 DEF ExecTableFull, Inv, TypeOK
  <2>3. UNCHANGED <<process_table, next_pid, parent, children, wait_channel, signal_handlers,
                    exit_code>>
    BY DEF ExecTableFull
  <2> QED BY <1>0, <1>1, <2>2, <2>3 DEF Inv, TypeOK
<1>3. /\ \A q \in Procs : pid'[q] = IF q = c THEN 0 ELSE pid[q]
      /\ process_table' = process_table /\ process_table[0] = Idle
      /\ \A j \in Pids : process_table[j] \in Procs \cup {NULL}
  BY DEF ExecTableFull, Inv, TypeOK, IdleStays
<1>4. \A j \in Pids : process_table[j] # c
  BY <1>0, <1>3, AddressAssumption DEF Inv, TableConsistent, Live, Registered
<1>5. \A q \in Procs : q \in Registered' <=> q \in Registered
  <2>1. \A q \in Procs : pid[q] \in Pids
    BY DEF Inv, TypeOK
  <2> QED BY <1>0, <1>3, <1>4, <2>1 DEF Registered
<1>6. Live' = Live \cup {c}
  BY <1>0, <1>5, AddressAssumption DEF Live, Registered
<1>7. \A j \in Pids : process_table'[j] # NULL => pid'[process_table'[j]] = j
  BY <1>3, <1>4 DEF Inv, TableConsistent
<1>8. \A q \in Procs : /\ pc'[q] = IF q = current THEN how ELSE pc[q]
                       /\ arg'[q] = IF q = current THEN 0 ELSE arg[q]
  BY <1>0 DEF ExecTableFull, Inv, TypeOK
<1>9. /\ pid' = [pid EXCEPT ![c] = 0]
      /\ ppid' = [ppid EXCEPT ![c] = pid[current]]
      /\ UNCHANGED <<parent, children, wait_channel>>
      /\ process_table'[0] = Idle
      /\ \A q \in Procs : pc'[q] = "idle" <=> pc[q] = "idle"
      /\ \A q \in Procs : q # current => pc'[q] = pc[q] /\ arg'[q] = arg[q]
      /\ \A q \in Procs : q \in Registered' => q \in Registered \/ q = c
  BY <1>0, <1>3, <1>5, <1>8 DEF ExecTableFull
<1>10. NoLostWakeup' /\ SleepsOnSelf'
  BY <1>0, <1>1, <1>9, CreateWait
<1>12. Links'
  BY <1>0, <1>1, <1>6, <1>7, <1>9, CreateLinks
<1>11. ExecTargetStays' /\ PollsPid'
  <2>1. PollsPid'
    BY <1>0, <1>8 DEF Inv, PollsPid
  <2>2. UNCHANGED <<process_table, children>>
    BY DEF ExecTableFull
  <2>3. \A q \in Procs : (pc'[q] \in {"exec", "interp"} /\ state'[q] # "ZOMBIE" /\ arg'[q] # 0) =>
          q # current /\ pc[q] \in {"exec", "interp"} /\ state[q] # "ZOMBIE" /\ arg'[q] = arg[q]
    BY <1>1, <1>8
  <2>4. \A q \in Procs : (pc'[q] \in {"exec", "interp"} /\ state'[q] # "ZOMBIE") =>
          \/ arg'[q] = 0
          \/ pc[q] \in {"exec", "interp"} /\ state[q] # "ZOMBIE" /\ arg'[q] = arg[q]
    BY <1>1, <1>8
  <2> QED BY <2>1, <2>2, <2>3, <2>4 DEF Inv, ExecTargetStays
<1> QED BY <1>1, <1>2, <1>10, <1>11, <1>12 DEF Inv, Links
=============================================================================
