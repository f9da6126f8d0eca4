--------------------------- MODULE ProcessReaping ---------------------------
(***************************************************************************)
(* waitpid() and the end of a foreground exec preserve the invariant Inv   *)
(* of module Process.                                                      *)
(***************************************************************************)
EXTENDS ProcessLemmas

\* The destruction of the registered zombie c by the current process, for which nobody else
\* polls and which is taken off every children list.
LEMMA DestroyInv ==
  ASSUME Inv, NEW c \in Procs, Destroy(current, c), pc[current] # "idle",
         state[c] = "ZOMBIE", c \in Registered, c # ghost,
         \A q \in Procs : children'[q] = IF q = c THEN {} ELSE children[q] \ {c},
         children' \in [Procs -> SUBSET Procs],
         \A q \in Procs : (pc[q] \in {"exec", "interp"} /\ state[q] # "ZOMBIE" /\ q # current)
                             => arg[q] # pid[c],
         pending_signals' \in [Procs -> SUBSET Sigs]
  PROVE  Inv' /\ ZombiesKept
<1>0. /\ current \in Procs /\ state[current] = "RUNNING" /\ current # Idle /\ current # c
      /\ c # Idle /\ pid[c] \in Pids /\ process_table[pid[c]] = c /\ pid[c] # 0
      /\ process_table[0] = Idle /\ pid[Idle] = 0 /\ 0 \in Pids
  BY CurrentLive, ParameterAssumption DEF Inv, TypeOK, IdleStays, Registered, Pids
<1>1. /\ \A j \in Pids : process_table'[j] = IF j = pid[c] THEN NULL ELSE process_table[j]
      /\ \A q \in Procs : pid'[q] = IF q = c THEN 0 ELSE pid[q]
      /\ \A q \in Procs : state'[q] = IF q = c THEN "UNUSED" ELSE state[q]
      /\ \A q \in Procs \ {c} : /\ ppid'[q] = ppid[q] /\ parent'[q] = parent[q]
                                /\ wait_channel'[q] = wait_channel[q]
      /\ UNCHANGED <<runq, current, ghost>>
  BY <1>0 DEF Destroy, Inv, TypeOK
<1>2. /\ \A q \in Procs : pc'[q] = IF q \in {c, current} THEN "user" ELSE pc[q]
      /\ \A q \in Procs : arg'[q] = IF q \in {c, current} THEN 0 ELSE arg[q]
  BY <1>0 DEF Destroy, Inv, TypeOK
<1>3. TypeOK'
  <2>1. NoHandlers \in [Sigs -> SigHandlers]
    BY DEF NoHandlers, SigHandlers
  <2>2. /\ signal_handlers' \in [Procs -> [Sigs -> SigHandlers]]
        /\ exit_code' \in [Procs -> Int] /\ next_pid' \in Pids \ {0}
    BY <2>1 DEF Destroy, Inv, TypeOK
  <2>3. /\ process_table' \in [Pids -> Procs \cup {NULL}]
        /\ pid' \in [Procs -> Pids] /\ ppid' \in [Procs -> Pids]
        /\ parent' \in [Procs -> Procs \cup {NULL}]
    BY <1>0 DEF Destroy, Inv, TypeOK
  <2>6. wait_channel' \in [Procs -> Procs \cup {NULL} \cup Pids]
    BY DEF Destroy, Inv, TypeOK
  <2>4. state' \in [Procs -> States]
    BY DEF Destroy, Inv, TypeOK, States
  <2>5. /\ pc' \in [Procs -> {"user", "wait", "sleep", "exec", "interp", "idle"}]
        /\ arg' \in [Procs -> Int]
    <3>1. /\ pc' = [[pc EXCEPT ![c] = "user"] EXCEPT ![current] = "user"]
          /\ arg' = [[arg EXCEPT ![c] = 0] EXCEPT ![current] = 0]
      BY DEF Destroy
    <3>2. pc' \in [Procs -> {"user", "wait", "sleep", "exec", "interp", "idle"}]
      BY <3>1 DEF Inv, TypeOK
    <3>3. arg' \in [Procs -> Int]
      BY <3>1 DEF Inv, TypeOK
    <3> QED BY <3>2, <3>3
  <2> QED BY <1>1, <2>2, <2>3, <2>4, <2>5, <2>6 DEF Inv, TypeOK
<1>4. QueueHoldsReady' /\ OneRunning'
  BY <1>0, <1>1 DEF Inv, QueueHoldsReady, OneRunning
<1>5. \A q \in Procs : pid[q] \in Pids /\ (q \in Registered' <=> q \in Registered /\ q # c)
  <2>1. \A q \in Procs : pid[q] \in Pids
    BY DEF Inv, TypeOK
  <2> QED BY <1>0, <1>1, <2>1, AddressAssumption DEF Registered
<1>6. \A q \in Procs : q \in Live' <=> q \in Live /\ q # c
  BY <1>1, <1>5 DEF Live
<1>7. TableConsistent'
  <2>1. \A j \in Pids : process_table'[j] # NULL =>
          process_table[j] \in Procs /\ process_table'[j] = process_table[j] /\ process_table[j] # c
    BY <1>0, <1>1 DEF Inv, TypeOK, TableConsistent
  <2>2. \A j \in Pids : process_table'[j] # NULL => pid'[process_table'[j]] = j
    BY <1>1, <2>1 DEF Inv, TableConsistent
  <2>3. \A q \in Procs : state'[q] # "UNUSED" <=> q \in Live'
    BY <1>1, <1>6 DEF Inv, TableConsistent
  <2> QED BY <2>2, <2>3 DEF TableConsistent
<1>8. ChildrenLinked'
  <2>1. ASSUME NEW q \in Procs, NEW d \in children'[q]
        PROVE  {q, d} \subseteq Live' /\ parent'[d] = q /\ ppid'[d] = pid'[q]
    <3>1. q # c /\ d \in children[q] /\ d # c /\ d \in Procs
      BY <2>1 DEF Inv, TypeOK
    <3>2. {q, d} \subseteq Live /\ parent[d] = q /\ ppid[d] = pid[q]
      BY <3>1 DEF Inv, ChildrenLinked
    <3> QED BY <1>1, <1>6, <3>1, <3>2
  <2> QED BY <2>1 DEF ChildrenLinked
<1>9. IdleStays'
  <2>1. Idle \in Procs
    BY AddressAssumption
  <2>2. \A q \in Procs : pc[q] = "idle" <=> q = Idle
    BY DEF Inv, IdleStays
  <2>3. \A q \in Procs : pc'[q] = "idle" <=> q = Idle
    BY <1>0, <1>2, <2>2
  <2> QED BY <1>0, <1>1, <2>1, <2>3 DEF Inv, IdleStays
<1>10. PidZeroApart'
  <2>1. ghost # NULL => pid[ghost] = 0 /\ ghost # Idle /\ ghost \in Procs
    BY DEF Inv, PidZeroApart, TypeOK
  <2>2. \A q \in Procs : Idle \notin children'[q] /\ ghost \notin children'[q]
    BY DEF Inv, PidZeroApart
  <2> QED BY <1>1, <2>1, <2>2 DEF PidZeroApart
<1>11. SleepsOnSelf'
  BY <1>1, <1>2 DEF Inv, SleepsOnSelf
<1>12. NoLostWakeup'
  <2>1. ASSUME NEW q \in Procs, q \in Registered',
               pc'[q] = "wait", state'[q] = "SLEEPING", pid'[q] # 1
        PROVE  Reapable(q, arg[q])' = {}
    <3>1. q # c /\ q # current /\ q \in Registered
      BY <1>1, <1>2, <1>5, <2>1
    <3>2. pc[q] = "wait" /\ state[q] = "SLEEPING" /\ pid[q] # 1 /\ arg'[q] = arg[q]
      BY <1>1, <1>2, <2>1, <3>1
    <3>3. Reapable(q, arg[q]) = {}
      BY <3>1, <3>2 DEF Inv, NoLostWakeup
    <3>4. \A d \in children'[q] : /\ d \in children[q] /\ d # c /\ pid'[d] = pid[d]
                                  /\ state'[d] = state[d]
      BY <1>1, <3>1 DEF Inv, TypeOK
    <3>5. \A d \in children'[q] : Matches(arg[q], d)' <=> Matches(arg[q], d)
      BY <3>2, <3>4 DEF Matches
    <3> QED BY <3>3, <3>4, <3>5, <3>2 DEF Reapable
  <2>2. Registered' \subseteq Procs
    BY DEF Registered
  <2> QED BY <2>1, <2>2 DEF NoLostWakeup
<1>13. PollsPid'
  BY <1>2 DEF Inv, PollsPid
<1>14. ExecTargetStays'
  <2>1. \A q \in Procs : (pc'[q] \in {"exec", "interp"} /\ state'[q] # "ZOMBIE") =>
          /\ q # current /\ pc[q] \in {"exec", "interp"} /\ state[q] # "ZOMBIE"
          /\ arg'[q] = arg[q] /\ arg[q] \in Pids /\ arg[q] # pid[c]
    BY <1>1, <1>2 DEF Inv, PollsPid
  <2>2. \A q \in Procs : children'[q] \subseteq children[q]
    OBVIOUS
  <2>3. ASSUME NEW q \in Procs, pc'[q] \in {"exec", "interp"}, state'[q] # "ZOMBIE", arg'[q] # 0
        PROVE  /\ process_table'[arg'[q]] # NULL
               /\ \A r \in Procs : process_table'[arg'[q]] \notin children'[r]
               /\ \A r \in Procs \ {q} : (pc'[r] \in {"exec", "interp"} /\ state'[r] # "ZOMBIE")
                                            => arg'[r] # arg'[q]
    <3>1. process_table'[arg'[q]] = process_table[arg[q]]
      BY <1>1, <2>1, <2>3
    <3> QED BY <2>1, <2>2, <2>3, <3>1 DEF Inv, ExecTargetStays
  <2> QED BY <2>3 DEF ExecTargetStays
<1>15. ZombiesKept
  BY <1>1 DEF ZombiesKept
<1> QED BY <1>3, <1>4, <1>7, <1>8, <1>9, <1>10, <1>11, <1>12, <1>13, <1>14, <1>15 DEF Inv

\* A process that is on a children list is registered and is neither PID 0 nor polled for.
LEMMA ChildFacts ==
  ASSUME Inv, NEW p \in Procs, NEW c \in children[p]
  PROVE  /\ c \in Procs /\ c \in Registered /\ c # Idle /\ c # ghost
         /\ \A q \in Procs : c \in children[q] => q = p
         /\ \A q \in Procs : (pc[q] \in {"exec", "interp"} /\ state[q] # "ZOMBIE") => arg[q] # pid[c]
<1>1. c \in Procs /\ c \in Live /\ c # Idle /\ c # ghost
  BY DEF Inv, TypeOK, ChildrenLinked, PidZeroApart
<1>2. c \in Registered
  BY <1>1 DEF Live
<1>3. \A q \in Procs : c \in children[q] => q = p
  BY DEF Inv, ChildrenLinked
<1>4. pid[c] # 0
  BY <1>1, <1>2 DEF Registered, Inv, IdleStays
<1>5. \A q \in Procs : (pc[q] \in {"exec", "interp"} /\ state[q] # "ZOMBIE") => arg[q] # pid[c]
  BY <1>2, <1>4 DEF Registered, Inv, ExecTargetStays
<1> QED BY <1>1, <1>2, <1>3, <1>5

\* waitpid() reaps one zombie child.
LEMMA ReapInv ==
  ASSUME Inv, pc[current] # "idle", NEW t, NEW c \in Reapable(current, t),
         NEW pend \in [Procs -> SUBSET Sigs], Reap(current, c, pend)
  PROVE  Inv' /\ ZombiesKept
<1>1. current \in Procs /\ state[current] = "RUNNING"
  BY CurrentLive DEF Inv, TypeOK
<1>2. c \in children[current] /\ state[c] = "ZOMBIE"
  BY DEF Reapable
<1>3. /\ c \in Procs /\ c \in Registered /\ c # ghost /\ c # current
      /\ \A q \in Procs : c \in children[q] => q = current
      /\ \A q \in Procs : (pc[q] \in {"exec", "interp"} /\ state[q] # "ZOMBIE") => arg[q] # pid[c]
  BY <1>1, <1>2, ChildFacts
<1>4. children \in [Procs -> SUBSET Procs]
  BY DEF Inv, TypeOK
<1>5. /\ children' \in [Procs -> SUBSET Procs]
      /\ \A q \in Procs : children'[q] = IF q = c THEN {} ELSE children[q] \ {c}
  BY <1>1, <1>3, <1>4 DEF Reap
<1>6. pending_signals' \in [Procs -> SUBSET Sigs]
  BY <1>3 DEF Reap
<1>7. Destroy(current, c)
  BY DEF Reap
<1> QED BY <1>2, <1>3, <1>5, <1>6, <1>7, DestroyInv

LEMMA ExecPollInv ==
  ASSUME Inv, NEW p \in Procs, ExecPoll(p)
  PROVE  Inv' /\ ZombiesKept
<1> DEFINE q == process_table[arg[p]]
<1>0. /\ p = current /\ pc[current] # "idle" /\ state[p] = "RUNNING"
      /\ pc[p] \in {"exec", "interp"} /\ arg[p] \in Pids
      /\ pending_signals \in [Procs -> SUBSET Sigs] /\ q \in Procs \cup {NULL}
  BY CurrentLive DEF ExecPoll, Inv, TypeOK, PollsPid
<1>1. CASE /\ Schedule(state, runq)
           /\ UNCHANGED <<table_vars, link_vars, wait_channel, signal_vars, exit_code, pc, arg>>
  BY <1>0, <1>1, PlainSchedule DEF table_vars, link_vars, signal_vars
<1>2. CASE ReturnToUser(p) /\ UNCHANGED pending_signals
  BY <1>0, <1>2, ReturnInv
<1>3. CASE /\ q # NULL /\ state[q] = "ZOMBIE" /\ pc[p] = "exec"
           /\ Destroy(p, q)
           /\ children' = [children EXCEPT ![q] = {}]
           /\ pending_signals' = [pending_signals EXCEPT ![q] = {}]
  <2>1. q \in Procs /\ state[q] = "ZOMBIE" /\ arg[p] # 0
    BY <1>0, <1>3 DEF Inv, IdleStays
  <2>2. /\ \A r \in Procs : q \notin children[r]
        /\ \A r \in Procs \ {p} : (pc[r] \in {"exec", "interp"} /\ state[r] # "ZOMBIE")
                                     => arg[r] # arg[p]
    BY <1>0, <2>1 DEF Inv, ExecTargetStays
  <2>3. pid[q] = arg[p] /\ q \in Registered /\ q # ghost
    <3>1. pid[q] = arg[p]
      BY <1>0, <1>3 DEF Inv, TableConsistent
    <3> QED BY <1>3, <2>1, <3>1 DEF Registered, Inv, PidZeroApart
  <2>4. children' \in [Procs -> SUBSET Procs] /\ pending_signals' \in [Procs -> SUBSET Sigs]
    BY <1>0, <1>3, <2>1 DEF Inv, TypeOK
  <2>5. \A r \in Procs : children'[r] = IF r = q THEN {} ELSE children[r] \ {q}
    BY <1>3, <2>1, <2>2 DEF Inv, TypeOK
  <2>6. Destroy(current, q)
    BY <1>0, <1>3
  <2> HIDE DEF q
  <2> QED BY <1>0, <2>1, <2>2, <2>3, <2>4, <2>5, <2>6, DestroyInv
<1> QED BY <1>1, <1>2, <1>3 DEF ExecPoll

\* One turn of the waitpid() loop.
LEMMA WaitLoopInv ==
  ASSUME Inv, pc[current] # "idle", NEW t \in Int, NEW nohang \in BOOLEAN,
         NEW pend \in [Procs -> SUBSET Sigs], WaitLoop(current, t, nohang, pend)
  PROVE  Inv' /\ ZombiesKept
<1>1. CASE ReturnToUser(current) /\ pending_signals' = pend
  BY <1>1, ReturnInv
<1>2. CASE \E c \in Reapable(current, t) : Reap(current, c, pend)
  BY <1>2, ReapInv
<1>3. CASE /\ Reapable(current, t) = {}
           /\ pc' = [pc EXCEPT ![current] = "wait"]
           /\ arg' = [arg EXCEPT ![current] = t]
           /\ pending_signals' = pend
           /\ SleepOn(current)
           /\ UNCHANGED <<table_vars, link_vars, signal_handlers, exit_code>>
  <2>1. current \in Procs
    BY DEF Inv, TypeOK
  <2>2. /\ arg' \in [Procs -> Int] /\ arg'[current] = t
        /\ \A p \in Procs : p # current => arg'[p] = arg[p]
    BY <1>3, <2>1 DEF Inv, TypeOK
  <2>3. Reapable(current, arg'[current]) = {}
    BY <1>3, <2>2
  <2> QED BY <1>3, <2>1, <2>2, <2>3, SleepOnInv DEF table_vars, link_vars
<1> QED BY <1>1, <1>2, <1>3 DEF WaitLoop
=============================================================================
