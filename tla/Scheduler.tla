----------------------------- MODULE Scheduler -----------------------------
(***************************************************************************)
(* schedule(), the run queue and the timer tick that interrupts it.        *)
(*                                                                         *)
(* spinlock_lock() does not mask interrupts, and scheduler_tick() takes no *)
(* lock, so a tick may fall between requeue() and pick_next() while        *)
(* `current' still names the process that is giving up the CPU.            *)
(*                                                                         *)
(* Time is counted in quarters of a millisecond: a tick adds 4 * 1024 /    *)
(* weight to the current process, MIN_GRANULARITY_NS is 3.                 *)
(***************************************************************************)
EXTENDS RunQueue

CONSTANTS Idle,        \* PID 0, never in the tree
          InitProc,    \* the process queued at boot
          Charge,      \* what a tick adds to each process: 4 * 1024 / weight
          MaxVruntime  \* bound: virtual runtimes stop growing here

ASSUME SchedulerAssumption ==
  /\ Idle \notin Procs /\ NULL \notin Procs /\ InitProc \in Procs
  /\ Charge \in [Procs -> Nat \ {0}]
  /\ MaxVruntime \in Nat

MIN_GRANULARITY == 3

VARIABLES tree,          \* g_sched and g_sched_nodes
          min_vruntime,
          current,
          picking,       \* schedule() is between requeue() and pick_next()
          status,        \* process_t.state; NEW before process creation
          vruntime,      \* process_t.vruntime
          need_resched   \* process_t.need_resched

vars == <<tree, min_vruntime, current, picking, status, vruntime, need_resched>>

AtLeast(a, b) == IF a < b THEN b ELSE a
AtMost(a, b) == IF a > b THEN b ELSE a

Init ==
  /\ tree = Insert(EmptyTree, InitProc, 0)
  /\ min_vruntime = 0
  /\ current = Idle
  /\ picking = FALSE
  /\ status = [p \in Procs |-> IF p = InitProc THEN "READY" ELSE "NEW"]
  /\ vruntime = [p \in Procs |-> 0]
  /\ need_resched = [p \in Procs |-> FALSE]

\* Wrong versions of Enqueue: the process keeps its old vruntime, the key is not floored,
\* kzalloc() fails and nobody notices.
EnqueueKeyBug(p, v) ==
  /\ tree' = Insert(tree, p, AtLeast(v, min_vruntime))
  /\ status' = [status EXCEPT ![p] = "READY"]
  /\ UNCHANGED vruntime
EnqueueFloorBug(p, v) ==
  /\ vruntime' = [vruntime EXCEPT ![p] = v]
  /\ tree' = Insert(tree, p, v)
  /\ status' = [status EXCEPT ![p] = "READY"]
EnqueueLostBug(p, v) ==
  /\ vruntime' = [vruntime EXCEPT ![p] = AtLeast(v, min_vruntime)]
  /\ status' = [status EXCEPT ![p] = "READY"]
  /\ UNCHANGED tree

\* scheduler_add_process() and requeue(): the key is floored to min_vruntime.
Enqueue(p, v) ==
  LET k == AtLeast(v, min_vruntime)
  IN  /\ vruntime' = [vruntime EXCEPT ![p] = k]
      /\ tree' = Insert(tree, p, k)
      /\ status' = [status EXCEPT ![p] = "READY"]

\* The current process makes another one runnable: process creation gives it
\* min_vruntime, wakeup() and send_signal() leave it the one it has.
Add(p) ==
  /\ ~tree.hung /\ ~picking /\ current # Idle
  /\ status[p] \in {"NEW", "SLEEPING"}
  /\ Enqueue(p, IF status[p] = "NEW" THEN min_vruntime ELSE vruntime[p])
  /\ UNCHANGED <<min_vruntime, current, picking, need_resched>>

\* schedule() called by a process that can still run.
Yield ==
  /\ ~tree.hung /\ ~picking /\ current # Idle
  /\ Enqueue(current, vruntime[current])
  /\ need_resched' = [need_resched EXCEPT ![current] = FALSE]
  /\ picking' = TRUE
  /\ UNCHANGED <<min_vruntime, current>>

\* The caller stops being runnable and calls schedule().  It is not in the tree, so
\* scheduler_remove_process() finds no node.
Leave(s) ==
  /\ ~tree.hung /\ ~picking /\ current # Idle
  /\ status' = [status EXCEPT ![current] = s]
  /\ tree' = Remove(tree, current)
  /\ need_resched' = [need_resched EXCEPT ![current] = FALSE]
  /\ picking' = TRUE
  /\ UNCHANGED <<min_vruntime, current, vruntime>>

\* sleep_on(); do_exit() and process_exit(), after which the structure may be used for a
\* new process.
Sleep == Leave("SLEEPING")
Exit == Leave("NEW")

\* schedule() called from the idle loop: PID 0 is not requeued.
IdleLoop ==
  /\ ~tree.hung /\ ~picking /\ current = Idle
  /\ picking' = TRUE
  /\ UNCHANGED <<tree, min_vruntime, current, status, vruntime, need_resched>>

\* The root is taken instead of the leftmost node.
PickRootBug ==
  /\ ~tree.hung /\ picking
  /\ picking' = FALSE
  /\ IF tree.root = NULL
     THEN current' = Idle /\ UNCHANGED <<tree, status, need_resched>>
     ELSE /\ tree' = Remove(tree, tree.root)
          /\ current' = tree.root
          /\ status' = [status EXCEPT ![tree.root] = "RUNNING"]
          /\ need_resched' = [need_resched EXCEPT ![tree.root] = FALSE]
  /\ UNCHANGED <<min_vruntime, vruntime>>

\* pick_next() and the rest of schedule().
PickNext ==
  /\ ~tree.hung /\ picking
  /\ picking' = FALSE
  /\ IF tree.leftmost = NULL
     THEN current' = Idle /\ UNCHANGED <<tree, status, need_resched>>
     ELSE /\ tree' = Remove(tree, tree.leftmost)
          /\ current' = tree.leftmost
          /\ status' = [status EXCEPT ![tree.leftmost] = "RUNNING"]
          /\ need_resched' = [need_resched EXCEPT ![tree.leftmost] = FALSE]
  /\ UNCHANGED <<min_vruntime, vruntime>>

\* scheduler_tick() with update_curr().  PID 0 is charged too; nothing reads its vruntime.
Tick ==
  /\ ~tree.hung
  /\ min_vruntime' = IF tree.leftmost = NULL THEN min_vruntime
                     ELSE AtLeast(min_vruntime, tree.vruntime[tree.leftmost])
  /\ IF current = Idle THEN UNCHANGED <<vruntime, need_resched>>
     ELSE LET v == AtMost(vruntime[current] + Charge[current], MaxVruntime)
          IN  /\ vruntime' = [vruntime EXCEPT ![current] = v]
              /\ need_resched' = [need_resched EXCEPT ![current] =
                   @ \/ (min_vruntime' > 0 /\ v > min_vruntime' + MIN_GRANULARITY)]
  /\ UNCHANGED <<tree, current, picking, status>>

Next == Tick \/ Yield \/ Sleep \/ Exit \/ IdleLoop \/ PickNext \/ \E p \in Procs : Add(p)

Spec == Init /\ [][Next]_vars

\* The timer keeps ticking, schedule() comes to its end, and both the idle loop and every
\* process call it again.  The last is an assumption on the programs: the kernel is
\* cooperative, nothing on the way out of an interrupt acts on need_resched.
FairSpec == Spec /\ WF_vars(Tick) /\ []<>picking /\ []<>(~picking)
-----------------------------------------------------------------------------
\* The type of every variable; the tree's entry points name allocated nodes.
TypeOK ==
  /\ tree.nodes \subseteq Procs
  /\ {tree.root, tree.leftmost} \subseteq tree.nodes \cup {NULL}
  /\ min_vruntime \in 0..MaxVruntime
  /\ current \in Procs \cup {Idle}
  /\ picking \in BOOLEAN
  /\ status \in [Procs -> {"NEW", "READY", "RUNNING", "SLEEPING"}]
  /\ vruntime \in [Procs -> 0..MaxVruntime]
  /\ need_resched \in [Procs -> BOOLEAN]

\* Every routine of the tree returns: rbtree_remove() never loops or recurses for ever.
OperationsTerminate == ~tree.hung

\* The tree holds the READY processes, each once, and every one of them can be reached
\* from the root along links whose parent pointers agree.
TreeHoldsReady ==
  /\ tree.nodes = {p \in Procs : status[p] = "READY"}
  /\ \A p \in tree.nodes :
       \/ tree.root = p /\ tree.parent[p] = NULL
       \/ tree.parent[p] \in tree.nodes /\ p \in {tree.left[tree.parent[p]], tree.right[tree.parent[p]]}
  /\ \A p \in tree.nodes : {tree.left[p], tree.right[p]} \subseteq tree.nodes \cup {NULL}

\* The cached leftmost node has a least key: schedule() runs a process that has had the
\* least CPU time.
LeftmostIsLeast ==
  /\ tree.leftmost = NULL <=> tree.nodes = {}
  /\ \A p \in tree.nodes : tree.vruntime[tree.leftmost] <= tree.vruntime[p]

\* A tick that falls inside schedule() charges a process that is already queued; its node
\* keeps the older key, and never a newer one.
KeyNotAhead == \A p \in tree.nodes : tree.vruntime[p] <= vruntime[p]

\* The tree is a run queue in the sense of FairQueue.
Queue == INSTANCE FairQueue WITH queued <- tree.nodes, key <- tree.vruntime,
                                 floor <- min_vruntime, Keys <- 0..MaxVruntime
ImplementsFairQueue == Queue!Spec

\* A READY process gets the CPU: charging vruntime, the floor and the order of equal keys
\* in the tree let no process stay at the front for ever.  (An endless stream of new
\* processes could: each starts at min_vruntime, and may exit before a tick charges it.)
Created(p) == status[p] = "NEW" /\ status'[p] = "READY"
StarvationFree ==
  (<>[][\A p \in Procs : ~Created(p)]_vars)
     => \A p \in Procs : (status[p] = "READY") ~> (status[p] = "RUNNING")
=============================================================================
