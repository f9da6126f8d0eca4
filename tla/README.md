# ModuOS in TLA+

A verification development kept beside the ModuOS kernel: TLA+ models of its process life cycle,
scheduler, event queue and keyboard path, TLC configurations that check them on small instances,
and TLAPS proofs of the properties that matter most, for every size.  Paths below are relative to
the kernel sources; `PROJECT.json` maps every definition to the lines it models.

The kernel runs on **one CPU** (`core/smp.c`) and is **cooperative**: `schedule()` is entered only
from `process_yield`, `sleep_on`, `do_exit`/`process_exit` and the idle loop; the tick sets
`need_resched` and nothing on the way out of an interrupt acts on it.  Interrupt handlers run the
tick and the keyboard decoder.  So two kinds of interleaving exist: processes interleave at the
points where they call `schedule()`, and interrupts interleave with everything that does not mask
them (a spinlock does not).

## The system

| Part | State | Operations | Talks to | What is hard |
|---|---|---|---|---|
| Process table (`process_table.c`, `process.c`) | slots by PID, next PID, structures | alloc, register, find, destroy | everything | PID reuse, full table |
| Life cycle (`wait_new.c`, `exit_new.c`, `exec.c`, `fork_impl.c`) | parent, children, state, wait channel, status | fork, exec, wait, exit, fault | scheduler, signals | lost wakeups, orphans, polling a reaped PID |
| Signals (`signals_new.c`) | pending set, handlers | send, signal, check | scheduler | wakes a sleeper that is also being woken; order of delivery |
| Scheduler (`scheduler.c`) | red-black tree, leftmost, vruntimes, min_vruntime | add, remove, pick, requeue, tick, sleep, wakeup | all blocking code | stale leftmost, ticks inside `schedule()`, starvation |
| Event queue (`events.c`) | ring | push, poll, wait, clear | interrupts | check-then-halt race |
| Keyboard (`ps2.c`, `input.c`, part of `devfs.c`) | prefixes, modifiers, two rings, line | interrupt, open, read, `input()` | programs | multi-byte codes and sequences, two buffers of one key |
| File descriptors, pipes (`fd.c`) | one global table, pipe rings, write buffers | open, close, dup, fork copy, read, write | processes, cache | shared ends, close order, full pipe |
| File cache (`hvfs_cache.c`) | entries with reference counts | lookup, store, release, evict | fd | stale contents, buffer in use evicted |
| UserFS (`userfs.c`) | tree, owners, rings | register, open, read, write, owner exit | processes | handle outlives node, blocking read that halts |
| Kernel heap (`kheap.c`) | free list, bump pointer, node pool | kmalloc, kfree, aligned | everything | coalescing, pool exhaustion |
| Frames (`phys.c`) | bitmap, reference counts | alloc, free, contiguous, ref | paging, fork, fault | a contiguous run found while single frames come and go |
| Paging, faults, FPU (`paging.c`, `fault.c`, `fpu_lazy.c`) | page tables, FPU owner | map, COW fault, lazy switch | frames, processes | partial failure, stale owner |
| Locks (`spinlock.h`, `rwlock.h`) | words | lock, try, unlock | - | only with several CPUs |
| File systems (`MDFS`, `FAT32`, `ISO9660`, `fs.c`) | disk structures, mounts | create, write, remove | block devices | crash between two writes |
| Drivers (disk, USB, graphics, PCI, ACPI, audio) | registers | I/O | - | hardware |
| Modules, loader, autostart (`sqrm.c`, `elf.c`, `autostart.c`) | loaded set | load, resolve | file systems | dependency order |

## Modules

| Module | Models | Correspondence |
|---|---|---|
| `Process` | table, life cycle, signals | A process structure is an address in `Procs`; each field is a variable indexed by it. `pc`/`arg` say where in the kernel a process is blocked. Every system call is one action from its entry (with `check_signals`, as `syscall_handler` calls it first) to its return or to its `schedule()`. The run queue is a set here; its order is `Scheduler`'s subject. |
| `RunQueue` | red-black tree | Each C routine is an operator on a record of pointers. |
| `Scheduler` | `schedule()`, ticks, enqueue, sleep, wakeup | `schedule()` is two steps, requeue and pick, since a tick may fall between them. |
| `FairQueue` | what a run queue promises | Abstract; `Scheduler` refines it. |
| `Ring` | the rings of `events.c` and `devfs.c` | Index arithmetic modulo the size. |
| `EventQueue` | `events.c` against interrupts | `hlt_wait_preserve_if` is the `sti; hlt` shadow: no interrupt between the two. |
| `BoundedFifo` | what the event queue promises | Abstract; `EventQueue` refines it. |
| `Input` | scan codes, kbd0, event0, the line editor, programs reading kbd0 | An interrupt handler is one action; `input()` takes one step per byte it reads. |
| `LineEditor`, `InputEditor` | what a line editor promises, and the mapping | Abstract keys applied one at a time to `left`/`right` of a cursor. |
| `ProcessLemmas`, `ProcessCreation`, `ProcessReaping`, `ProcessProofs`, `EventQueueProofs`, `FairQueueProofs` | proofs | |
| `MCProcess`, `MCScheduler`, `MCInput` | constants for TLC | |

Operators whose names end in `Bug` are wrong versions of the definition after them, kept to show
that each property fails when the code is wrong.

## Runs

| Run | Instance | Shows |
|---|---|---|
| `process` | 4 structures (PID 0, PID 1, two more), 4 PIDs, SIGKILL, wait for any or for PID 3 | Type, run queue = READY processes, one RUNNING process, table and PIDs, children lists, no lost wakeup, a polled PID stays, zombies stay dead |
| `process_signals` | 4 structures, 3 PIDs (so the table fills), signals 2 and 9, handlers ignore/user | SIGKILL cannot be caught or ignored, and when it is the first signal to be acted on the process dies; the inductive invariant of the proofs also holds with a PID-0 process outside the table |
| `process_live` | 4 structures, fair | `waitpid` and foreground exec return once the process waited for is dead |
| `process_orphans` (violation) | 4 structures | PID 1 may exit; later orphans keep a dead parent |
| `process_sleep` (violation) | fair | `sleep()` never ends: nobody wakes the channel or reads `sleep_ticks` |
| `scheduler` | 3 processes, one of half the weight, vruntimes up to 8 quarter-milliseconds, fair | Tree routines terminate, tree = READY processes with consistent links, leftmost is least, queued keys never ahead, refinement of `FairQueue`, no starvation |
| `scheduler_four` (violation) | 4 processes | Taking the leftmost process never meets a node with two children, but the leftmost cache can move to an inner node; `rbtree_remove` then recurses for ever |
| `event_queue` | ring of 3, two kinds of events, fair | FIFO refinement, index agreement, no halt with an event queued, `event_wait` returns |
| `input_edit` | 8 keys, 4 strokes, line of 3 characters | Refinement of `LineEditor`, line bounds, whole escape sequences, kbd0 drained on return |
| `input_shift` | 8 keys, 3 strokes, one program, fair | Decoder in step with the wire, both shift states agree, Enter ends the line |
| `input_replay` (violation) | 2 keys | A key struck between the two flushes of `input()` is lost for kbd0 and left in event0 |
| `input_flags` (violation) | 2 programs | The last opener's O_NONBLOCK decides for every reader of kbd0 |

**Bounds.**  Two processes besides PID 1 give every family shape the code distinguishes (parent,
child, orphan, sibling) and let a PID be reused; a third tree node is the first at which rotations
happen and a fourth the first at which an inner node can be removed.  A ring of three wraps, fills
and empties.  Four strokes make a line full at three characters and leave one edit after it.
`MaxVruntime` saturates virtual time, and `MaxKeys` stops the typist, which is why the `Input` runs
do not check deadlock.

**Fairness.**  `process_live`: the idle loop calls `schedule()`; a queued process is eventually
picked (justified by `scheduler`'s `StarvationFree`) and, once on the CPU inside a wait loop, takes
its next step.  Programs in user mode owe nothing.  `scheduler`: the timer ticks, `schedule()` ends
and is called again; that programs call it is an assumption on them, since the kernel is cooperative.
`StarvationFree` also assumes that process creation stops: each new process starts at
`min_vruntime` and could exit before a tick charges it.  `event_queue`: the timer interrupt comes
again, and a process in `event_wait` keeps running.  `input_shift`: pending scan codes raise
interrupts and `input()` keeps running.

## Proofs

* `ProcessProofs`: `Spec => []Inv` for any sets of addresses, PIDs, signals, handlers and statuses
  meeting `AddressAssumption` and `ParameterAssumption`.  The run queue, table, family and wakeup
  properties are not inductive alone: `Inv` adds that PID 0 keeps its slot and never sleeps
  (`IdleStays`), that only PID 0 and a process made when the table was full have PID 0
  (`PidZeroApart`), that a waiting process sleeps on its own address (`SleepsOnSelf`, without which
  an exit could wake the wrong channel) and that a polled PID is in range (`PollsPid`).
  `ProcessLemmas` holds what `schedule()`, sleeping, waking and signals keep, `ProcessCreation` fork
  and exec, `ProcessReaping` wait and the end of exec, `ProcessProofs` death and the theorems.
  `NoLostWakeup` excepts PID 1: a zombie handed to it by a dying parent does not wake it.
* `EventQueueProofs`: type, index agreement, no halt with an event queued, and the refinement of
  `BoundedFifo`, for every ring size.
* `FairQueueProofs`: the floor stays below every queued key, for any set of natural keys; with the
  refinement checked by `scheduler` this is the floor of the real tree.

Only model-checked: everything about the red-black tree (recursive routines) and the keyboard path,
and all liveness.

## Not modelled yet, and the plan

1. File descriptors and pipes (`fd.c`): the global table with dup, fork copies and pipe ends;
   properties: end of file exactly when the last writer is gone, buffered bytes written once, no
   buffer owned twice.  Composition with `Process` through `fd_close_all` at exit.
2. Kernel heap (`kheap.c`) as intervals: blocks and free ranges disjoint and inside the arena, proved
   for every arena; what the bounded node pool loses.  Frames (`phys.c`): bitmap against reference
   counts; contiguous search against a reference definition; then copy-on-write and fork copies.
3. File cache with its users, UserFS with owner exit, lazy FPU owner.
4. Status encoding and path normalisation as pure operators against reference definitions; USB
   report comparison as a second source of key events for `Input`.
5. MDFS, then FAT32 allocation with a crash between two writes; module dependency order; autostart.
6. Proofs: heap and frame invariants, table invariants of file descriptors, the pipe as a refinement
   of `BoundedFifo`.

Out of scope: register-level drivers, drawing, parsing of ISO9660/ELF/ACPI tables, boot code,
user-space programs, SDK and external code.  The reader-writer lock has no user in the kernel and
spinlocks cannot contend on one CPU.
