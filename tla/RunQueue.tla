------------------------------ MODULE RunQueue ------------------------------
(***************************************************************************)
(* The scheduler's run queue as scheduler.c keeps it: a red-black tree     *)
(* ordered by vruntime with a cached leftmost node.                        *)
(*                                                                         *)
(* A tree is a record; every routine of the C file is an operator from     *)
(* trees to trees.  A node is named by the process it was allocated for.   *)
(* The C code moves a process to another node only when it removes a node  *)
(* with two children, and that removal does not terminate (see Remove), so *)
(* no tree in which the naming would be wrong is ever reached.             *)
(***************************************************************************)
EXTENDS Integers

CONSTANTS Procs,  \* processes other than PID 0
          NULL    \* the null pointer

\* left, right, parent, is_red and vruntime of each node; nodes is the set of processes
\* with an entry in g_sched_nodes; hung records a routine that does not return.
EmptyTree ==
  [root |-> NULL, leftmost |-> NULL, nodes |-> {}, hung |-> FALSE,
   left   |-> [p \in Procs |-> NULL],
   right  |-> [p \in Procs |-> NULL],
   parent |-> [p \in Procs |-> NULL],
   is_red |-> [p \in Procs |-> FALSE],
   vruntime |-> [p \in Procs |-> 0]]

IsRed(t, n) == n # NULL /\ t.is_red[n]
Colour(t, n, red) == IF n = NULL THEN t ELSE [t EXCEPT !.is_red[n] = red]
SetParent(t, n, q) == IF n = NULL THEN t ELSE [t EXCEPT !.parent[n] = q]

\* q's link to n, or the root if q is NULL, becomes m.
ReplaceChild(t, q, n, m) ==
  CASE q = NULL      -> [t EXCEPT !.root = m]
    [] q # NULL /\ t.left[q] = n -> [t EXCEPT !.left[q] = m]
    [] OTHER         -> [t EXCEPT !.right[q] = m]
-----------------------------------------------------------------------------
RotateLeft(t, n) ==
  LET r == t.right[n]
      t1 == SetParent([t EXCEPT !.right[n] = t.left[r]], t.left[r], n)
      t2 == ReplaceChild([t1 EXCEPT !.parent[r] = t.parent[n]], t.parent[n], n, r)
  IN  IF r = NULL THEN t ELSE [t2 EXCEPT !.left[r] = n, !.parent[n] = r]

RotateRight(t, n) ==
  LET l == t.left[n]
      t1 == SetParent([t EXCEPT !.left[n] = t.right[l]], t.right[l], n)
      t2 == ReplaceChild([t1 EXCEPT !.parent[l] = t.parent[n]], t.parent[n], n, l)
  IN  IF l = NULL THEN t ELSE [t2 EXCEPT !.right[l] = n, !.parent[n] = l]

\* The two symmetric halves of the fixups: the near child is the left one or the right one.
Near(t, n, isLeft) == IF isLeft THEN t.left[n] ELSE t.right[n]
RotateTo(t, n, isLeft) == IF isLeft THEN RotateLeft(t, n) ELSE RotateRight(t, n)

RECURSIVE InsertFixup(_, _)
InsertFixup(t, n) ==
  LET q == t.parent[n]
      g == t.parent[q]
      isLeft == q = t.left[g]
      uncle == Near(t, g, ~isLeft)
      recoloured == [t EXCEPT !.is_red[q] = FALSE, !.is_red[uncle] = FALSE, !.is_red[g] = TRUE]
      inner == n = Near(t, q, ~isLeft)
      m == IF inner THEN q ELSE n
      t1 == IF inner THEN RotateTo(t, q, isLeft) ELSE t
      t2 == [t1 EXCEPT !.is_red[t1.parent[m]] = FALSE,
                       !.is_red[t1.parent[t1.parent[m]]] = TRUE]
  IN  IF ~IsRed(t, q) THEN Colour(t, t.root, FALSE)
      ELSE IF IsRed(t, uncle) THEN InsertFixup(recoloured, g)
      ELSE InsertFixup(RotateTo(t2, t2.parent[t2.parent[m]], ~isLeft), m)

\* The loop of rbtree_insert: where a node of key k hangs under n.
RECURSIVE InsertionPoint(_, _, _)
InsertionPoint(t, k, n) ==
  LET m == IF k < t.vruntime[n] THEN t.left[n] ELSE t.right[n]
  IN  IF m = NULL THEN n ELSE InsertionPoint(t, k, m)

\* The cached leftmost node is not replaced by a smaller one.
InsertBug(t, p, k) ==
  LET new == [t EXCEPT !.nodes = @ \cup {p}, !.vruntime[p] = k, !.is_red[p] = TRUE]
      q == InsertionPoint(t, k, t.root)
      linked == IF k < t.vruntime[q] THEN [new EXCEPT !.parent[p] = q, !.left[q] = p]
                                     ELSE [new EXCEPT !.parent[p] = q, !.right[q] = p]
  IN  IF t.root = NULL
      THEN [new EXCEPT !.root = p, !.is_red[p] = FALSE, !.leftmost = p]
      ELSE InsertFixup(linked, p)

\* rbtree_insert(p) with key k.  kzalloc() succeeds.
Insert(t, p, k) ==
  LET new == [t EXCEPT !.nodes = @ \cup {p}, !.vruntime[p] = k, !.is_red[p] = TRUE]
      q == InsertionPoint(t, k, t.root)
      linked == IF k < t.vruntime[q] THEN [new EXCEPT !.parent[p] = q, !.left[q] = p]
                                     ELSE [new EXCEPT !.parent[p] = q, !.right[q] = p]
      cached == IF k < t.vruntime[t.leftmost] THEN [linked EXCEPT !.leftmost = p] ELSE linked
  IN  IF t.root = NULL
      THEN [new EXCEPT !.root = p, !.is_red[p] = FALSE, !.leftmost = p]
      ELSE InsertFixup(cached, p)
-----------------------------------------------------------------------------
\* rbtree_remove_fixup(n, q).  When the sibling is missing the loop body changes
\* nothing and the loop does not end.
RECURSIVE RemoveFixup(_, _, _)
RemoveFixup(t, n, q) ==
  LET isLeft == n = t.left[q]
      s0 == Near(t, q, ~isLeft)
      t1 == IF IsRed(t, s0)
            THEN RotateTo([t EXCEPT !.is_red[s0] = FALSE, !.is_red[q] = TRUE], q, isLeft)
            ELSE t
      s1 == Near(t1, q, ~isLeft)
      outerBlack == ~IsRed(t1, Near(t1, s1, ~isLeft))
      innerBlack == ~IsRed(t1, Near(t1, s1, isLeft))
      t2 == IF outerBlack
            THEN RotateTo([Colour(t1, Near(t1, s1, isLeft), FALSE) EXCEPT !.is_red[s1] = TRUE],
                          s1, ~isLeft)
            ELSE t1
      s2 == Near(t2, q, ~isLeft)
      t3 == Colour([t2 EXCEPT !.is_red[s2] = t2.is_red[q], !.is_red[q] = FALSE],
                   Near(t2, s2, ~isLeft), FALSE)
      t4 == RotateTo(t3, q, isLeft)
  IN  IF n = t.root \/ IsRed(t, n) THEN Colour(t, n, FALSE)
      ELSE IF s1 = NULL THEN [t EXCEPT !.hung = TRUE]
      ELSE IF outerBlack /\ innerBlack
           THEN RemoveFixup([t1 EXCEPT !.is_red[s1] = TRUE], q, t1.parent[q])
           ELSE Colour(t4, t4.root, FALSE)

\* kfree() of p's node.
FreeNode(t, p) ==
  [t EXCEPT !.nodes = @ \ {p}, !.left[p] = NULL, !.right[p] = NULL, !.parent[p] = NULL,
            !.is_red[p] = FALSE, !.vruntime[p] = 0]

\* Wrong versions of Remove: the leftmost node is not moved, the child's parent pointer is
\* not updated.
RemoveLeftmostBug(t, p) ==
  LET l == t.left[p]
      r == t.right[p]
      q == t.parent[p]
      child == IF l = NULL THEN r ELSE l
      t1 == ReplaceChild(SetParent(t, child, q), q, p, child)
      t2 == t1
      t3 == IF ~t.is_red[p] /\ child # NULL THEN RemoveFixup(t2, child, q) ELSE t2
  IN  IF p \notin t.nodes THEN t
      ELSE IF l # NULL /\ r # NULL THEN [t EXCEPT !.hung = TRUE]
      ELSE IF t3.hung THEN t3
      ELSE FreeNode(t3, p)

RemoveParentBug(t, p) ==
  LET l == t.left[p]
      r == t.right[p]
      q == t.parent[p]
      child == IF l = NULL THEN r ELSE l
      t1 == ReplaceChild(t, q, p, child)
      t2 == IF t.leftmost = p THEN [t1 EXCEPT !.leftmost = IF child # NULL THEN child ELSE q]
                              ELSE t1
      t3 == IF ~t.is_red[p] /\ child # NULL THEN RemoveFixup(t2, child, q) ELSE t2
  IN  IF p \notin t.nodes THEN t
      ELSE IF l # NULL /\ r # NULL THEN [t EXCEPT !.hung = TRUE]
      ELSE IF t3.hung THEN t3
      ELSE FreeNode(t3, p)

\* rbtree_remove(p).  With two children the successor's entry in g_sched_nodes is pointed
\* at p's node before the recursive call looks it up: the call finds the same node, with
\* the same two children, for ever.
Remove(t, p) ==
  LET l == t.left[p]
      r == t.right[p]
      q == t.parent[p]
      child == IF l = NULL THEN r ELSE l
      t1 == ReplaceChild(SetParent(t, child, q), q, p, child)
      t2 == IF t.leftmost = p THEN [t1 EXCEPT !.leftmost = IF child # NULL THEN child ELSE q]
                              ELSE t1
      t3 == IF ~t.is_red[p] /\ child # NULL THEN RemoveFixup(t2, child, q) ELSE t2
  IN  IF p \notin t.nodes THEN t
      ELSE IF l # NULL /\ r # NULL THEN [t EXCEPT !.hung = TRUE]
      ELSE IF t3.hung THEN t3
      ELSE FreeNode(t3, p)
=============================================================================
