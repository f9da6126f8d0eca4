----------------------------- MODULE LineEditor -----------------------------
(***************************************************************************)
(* What the keyboard path promises: keys are applied to the line one at a  *)
(* time and in the order they were struck, each with its own effect.       *)
(***************************************************************************)
EXTENDS Naturals, Sequences

CONSTANTS Characters, Controls, MaxLen

VARIABLES keys,     \* keys struck and not yet applied, oldest first
          left,     \* the line before the cursor
          right,    \* the line from the cursor on
          editing   \* the line is not finished

vars == <<keys, left, right, editing>>

Init == keys = <<>> /\ left = <<>> /\ right = <<>> /\ editing = FALSE

Struck ==
  /\ keys' \in {Append(keys, k) : k \in Characters \cup Controls}
  /\ UNCHANGED <<left, right, editing>>

Start == ~editing /\ editing' = TRUE /\ left' = <<>> /\ right' = <<>> /\ UNCHANGED keys

\* What remains of the first n characters of s when one more or one fewer is kept.
Front(s, n) == SubSeq(s, 1, n)

\* The effect of key k on the line.
Effect(k) ==
  LET l == Len(left)
      room == l + Len(right) < MaxLen
  IN  CASE k \in Characters /\ room -> left' = Append(left, k) /\ right' = right
        [] k = "BS" /\ l > 0 -> left' = Front(left, l - 1) /\ right' = right
        [] k = "DELETE" /\ right # <<>> -> left' = left /\ right' = Tail(right)
        [] k = "ARROW_LEFT" /\ l > 0 -> left' = Front(left, l - 1) /\ right' = <<left[l]>> \o right
        [] k = "ARROW_RIGHT" /\ right # <<>> -> left' = Append(left, Head(right)) /\ right' = Tail(right)
        [] k = "HOME" -> left' = <<>> /\ right' = left \o right
        [] k = "END" -> left' = left \o right /\ right' = <<>>
        [] OTHER -> UNCHANGED <<left, right>>

Apply ==
  /\ editing /\ keys # <<>>
  /\ keys' = Tail(keys)
  /\ Effect(Head(keys))
  /\ editing' = (Head(keys) # "LF")

\* Keys struck before the next line starts are forgotten.
Forget == ~editing /\ keys' = <<>> /\ UNCHANGED <<left, right, editing>>

Next == Start \/ Apply \/ Forget \/ Struck

Spec == Init /\ [][Next]_vars
=============================================================================
