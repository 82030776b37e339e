--------------------------- MODULE MessageChannel ---------------------------
(***************************************************************************)
(* What the serial receiver owes the PC: every message it sends reaches    *)
(* the handlers of the registers whole, once, and in the order sent.       *)
(***************************************************************************)
EXTENDS Naturals, Sequences

CONSTANT Messages

VARIABLES
  pending,  \* messages sent and not yet handled, oldest first
  handled   \* messages handled, in that order

Init == pending = <<>> /\ handled = <<>>

Send(m) ==
  /\ pending' = Append(pending, m)
  /\ UNCHANGED handled

Handle ==
  /\ pending # <<>>
  /\ handled' = Append(handled, Head(pending))
  /\ pending' = Tail(pending)

Next == Handle \/ \E m \in Messages : Send(m)

Safety == Init /\ [][Next]_<<pending, handled>>

Liveness == WF_<<pending, handled>>(Handle)

Spec == Safety /\ Liveness
=============================================================================
