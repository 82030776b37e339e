------------------------------ MODULE SyncClock ------------------------------
(***************************************************************************)
(* What the synchronizer owes the device: each packet of the external      *)
(* clock, and nothing else, sets the Harp time to the one it announces.    *)
(***************************************************************************)
EXTENDS Naturals

CONSTANTS
  Seconds,    \* the second counts packets carry
  Nothing,    \* no packet is due
  TimeOf(_)   \* the Harp time a packet announces

VARIABLES
  due,        \* the second count of a packet received and not yet applied
  harp_set    \* the Harp time the clock was set to last, or Nothing

Init == due = Nothing /\ harp_set = Nothing

PacketEnds(s) ==
  /\ due = Nothing
  /\ due' = s
  /\ UNCHANGED harp_set

Apply ==
  /\ due # Nothing
  /\ harp_set' = TimeOf(due)
  /\ due' = Nothing

Next == Apply \/ \E s \in Seconds : PacketEnds(s)

Spec == Init /\ [][Next]_<<due, harp_set>>
=============================================================================
