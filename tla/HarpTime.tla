------------------------------ MODULE HarpTime ------------------------------
(***************************************************************************)
(* Microsecond arithmetic of the Harp core.  Times are unsigned words: 64  *)
(* bits wide in harp_time_us_64() and the offsets, 32 bits wide in the     *)
(* heartbeat and disconnection bookkeeping of update_state().  Word stands *)
(* for 2^32, Long for 2^64, Second for the 1'000'000 microseconds of a     *)
(* second; a model run scales the three down together.                     *)
(***************************************************************************)
EXTENDS Integers

CONSTANTS
  Word,      \* number of values of a uint32_t
  Wraps,     \* how many 32-bit words a 64-bit one holds
  Second     \* microseconds in a second

\* Three seconds fit in the positive half of an int32_t, as they do in the code.
ASSUME TimeAssumption ==
  /\ Word \in Nat /\ Wraps \in Nat \ {0} /\ Second \in Nat \ {0}
  /\ Word % 2 = 0 /\ Word \div 2 > 3 * Second

Long == Wraps * Word

NO_PC_INTERVAL_US             == 3 * Second
HEARTBEAT_ACTIVE_INTERVAL_US  == Second
HEARTBEAT_STANDBY_INTERVAL_US == 3 * Second

Time32 == 0 .. Word - 1
Time64 == 0 .. Long - 1

\* Mutated forms of the next definitions: a sum kept in more than 32 bits, and
\* times compared as if they never wrapped.
Add32Wide(a, b)        == a + b
IsDueUnsigned(curr, next) == curr >= next

\* uint32_t(t), and uint32_t addition and subtraction.
Us32(t)     == t % Word
Add32(a, b) == (a + b) % Word
Sub32(a, b) == (a - b) % Word

\* int32_t(curr - next) >= 0
IsDue(curr, next) == Sub32(curr, next) < Word \div 2

\* curr_time_us - remainder + interval, the remainder being that of the
\* 32-bit time and not of the 64-bit one.
HeartbeatAfter(curr, interval) ==
  Add32(Sub32(curr, curr % Second), interval)
=============================================================================
