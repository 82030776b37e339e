---------------------------- MODULE MCHarpClock ----------------------------
(***************************************************************************)
(* Inputs of the TLC instances of HarpClock.  A second is 4 ticks and 2    *)
(* units, a 32-bit word 26 values and a 64-bit one four words.             *)
(***************************************************************************)
EXTENDS HarpClock

NoLeads  == {}
NoWrites == {}

\* The external clock is past the first wrap of a word; and it jitters, so that the
\* offsets, -52 and -53, are 2 * 26 and 26 + 25: they differ in both words.
OneLead  == {45}
Jitter   == {52, 53}

ASecond  == {7}
AMicro   == {1}
=============================================================================
