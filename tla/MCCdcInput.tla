----------------------------- MODULE MCCdcInput -----------------------------
(***************************************************************************)
(* Inputs of the TLC instances of CdcInput: a byte has 8 values, the       *)
(* buffer holds 7 of them and a header is 3.  The longest message fills    *)
(* the buffer; the bytes of the others, taken for a header after an        *)
(* over-long read, give sizes that are too short, wrapped and too long.    *)
(***************************************************************************)
EXTENDS CdcInput

Shortest == <<1, 2, 6, 7>>
Middle   == <<2, 3, 7, 1, 5>>
Longest  == <<3, 5, 0, 1, 2, 3, 4>>

AllSizes == {Shortest, Middle, Longest}
=============================================================================
