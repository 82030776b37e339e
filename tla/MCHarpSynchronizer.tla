------------------------- MODULE MCHarpSynchronizer -------------------------
(***************************************************************************)
(* Inputs of the TLC instances of HarpSynchronizer: bytes have 4 values, 2 *)
(* and 3 of them the header's; a 32-bit word is then 256.                  *)
(***************************************************************************)
EXTENDS HarpSynchronizer

Count(a, b, c, d) == a + 4 * b + 16 * c + 64 * d

\* Timestamps that hold the header's bytes, and the largest one.
AnySeconds == {Count(0, 1, 3, 0), Count(2, 3, 1, 0), Count(3, 2, 3, 2),
               Count(1, 0, 2, 2), Count(3, 3, 3, 3)}

\* Two without the first header byte, one of them with the second, one with what
\* looks like a header, and one that ends with the first half of one.
MixedSeconds == {Count(0, 1, 3, 0), Count(0, 1, 0, 1), Count(2, 3, 1, 0), Count(0, 1, 0, 2)}
=============================================================================
