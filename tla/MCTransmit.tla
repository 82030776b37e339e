----------------------------- MODULE MCTransmit -----------------------------
(***************************************************************************)
(* Inputs of the TLC instances of Transmit: a header of 3 bytes and a      *)
(* timestamp of 1, so that replies have 6, 12 and 13 bytes: half a packet, *)
(* a packet and more than a packet.                                        *)
(***************************************************************************)
EXTENDS Transmit, TLC

ThreeSizes == (0 :> 1) @@ (1 :> 8) @@ (2 :> 7)
Patiences == {0, 1, 2}
Long == {1}
TwoContents == {1, 7}
OneStamp == {5}
=============================================================================
