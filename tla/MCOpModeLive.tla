---------------------------- MODULE MCOpModeLive ----------------------------
(***************************************************************************)
(* Inputs of the TLC instance that checks OpMode's liveness properties.    *)
(***************************************************************************)
EXTENDS OpMode

ToActive == {[OP_MODE |-> "ACTIVE", ALIVE_EN |-> TRUE, MUTE_RPL |-> FALSE]}
DfuReset == {[RST_DEV |-> FALSE, RST_DFU |-> TRUE]}
OneTime  == {5}
=============================================================================
