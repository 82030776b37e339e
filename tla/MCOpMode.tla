------------------------------ MODULE MCOpMode ------------------------------
(***************************************************************************)
(* Inputs of the TLC instances of OpMode.  The .cfg files scale the clock: *)
(* where the whole second matters a second is 3 ticks, a 32-bit word 20    *)
(* and a 64-bit one 60, so that, as in the code, a second does not divide  *)
(* the 32-bit word and three seconds fit in half of it.                    *)
(***************************************************************************)
EXTENDS OpModeHistory

Byte(mode, alive, mute) == [OP_MODE |-> mode, ALIVE_EN |-> alive, MUTE_RPL |-> mute]

ActiveOrSpeed == {Byte("ACTIVE", TRUE, FALSE), Byte("SPEED", TRUE, FALSE)}
ToStandby  == {Byte("STANDBY", TRUE, FALSE)}
NoWrites   == {}

AllResets  == [RST_DEV : {TRUE}, RST_DFU : BOOLEAN]
NoResets   == {}

\* Before and after the first wrap of the 32-bit time.
TwoTimes   == {7, 49}
OneTime    == {5}
NoTimes    == {}

\* The VIEW of OpModeMoved: the state without what no later step and none of its
\* properties reads.  disconnect_start_time_us_ is written before it is read once
\* disconnect_handled_ is FALSE, `alone' starts again on the way into ACTIVE, and
\* only PcModeSticks reads pc_wrote.
LiveState ==
  << clock, usb, ctrl, flags, heartbeat_interval_us_, next_heartbeat_time_us_,
     IF disconnect_handled_ THEN disconnect_start_time_us_ ELSE 0,
     pc, now, beat, away, self_on,
     IF ctrl.OP_MODE = "ACTIVE" THEN alone ELSE 0, moved, on_time >>
=============================================================================
