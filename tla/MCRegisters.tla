---------------------------- MODULE MCRegisters ----------------------------
(***************************************************************************)
(* Inputs of the TLC instances of Registers.  The instance in which all of *)
(* them come in has addresses up to 34: with two registers of its own it   *)
(* is the largest device whose dump ends.                                  *)
(***************************************************************************)
EXTENDS Registers

Request(t, a, p) == [type |-> t, address |-> a, payload |-> p]

Ctrl(mode, dump, mute) ==
  <<[OP_MODE |-> mode, DUMP |-> dump, MUTE_RPL |-> mute, ALIVE_EN |-> TRUE]>>
Reset(dev, dfu) == <<[RST_DEV |-> dev, RST_DFU |-> dfu]>>

\* A read of each kind of register and of no register.
Reads == {Request("READ", a, <<>>) : a \in {0, 8, 10, 16, 31, 33, 34}}

\* A short, a right and a long payload for the register before a read-only one,
\* and writes to registers of every other kind.
Writes ==
  {Request("WRITE", 15, p) : p \in {<<>>, <<1>>, <<0, 1>>}}
    \cup {Request("WRITE", 16, <<1>>), Request("WRITE", 8, <<2>>),
          Request("WRITE", 9, <<2>>), Request("WRITE", 32, <<1, 1>>),
          Request("WRITE", 33, <<1>>), Request("EVENT", 12, <<1>>)}

Controls ==
  {Request("WRITE", 10, Ctrl("ACTIVE", d, m)) : d, m \in BOOLEAN}
    \cup {Request("WRITE", 10, Ctrl("STANDBY", TRUE, FALSE)),
          Request("WRITE", 11, Reset(FALSE, FALSE)),
          Request("WRITE", 11, Reset(TRUE, FALSE))}

Answered == Reads \cup Writes \cup Controls

\* With those after which the device does not go on.
Stopping == {Request("READ", 18, <<>>), Request("WRITE", 11, Reset(FALSE, TRUE))}
All == Answered \cup Stopping

MutedRead == {Request("READ", 0, <<>>), Request("WRITE", 10, Ctrl("STANDBY", FALSE, TRUE))}
LongWrite == {Request("WRITE", 13, <<0, 1>>)}
DeviceReset == {Request("WRITE", 32, <<1>>), Request("WRITE", 11, Reset(TRUE, FALSE))}
Dump == {Request("WRITE", 10, Ctrl("STANDBY", TRUE, FALSE))}

Sensor == {33}
NoApp  == {}
TwoValues == {0, 1}
TwoTimes == {1, 2}
OneTime  == {1}
=============================================================================
