------------------------------ MODULE Registers ------------------------------
(***************************************************************************)
(* The registers of a device, core's and application's, the dispatch of a  *)
(* message to the handlers of its register, and the replies they send.     *)
(*                                                                         *)
(* A payload is a sequence of parts, one per register it would fill from   *)
(* the message's address on; it has none when it is too short for the      *)
(* register.  Every reply is a step, for the Harp time moves in between.   *)
(***************************************************************************)
EXTENDS Integers, Sequences

CONSTANTS
  AddressCount, \* values of a register's address, a uint8_t: 256
  AppCount,   \* reg_count_
  AppReadOnly,\* the application's registers whose write handler is an error
  Requests,   \* the messages the PC sends
  Values,     \* contents of a register
  Leftover,   \* ... of what follows a short payload in the receive buffer
  Times,      \* Harp times
  None        \* no message, no reply

CORE_REG_COUNT        == 18
APP_REG_START_ADDRESS == 32

TIMESTAMP_SECOND == 8
TIMESTAMP_MICRO  == 9
OPERATION_CTRL   == 10
RESET_DEF        == 11

CoreAddress == 0 .. CORE_REG_COUNT - 1
AppAddress  == APP_REG_START_ADDRESS .. APP_REG_START_ADDRESS + AppCount - 1
Address     == CoreAddress \cup AppAddress

Modes     == {"STANDBY", "ACTIVE", "RESERVED", "SPEED"}
CtrlByte  == [OP_MODE : Modes, DUMP : BOOLEAN, MUTE_RPL : BOOLEAN, ALIVE_EN : BOOLEAN]
ResetByte == [RST_DEV : BOOLEAN, RST_DFU : BOOLEAN]
Content   == Values \cup {Leftover}

\* The handlers of reg_func_table_.
WriteHandler ==
  [a \in CoreAddress |->
     CASE a = TIMESTAMP_SECOND -> "write_timestamp_second"
       [] a = TIMESTAMP_MICRO  -> "write_timestamp_microsecond"
       [] a = OPERATION_CTRL   -> "write_operation_ctrl"
       [] a = RESET_DEF        -> "write_reset_dev"
       [] a \in 12 .. 15       -> "write_reg_generic"
       [] OTHER                -> "write_to_read_only_reg_error"]

\* A write to a special register has a payload that is long enough.
Part(a) == CASE a \in {TIMESTAMP_SECOND, TIMESTAMP_MICRO} -> Times
             [] a = OPERATION_CTRL                        -> CtrlByte
             [] a = RESET_DEF                             -> ResetByte
             [] OTHER                                     -> Values
Special == TIMESTAMP_SECOND .. RESET_DEF

ASSUME RegistersAssumption ==
  /\ AddressCount \in Nat /\ AddressCount > APP_REG_START_ADDRESS
  /\ AppCount \in 0 .. AddressCount - APP_REG_START_ADDRESS
  /\ AppReadOnly \subseteq AppAddress
  /\ Leftover \notin Values /\ 0 \in Values
  /\ \A m \in Requests :
       /\ m.type \in {"READ", "WRITE", "EVENT"} /\ m.address \in 0 .. AddressCount - 1
       /\ m.payload \in Seq(Part(m.address))
       /\ m.type = "WRITE" /\ m.address \in Special => m.payload # <<>>
  /\ None \notin Requests

VARIABLES
  time,      \* what harp_time_us_64() returns
  regs,      \* the registers' contents
  msg,       \* the message in the receive buffer, or None
  at,        \* where the main loop is
  address,   \* the dump's loop variable, a uint8_t; 0 outside a dump
  to_send,   \* replies the handler has still to send: types and addresses
  last       \* history: the last reply sent, or None

vars == <<time, regs, msg, at, address, to_send, last>>

At == {"idle", "dispatch", "write_ctrl", "dump_core", "dump_app", "replying", "stopped"}

ReplyType == {"READ", "WRITE", "EVENT", "WRITE_ERROR"}
ReplyHeader == [type : ReplyType, address : 0 .. AddressCount - 1]

Fits(a, v) == CASE a \in {TIMESTAMP_SECOND, TIMESTAMP_MICRO} -> v \in Times \cup {0}
                [] a = OPERATION_CTRL -> v \in CtrlByte /\ ~v.DUMP
                [] OTHER -> v \in Content

TypeOK ==
  /\ time \in Times /\ at \in At /\ address \in 0 .. AddressCount - 1
  /\ DOMAIN regs = Address /\ \A a \in Address : Fits(a, regs[a])
  /\ msg \in Requests \cup {None}
  /\ Len(to_send) <= 1
  /\ to_send \in Seq(ReplyHeader)
  /\ last # None => last.type \in ReplyType /\ last.address \in Address

PowerUp ==
  [a \in Address |->
     CASE a = OPERATION_CTRL ->
            [OP_MODE |-> "STANDBY", DUMP |-> FALSE, MUTE_RPL |-> FALSE, ALIVE_EN |-> FALSE]
       [] OTHER -> 0]

Init ==
  /\ time \in Times /\ regs = PowerUp
  /\ msg = None /\ at = "idle" /\ address = 0 /\ to_send = <<>> /\ last = None

ctrl  == regs[OPERATION_CTRL]
Muted == ctrl.MUTE_RPL
Reply(type, a) == <<[type |-> type, address |-> a]>>
Nothing == <<>>

\* Mutated forms of the next definitions: a payload that goes on into the next
\* registers, the DUMP bit kept, timestamps of the time before, a dump that
\* forgets the last register or does not go on to the next, a message nobody
\* clears, a heartbeat that does not ask whether the device is muted.
CopiedSpilling(m) ==
  [a \in Address |-> IF a - m.address + 1 \in DOMAIN m.payload
                     THEN m.payload[a - m.address + 1] ELSE regs[a]]
WithoutDumpKept(byte) == byte
StampedLate(a)        == regs
AppDumpShort          == address < AppCount + APP_REG_START_ADDRESS - 1
NextAddressKept       == address
UnhandledKept         == "dispatch"
CanBeatMuted          == ctrl.ALIVE_EN /\ ctrl.OP_MODE = "ACTIVE"

-----------------------------------------------------------------------------
(* Outside the handlers.                                                   *)

TimeMoves(t) ==
  /\ time' = t
  /\ UNCHANGED <<regs, msg, at, address, to_send, last>>

Receive(m) ==
  /\ at = "idle"
  /\ msg' = m /\ at' = "dispatch"
  /\ UNCHANGED <<time, regs, address, to_send, last>>

CanBeat == ctrl.ALIVE_EN /\ ctrl.OP_MODE = "ACTIVE" /\ ~Muted

\* update_state(): a heartbeat may be due, and the mode may change between
\* STANDBY and ACTIVE (module OpMode says when).
UpdateState(due, next_state) ==
  /\ at = "idle"
  /\ next_state # ctrl.OP_MODE => {ctrl.OP_MODE, next_state} = {"STANDBY", "ACTIVE"}
  /\ regs' = [regs EXCEPT ![OPERATION_CTRL].OP_MODE = next_state]
  /\ to_send' = IF due /\ CanBeat THEN Reply("EVENT", TIMESTAMP_SECOND) ELSE Nothing
  /\ at' = "replying"
  /\ UNCHANGED <<time, msg, address, last>>

\* The application measures something.
AppUpdated(v) == [a \in Address |-> IF a \in AppReadOnly THEN v ELSE regs[a]]

UpdateAppState(v) ==
  /\ at = "idle"
  /\ regs' = AppUpdated(v)
  /\ UNCHANGED <<time, msg, at, address, to_send, last>>

-----------------------------------------------------------------------------
(* send_harp_reply()                                                       *)

\* set_timestamp_regs() comes before the payload is read.
Stamped(a) == [regs EXCEPT ![TIMESTAMP_SECOND] = time, ![TIMESTAMP_MICRO] = time]

\* reg_address_to_specs() of an address between the banks reads outside the
\* application's table: there is no telling what follows.
SendReply ==
  /\ to_send # <<>>
  /\ to_send' = Tail(to_send)
  /\ LET a == Head(to_send).address
     IN IF a \in Address
        THEN /\ last' = [type |-> Head(to_send).type, address |-> a,
                         stamp |-> time, payload |-> Stamped(a)[a]]
             /\ regs' = [regs EXCEPT ![TIMESTAMP_SECOND] = time, ![TIMESTAMP_MICRO] = time]
             /\ at' = at
        ELSE at' = "stopped" /\ UNCHANGED <<regs, last>>
  /\ UNCHANGED <<time, msg, address>>

\* The handler returns and the message is cleared.
Return ==
  /\ at = "replying" /\ to_send = <<>>
  /\ at' = "idle" /\ msg' = None
  /\ UNCHANGED <<time, regs, address, to_send, last>>

-----------------------------------------------------------------------------
(* handle_buffered_core_message()                                          *)

Dispatched == at = "dispatch" /\ msg.address <= CORE_REG_COUNT
Calls(type, a) == Dispatched /\ msg.type = type /\ msg.address = a

Answer(new_regs, replies) ==
  /\ regs' = new_regs /\ to_send' = replies /\ at' = "replying"
  /\ UNCHANGED <<msg, address, last>>

ReadCore(a) ==
  /\ Calls("READ", a)
  /\ Answer(IF a \in {TIMESTAMP_SECOND, TIMESTAMP_MICRO} THEN Stamped(a) ELSE regs,
            Reply("READ", a))
  /\ UNCHANGED time

WriteReadOnly(a) ==
  /\ Calls("WRITE", a) /\ WriteHandler[a] = "write_to_read_only_reg_error"
  /\ Answer(regs, Reply("WRITE_ERROR", a))
  /\ UNCHANGED time

\* copy_msg_payload_to_register(): as many bytes as the register has, whatever
\* the message holds.
Copied(m) ==
  [regs EXCEPT ![m.address] = IF m.payload = <<>> THEN Leftover ELSE m.payload[1]]

GenericReply == IF Muted THEN Nothing ELSE Reply("WRITE", msg.address)

WriteGeneric(a) ==
  /\ Calls("WRITE", a) /\ WriteHandler[a] = "write_reg_generic"
  /\ Answer(Copied(msg), GenericReply)
  /\ UNCHANGED time

\* The clock is set, in module HarpClock's way.
WriteTimestamp(a) ==
  /\ Calls("WRITE", a)
  /\ \/ WriteHandler[a] = "write_timestamp_second" /\ time' = msg.payload[1]
     \/ WriteHandler[a] = "write_timestamp_microsecond" /\ time' \in Times
  /\ Answer(regs, Reply("WRITE", a))

WithoutDump(byte) == [byte EXCEPT !.DUMP = FALSE]

\* write_operation_ctrl(): another mode is forced first, and update_state() may
\* have a heartbeat to send.
ForceState(due) ==
  /\ Calls("WRITE", OPERATION_CTRL) /\ msg.payload[1].OP_MODE # ctrl.OP_MODE
  /\ to_send' = IF due /\ CanBeat THEN Reply("EVENT", TIMESTAMP_SECOND) ELSE Nothing
  /\ at' = "write_ctrl"
  /\ UNCHANGED <<time, regs, msg, address, last>>

WriteOperationCtrl ==
  LET byte == msg.payload[1]
      dumps == byte.DUMP /\ ~byte.MUTE_RPL
  IN /\ \/ Calls("WRITE", OPERATION_CTRL) /\ byte.OP_MODE = ctrl.OP_MODE
        \/ at = "write_ctrl" /\ to_send = <<>>
     /\ regs' = [regs EXCEPT ![OPERATION_CTRL] = WithoutDump(byte)]
     /\ to_send' = IF byte.MUTE_RPL THEN Nothing ELSE Reply("WRITE", OPERATION_CTRL)
     /\ at' = IF dumps THEN "dump_core" ELSE "replying"
     /\ UNCHANGED <<time, msg, address, last>>

\* The boot loader takes over first.  reset_app() calls update_fn_, which the
\* constructor stored as reset_fn_.
WriteResetDev(v) ==
  LET byte == msg.payload[1]
  IN /\ Calls("WRITE", RESET_DEF)
     /\ IF byte.RST_DEV /\ ~byte.RST_DFU
        THEN regs' = [AppUpdated(v) EXCEPT ![OPERATION_CTRL].OP_MODE = "STANDBY"]
        ELSE UNCHANGED regs
     /\ to_send' = IF byte.RST_DEV \/ byte.RST_DFU THEN Nothing
                                                   ELSE Reply("WRITE", RESET_DEF)
     /\ at' = IF byte.RST_DFU THEN "stopped" ELSE "replying"
     /\ UNCHANGED <<time, msg, address, last>>

\* Neither a READ nor a WRITE.
IgnoreType ==
  /\ at = "dispatch" /\ msg.type = "EVENT"
  /\ msg.address <= CORE_REG_COUNT \/ msg.address \in AppAddress
  /\ Answer(regs, Nothing) /\ UNCHANGED time

\* The first address past reg_func_table_ is let through: the processor calls
\* whatever the words behind the table say.
CallPastTable ==
  /\ Dispatched /\ msg.address \notin CoreAddress /\ msg.type \in {"READ", "WRITE"}
  /\ at' = "stopped"
  /\ UNCHANGED <<time, regs, msg, address, to_send, last>>

-----------------------------------------------------------------------------
(* The dump.                                                               *)

\* The loop variable is a uint8_t.
NextAddress == (address + 1) % AddressCount

DumpCore ==
  /\ at = "dump_core" /\ to_send = <<>>
  /\ IF address < CORE_REG_COUNT
     THEN to_send' = Reply("READ", address) /\ address' = NextAddress /\ at' = at
     ELSE to_send' = Nothing /\ address' = APP_REG_START_ADDRESS /\ at' = "dump_app"
  /\ UNCHANGED <<time, regs, msg, last>>

AppDumpGoesOn == address < AppCount + APP_REG_START_ADDRESS

DumpApp ==
  /\ at = "dump_app" /\ to_send = <<>>
  /\ IF AppDumpGoesOn
     THEN to_send' = Reply("READ", address) /\ address' = NextAddress /\ at' = at
     ELSE to_send' = Nothing /\ address' = 0 /\ at' = "replying"
  /\ UNCHANGED <<time, regs, msg, last>>

-----------------------------------------------------------------------------
(* handle_buffered_app_message(), with generic handlers as in the example. *)

AppCalls(type, a) == at = "dispatch" /\ msg.address = a /\ msg.type = type

ReadApp(a) ==
  /\ AppCalls("READ", a)
  /\ Answer(regs, Reply("READ", a))
  /\ UNCHANGED time

WriteApp(a) ==
  /\ AppCalls("WRITE", a)
  /\ IF a \in AppReadOnly THEN Answer(regs, Reply("WRITE_ERROR", a))
                          ELSE Answer(Copied(msg), GenericReply)
  /\ UNCHANGED time

\* Where a message that nobody handled leaves the loop.
Unhandled == "replying"

ClearUnhandled ==
  /\ at = "dispatch" /\ msg.address \notin 0 .. CORE_REG_COUNT \cup AppAddress
  /\ at' = Unhandled
  /\ UNCHANGED <<time, regs, msg, address, to_send, last>>

Handlers ==
  \/ \E a \in CoreAddress : ReadCore(a) \/ WriteReadOnly(a) \/ WriteGeneric(a)
                              \/ WriteTimestamp(a)
  \/ \E due \in BOOLEAN : ForceState(due)
  \/ WriteOperationCtrl \/ IgnoreType \/ CallPastTable \/ DumpCore \/ DumpApp
  \/ \E v \in Values : WriteResetDev(v)
  \/ \E a \in AppAddress : ReadApp(a) \/ WriteApp(a)
  \/ ClearUnhandled \/ SendReply \/ Return

Loop ==
  \/ \E m \in Requests : Receive(m)
  \/ \E due \in BOOLEAN, next_state \in Modes : UpdateState(due, next_state)
  \/ \E v \in Values : UpdateAppState(v)

Next == Handlers \/ Loop \/ \E t \in Times : TimeMoves(t)

Spec == Init /\ [][Next]_vars

\* Handlers do not block.
FairSpec == Spec /\ WF_vars(Handlers)

-----------------------------------------------------------------------------

\* No sequence of messages, of whatever lengths, changes a read-only register.
ReadOnlyKept ==
  \A a \in CoreAddress :
    WriteHandler[a] = "write_to_read_only_reg_error" => regs[a] = 0

\* A reply that holds a timestamp register holds its own timestamp, although the
\* time moves between a handler and its reply and between two of a dump.
TimestampAgrees ==
  last # None /\ last.address \in {TIMESTAMP_SECOND, TIMESTAMP_MICRO}
    => last.payload = last.stamp

\* "Dispatch one READ reply per register": a dump shows them all, in order, each
\* of them once.
After(a) == IF a = CORE_REG_COUNT - 1 THEN APP_REG_START_ADDRESS ELSE a + 1
LastRegister == IF AppCount = 0 THEN CORE_REG_COUNT - 1
                ELSE APP_REG_START_ADDRESS + AppCount - 1
DumpInOrder ==
  [][/\ at \in {"dump_core", "dump_app"} /\ SendReply /\ last'.type = "READ" =>
          last'.address = IF last.type = "READ" THEN After(last.address) ELSE 0
     /\ at = "dump_app" /\ at' # "dump_app" => last.address = LastRegister]_vars

\* "Issue a harp reply (unless is_muted())": each handler asks for itself, some do
\* not, and a mode write mutes before its own reply and its dump.  What is left of
\* a muted device are the answers to reads, to failed writes, and to writes of the
\* clock and of the reset register: no heartbeat, no dump, no other write confirmed.
Unmuted == {TIMESTAMP_SECOND, TIMESTAMP_MICRO, RESET_DEF}
MutedIsQuiet ==
  [][SendReply /\ Muted /\ at' # "stopped" =>
       /\ msg # None /\ last'.address = msg.address
       /\ \/ last'.type = "READ" /\ msg.type = "READ"
          \/ last'.type = "WRITE_ERROR"
          \/ last'.type = "WRITE" /\ msg.address \in Unmuted]_vars

\* How many steps the handlers can still take before the loop goes on, at most; a
\* dump is at register a.
StepsFrom(place, a) ==
  CASE place \in {"idle", "stopped"} -> 0
    [] place = "replying"   -> 1
    [] place = "dump_app"   -> 2 * (APP_REG_START_ADDRESS + AppCount - a) + 2
    [] place = "dump_core"  -> 2 * (CORE_REG_COUNT - a + AppCount) + 3
    [] place = "write_ctrl" -> 2 * (CORE_REG_COUNT + AppCount) + 5
    [] place = "dispatch"   -> 2 * (CORE_REG_COUNT + AppCount) + 7
StepsLeft == Len(to_send) + StepsFrom(at, address)

\* No message keeps the handlers busy for ever, the dump of a whole device neither:
\* each step they take brings their end nearer.
HandlersEnd == [][Handlers => StepsLeft' < StepsLeft]_vars

\* "Always clear any unhandled messages, so we don't lock up": every message is
\* done with at last, whatever its type, address and payload, on a device that
\* goes on.
AlwaysCleared == msg # None ~> msg = None \/ at = "stopped"

\* "Issue a harp reply (unless is_muted())": a muted device sends no READ reply.
MutedReadsSilent ==
  [][SendReply /\ last'.type = "READ" => ~Muted]_vars

\* "Ignore out-of-range messages": they change nothing and the loop goes on.
IgnoresOutOfRange ==
  [][at = "dispatch" /\ at' # at /\ msg.address \notin Address => at' = "replying"]_vars

\* "Writing more data than the size of the register will sequentially write to
\* the next register."
LongWriteGoesOn ==
  [][\A a \in CoreAddress :
       /\ WriteGeneric(a) /\ Len(msg.payload) > 1 /\ a + 1 \in CoreAddress
       => regs'[a + 1] = msg.payload[2]]_vars

\* "reset_fn: pointer to function that will reset the app state": a device reset
\* puts the application's registers back.
ResetResetsApp ==
  [][\A v \in Values : WriteResetDev(v) /\ msg.payload[1].RST_DEV /\ at' # "stopped"
       => \A a \in AppAddress : regs'[a] = 0]_vars
=============================================================================
