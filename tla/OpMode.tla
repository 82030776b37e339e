------------------------------- MODULE OpMode -------------------------------
(***************************************************************************)
(* The operation-mode state machine of the Harp core: update_state(), the  *)
(* writes that force a mode (R_OPERATION_CTRL, R_RESET_DEF), and the main  *)
(* loop that interleaves them with the USB port and with the clock.        *)
(*                                                                         *)
(* One turn of run() is BeginUpdate, UpdateState, then the handling of at  *)
(* most one message.  The synchronizer's interrupt, the timer and the PC   *)
(* act between any two of these steps; update_state() is two steps because *)
(* it reads the clock before it asks whether the clock is synchronized.    *)
(***************************************************************************)
EXTENDS HarpTime

CONSTANTS
  Writes,     \* the R_OPERATION_CTRL bytes the PC writes
  Resets,     \* the R_RESET_DEF bytes the PC writes
  SyncTimes,  \* the Harp times the synchronizer sets the clock to
  TimeWrites, \* the Harp times the PC sets it to, by R_TIMESTAMP_SECOND
  MaxLag,     \* bound: ticks the loop may let pass between two update_state()
  None        \* no message waiting

Modes     == {"STANDBY", "ACTIVE", "RESERVED", "SPEED"}
CtrlByte  == [OP_MODE : Modes, ALIVE_EN : BOOLEAN, MUTE_RPL : BOOLEAN]
ResetByte == [RST_DEV : BOOLEAN, RST_DFU : BOOLEAN]

ASSUME OpModeAssumption ==
  /\ Writes \subseteq CtrlByte
  /\ Resets \subseteq ResetByte
  /\ SyncTimes \subseteq Time64 /\ TimeWrites \subseteq Time64
  /\ MaxLag \in Nat \ {0}

Message == [reg : {"R_OPERATION_CTRL"}, byte : Writes]
             \cup [reg : {"R_RESET_DEF"}, byte : Resets]
             \cup [reg : {"R_TIMESTAMP_SECOND"}, byte : TimeWrites]

ASSUME NoneAssumption == None \notin Message

VARIABLES
  harp_us,       \* what harp_time_us_64() returns
  synced,        \* is_synced(): the synchronizer has decoded a packet
  lag,           \* ticks since the clock was last read by update_state()
  port_open,     \* the PC holds the serial port open
  connected,     \* tud_cdc_connected(): the port as of the last tud_task()
  rx,            \* the message waiting in the USB FIFO, or None
  ctrl,          \* regs_.R_OPERATION_CTRL
  connect_handled_, disconnect_handled_, sync_handled_,
  heartbeat_interval_us_, next_heartbeat_time_us_, disconnect_start_time_us_,
  pc,            \* where the main loop is
  now,           \* curr_time_us of the update_state() under way, 0 outside one
  beat           \* the last update_state() dispatched a heartbeat EVENT

clock == <<harp_us, synced, lag>>
usb   == <<port_open, connected, rx>>
flags == <<connect_handled_, disconnect_handled_, sync_handled_>>
times == <<heartbeat_interval_us_, next_heartbeat_time_us_,
           disconnect_start_time_us_>>
vars  == <<clock, usb, ctrl, flags, times, pc, now, beat>>

PcAt == {"tud_task", "update", "dispatch", "force", "bootsel"}

TypeOK ==
  /\ harp_us \in Time64 /\ synced \in BOOLEAN /\ lag \in 0 .. MaxLag
  /\ port_open \in BOOLEAN /\ connected \in BOOLEAN /\ rx \in Message \cup {None}
  /\ ctrl \in CtrlByte
  /\ connect_handled_ \in BOOLEAN /\ disconnect_handled_ \in BOOLEAN
  /\ sync_handled_ \in BOOLEAN
  /\ heartbeat_interval_us_ \in
       {HEARTBEAT_ACTIVE_INTERVAL_US, HEARTBEAT_STANDBY_INTERVAL_US}
  /\ next_heartbeat_time_us_ \in Time32 /\ disconnect_start_time_us_ \in Time32
  /\ pc \in PcAt /\ now \in Time64 /\ beat \in BOOLEAN
  /\ pc = "force" => rx \in Message /\ rx.reg = "R_OPERATION_CTRL"

-----------------------------------------------------------------------------
(* Power-up: the constructors, run within the first second of the timer.   *)

Init ==
  /\ harp_us \in 0 .. Second - 1 /\ synced = FALSE /\ lag = 0
  /\ port_open = FALSE /\ connected = FALSE /\ rx = None
  /\ ctrl = [OP_MODE |-> "STANDBY", ALIVE_EN |-> FALSE, MUTE_RPL |-> FALSE]
  /\ connect_handled_ = FALSE /\ disconnect_handled_ = FALSE
  /\ sync_handled_ = FALSE
  /\ heartbeat_interval_us_ = HEARTBEAT_STANDBY_INTERVAL_US
  /\ next_heartbeat_time_us_ =
       HeartbeatAfter(Us32(harp_us), HEARTBEAT_STANDBY_INTERVAL_US)
  /\ disconnect_start_time_us_ = 0
  /\ pc = "tud_task" /\ now = 0 /\ beat = FALSE

-----------------------------------------------------------------------------
(* Outside the loop: the timer, the synchronizer's interrupt and the PC.   *)

Running == pc # "bootsel"

Tick ==
  /\ Running /\ lag < MaxLag
  /\ harp_us' = (harp_us + 1) % Long
  /\ lag' = lag + 1
  /\ UNCHANGED <<synced, usb, ctrl, flags, times, pc, now, beat>>

\* uart_rx_callback() applies a packet: it may preempt the loop anywhere.
SyncInterrupt(t) ==
  /\ Running
  /\ harp_us' = t
  /\ synced' = TRUE
  /\ UNCHANGED <<lag, usb, ctrl, flags, times, pc, now, beat>>

PcTogglesPort ==
  /\ port_open' = ~port_open
  /\ UNCHANGED <<clock, connected, rx, ctrl, flags, times, pc, now, beat>>

\* The PC waits until its last message has been taken.
PcSends(m) ==
  /\ Running /\ port_open /\ rx = None
  /\ rx' = m
  /\ UNCHANGED <<clock, port_open, connected, ctrl, flags, times, pc, now, beat>>

-----------------------------------------------------------------------------
(* update_state()                                                          *)

\* Line 172 reads the clock; the rest of the call runs on this value.
ReadClock ==
  /\ now' = harp_us
  /\ lag' = 0

\* Mutated forms of the next definitions (PROJECT.json, "mutants"): the flag
\* kept on the wrong branch, the start recorded never or on every call, the
\* edge to ACTIVE noticed only from STANDBY, synchronization handled each time.
ConnectHandledSwapped == ~connected /\ connect_handled_
DisconnectStartStale  == disconnect_start_time_us_
DisconnectStartEveryCall ==
  IF ~connected THEN Us32(now) ELSE disconnect_start_time_us_
NextHeartbeatEveryCall ==
  IF synced THEN HeartbeatAfter(Us32(now), heartbeat_interval_us_)
            ELSE next_heartbeat_time_us_
HeartbeatIntervalFromStandby(next_state) ==
  CASE ctrl.OP_MODE = "STANDBY" /\ next_state = "ACTIVE"
         -> HEARTBEAT_ACTIVE_INTERVAL_US
    [] ctrl.OP_MODE = "ACTIVE" /\ next_state = "STANDBY"
         -> HEARTBEAT_STANDBY_INTERVAL_US
    [] OTHER -> heartbeat_interval_us_

\* connect_handled_ and disconnect_start_time_us_ after lines 181 to 188.
ConnectHandled == connected /\ connect_handled_
DisconnectStart ==
  IF ~connected /\ ~disconnect_handled_ THEN Us32(now)
                                        ELSE disconnect_start_time_us_

LostTooLong ==
  /\ ~connected
  /\ Sub32(Us32(now), DisconnectStart) >= NO_PC_INTERVAL_US

\* The unforced next state: STANDBY falls through to the case of ACTIVE.
NextState ==
  CASE ctrl.OP_MODE = "STANDBY" /\ connected /\ ~ConnectHandled -> "ACTIVE"
    [] ctrl.OP_MODE \in {"STANDBY", "ACTIVE"} /\ LostTooLong    -> "STANDBY"
    [] OTHER                                                    -> ctrl.OP_MODE

\* The heartbeat is put on the synchronized time once, when is_synced() rises.
NextHeartbeat ==
  IF synced /\ ~sync_handled_
  THEN HeartbeatAfter(Us32(now), heartbeat_interval_us_)
  ELSE next_heartbeat_time_us_

HeartbeatInterval(next_state) ==
  CASE ctrl.OP_MODE # "ACTIVE" /\ next_state = "ACTIVE"
         -> HEARTBEAT_ACTIVE_INTERVAL_US
    [] ctrl.OP_MODE = "ACTIVE" /\ next_state = "STANDBY"
         -> HEARTBEAT_STANDBY_INTERVAL_US
    [] OTHER -> heartbeat_interval_us_

\* Everything in the call but the assignment of OP_MODE.  A dispatched
\* heartbeat runs tud_task().
Update(next_state) ==
  LET due == IsDue(Us32(now), NextHeartbeat)
  IN /\ sync_handled_' = synced
     /\ disconnect_handled_' = ~connected
     /\ disconnect_start_time_us_' = DisconnectStart
     /\ connect_handled_' =
          (ConnectHandled \/ (ctrl.OP_MODE # "ACTIVE" /\ next_state = "ACTIVE"))
     /\ heartbeat_interval_us_' = HeartbeatInterval(next_state)
     /\ next_heartbeat_time_us_' =
          IF due THEN Add32(NextHeartbeat, HeartbeatInterval(next_state))
                 ELSE NextHeartbeat
     /\ beat' = (due /\ ctrl.ALIVE_EN /\ ctrl.OP_MODE = "ACTIVE" /\ ~ctrl.MUTE_RPL)
     /\ connected' = IF beat' THEN port_open ELSE connected

-----------------------------------------------------------------------------
(* run()                                                                   *)

BeginUpdate ==
  /\ pc = "tud_task"
  /\ connected' = port_open
  /\ ReadClock
  /\ pc' = "update"
  /\ UNCHANGED <<harp_us, synced, port_open, rx, ctrl, flags, times, beat>>

UpdateState ==
  /\ pc = "update"
  /\ Update(NextState)
  /\ ctrl' = [ctrl EXCEPT !.OP_MODE = NextState]
  /\ pc' = "dispatch" /\ now' = 0
  /\ UNCHANGED <<clock, port_open, rx>>

NothingToDispatch ==
  /\ pc = "dispatch" /\ rx = None
  /\ pc' = "tud_task"
  /\ UNCHANGED <<clock, usb, ctrl, flags, times, now, beat>>

\* The reply a handler sends also runs tud_task(); BeginUpdate does so again
\* before anything reads the result.

\* write_operation_ctrl(): the same mode only updates the register, another
\* one calls force_state() first.
WriteSameMode ==
  /\ pc = "dispatch" /\ rx # None /\ rx.reg = "R_OPERATION_CTRL"
  /\ rx.byte.OP_MODE = ctrl.OP_MODE
  /\ ctrl' = rx.byte /\ rx' = None /\ pc' = "tud_task"
  /\ UNCHANGED <<clock, port_open, connected, flags, times, now, beat>>

BeginForce ==
  /\ pc = "dispatch" /\ rx # None /\ rx.reg = "R_OPERATION_CTRL"
  /\ rx.byte.OP_MODE # ctrl.OP_MODE
  /\ ReadClock
  /\ pc' = "force"
  /\ UNCHANGED <<harp_us, synced, usb, ctrl, flags, times, beat>>

ForceState ==
  /\ pc = "force"
  /\ Update(rx.byte.OP_MODE)
  /\ ctrl' = rx.byte /\ rx' = None /\ pc' = "tud_task" /\ now' = 0
  /\ UNCHANGED <<clock, port_open>>

\* write_reset_dev(): reset_usb_boot() does not return; a device reset stores
\* STANDBY in the register without the edge logic of update_state().
WriteResetDev ==
  /\ pc = "dispatch" /\ rx # None /\ rx.reg = "R_RESET_DEF"
  /\ rx' = None
  /\ pc' = IF rx.byte.RST_DFU THEN "bootsel" ELSE "tud_task"
  /\ ctrl' = IF rx.byte.RST_DEV /\ ~rx.byte.RST_DFU
             THEN [ctrl EXCEPT !.OP_MODE = "STANDBY"] ELSE ctrl
  /\ UNCHANGED <<clock, port_open, connected, flags, times, now, beat>>

\* write_timestamp_second(), as far as this module sees it: the clock moves.
WriteTimestamp ==
  /\ pc = "dispatch" /\ rx # None /\ rx.reg = "R_TIMESTAMP_SECOND"
  /\ harp_us' = rx.byte /\ rx' = None /\ pc' = "tud_task"
  /\ UNCHANGED <<synced, lag, port_open, connected, ctrl, flags, times, now, beat>>

\* The boot ROM starts the firmware again: power-up with the port as it is.
Restart ==
  /\ pc = "bootsel"
  /\ harp_us' \in 0 .. Second - 1 /\ synced' = FALSE /\ lag' = 0
  /\ connected' = FALSE /\ rx' = None
  /\ ctrl' = [OP_MODE |-> "STANDBY", ALIVE_EN |-> FALSE, MUTE_RPL |-> FALSE]
  /\ connect_handled_' = FALSE /\ disconnect_handled_' = FALSE
  /\ sync_handled_' = FALSE
  /\ heartbeat_interval_us_' = HEARTBEAT_STANDBY_INTERVAL_US
  /\ next_heartbeat_time_us_' =
       HeartbeatAfter(Us32(harp_us'), HEARTBEAT_STANDBY_INTERVAL_US)
  /\ disconnect_start_time_us_' = 0
  /\ pc' = "tud_task" /\ now' = 0 /\ beat' = FALSE
  /\ UNCHANGED port_open

Dispatch == \/ NothingToDispatch \/ WriteSameMode \/ BeginForce
            \/ WriteResetDev \/ WriteTimestamp
Loop == BeginUpdate \/ UpdateState \/ Dispatch \/ ForceState \/ Restart

Environment ==
  \/ Tick
  \/ \E t \in SyncTimes : SyncInterrupt(t)
  \/ PcTogglesPort
  \/ \E m \in Message : PcSends(m)

Next == Loop \/ Environment

Spec == Init /\ [][Next]_vars

\* The loop never blocks and the timer never stops; nothing is asked of the PC
\* or of the synchronizer.
FairSpec == Spec /\ WF_vars(Loop) /\ WF_vars(Tick)

-----------------------------------------------------------------------------

\* From some point on the clock is not set to another time.
ClockSettles == <>[][harp_us' \in {harp_us, (harp_us + 1) % Long}]_vars

\* If the PC goes away for good, the device leaves ACTIVE for good: whatever
\* message is still waiting, and although the time since the disconnection is
\* kept in 32 bits.
DropsEventually ==
  ClockSettles /\ <>[]~port_open => <>[](ctrl.OP_MODE # "ACTIVE")

\* A device that stays ACTIVE, unmuted and with ALIVE_EN goes on sending
\* heartbeats, however far the clock was moved before.
HeartbeatsKeepComing ==
  ClockSettles /\ <>[](ctrl.OP_MODE = "ACTIVE" /\ ctrl.ALIVE_EN /\ ~ctrl.MUTE_RPL)
    => []<>beat
=============================================================================
