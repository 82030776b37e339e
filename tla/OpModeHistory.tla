--------------------------- MODULE OpModeHistory ---------------------------
(***************************************************************************)
(* OpMode with history variables, and the properties that need them.  The  *)
(* history variables only record; they never enable or prevent a step.     *)
(***************************************************************************)
EXTENDS OpMode

VARIABLES
  away,      \* ticks since update_state() last saw the PC, up to NO_PC_INTERVAL_US
  self_on,   \* update_state() entered ACTIVE by itself on this connection
  pc_wrote,  \* the mode is the one the PC wrote last on this connection
  alone,     \* ticks since the last call that saw the PC, forced the mode or left
             \* a mode other than ACTIVE, and since the clock was moved
  moved,     \* the clock was moved since update_state() last saw the PC
  on_time    \* the clock was not moved since the next heartbeat was put on its time,
             \* at power-up or by the handling of synchronization

hvars == <<vars, away, self_on, pc_wrote, alone, moved, on_time>>

HInit ==
  /\ Init
  /\ away = 0 /\ self_on = FALSE /\ pc_wrote = FALSE
  /\ alone = 0 /\ moved = FALSE /\ on_time = TRUE

Capped(n) == IF n < NO_PC_INTERVAL_US THEN n ELSE NO_PC_INTERVAL_US

HTick ==
  /\ Tick
  /\ away' = Capped(away + 1) /\ alone' = alone + 1
  /\ UNCHANGED <<self_on, pc_wrote, moved, on_time>>

\* The clock was read lag ticks ago, by a call that sees the PC or does not.
\* Synchronization is handled on time if the clock has only ticked since.
Observe ==
  /\ away' = IF connected THEN Capped(lag) ELSE away
  /\ moved' = (~connected /\ moved)
  /\ on_time' = IF synced /\ ~sync_handled_ THEN harp_us = (now + lag) % Long
                                           ELSE on_time

HUpdateState ==
  /\ UpdateState /\ Observe
  /\ self_on' = (connected /\ (self_on \/ ctrl'.OP_MODE # ctrl.OP_MODE))
  /\ pc_wrote' = (connected /\ pc_wrote)
  /\ alone' = IF connected \/ ctrl'.OP_MODE # "ACTIVE" THEN lag ELSE alone

HForceState ==
  /\ ForceState /\ Observe
  /\ self_on' = (connected /\ self_on)
  /\ pc_wrote' = connected
  /\ alone' = lag

HWriteSameMode ==
  /\ WriteSameMode
  /\ pc_wrote' = connected
  /\ UNCHANGED <<away, self_on, alone, moved, on_time>>

HReset ==
  /\ WriteResetDev
  /\ pc_wrote' = FALSE
  /\ UNCHANGED <<away, self_on, alone, moved, on_time>>

HRestart ==
  /\ Restart
  /\ away' = 0 /\ self_on' = FALSE /\ pc_wrote' = FALSE
  /\ alone' = 0 /\ moved' = FALSE /\ on_time' = TRUE

\* Setting the clock to the time it shows does not move it.
HOther ==
  /\ \/ BeginUpdate \/ BeginForce \/ NothingToDispatch \/ WriteTimestamp
     \/ PcTogglesPort
     \/ \E t \in SyncTimes : SyncInterrupt(t)
     \/ \E m \in Message : PcSends(m)
  /\ IF harp_us' = harp_us THEN UNCHANGED <<alone, moved, on_time>>
                            ELSE alone' = lag /\ moved' = TRUE /\ on_time' = FALSE
  /\ UNCHANGED <<away, self_on, pc_wrote>>

HNext == \/ HTick \/ HUpdateState \/ HForceState \/ HWriteSameMode
         \/ HReset \/ HRestart \/ HOther

HSpec == HInit /\ [][HNext]_hvars

HTypeOK ==
  /\ TypeOK
  /\ away \in 0 .. NO_PC_INTERVAL_US
  /\ self_on \in BOOLEAN /\ pc_wrote \in BOOLEAN /\ alone \in Nat
  /\ moved \in BOOLEAN /\ on_time \in BOOLEAN

-----------------------------------------------------------------------------

\* Whatever path led to ACTIVE (connecting, a PC write, out of SPEED or of a
\* device reset), the heartbeat interval is then the one of ACTIVE.
ActiveInterval ==
  ctrl.OP_MODE = "ACTIVE" => heartbeat_interval_us_ = HEARTBEAT_ACTIVE_INTERVAL_US

\* update_state() puts the device in ACTIVE by itself at most once between two
\* disconnections it has seen: "we only act on the connection/disconnection
\* event changes once".
SelfOnOnce ==
  [][pc = "update" /\ ctrl.OP_MODE = "STANDBY" /\ ctrl'.OP_MODE = "ACTIVE"
       => ~self_on]_hvars

\* update_state() drops ACTIVE to STANDBY only when it has not seen the PC for
\* NO_PC_INTERVAL_US of elapsed time, unless the clock was moved in between.
NoSpuriousDrop ==
  [][pc = "update" /\ ctrl.OP_MODE = "ACTIVE" /\ ctrl'.OP_MODE = "STANDBY"
       => away >= NO_PC_INTERVAL_US \/ moved]_hvars

\* A device that has been left in ACTIVE without the PC is not left in it again once
\* NO_PC_INTERVAL_US have passed, and the time to the call that noticed: no wrap of
\* the 32-bit time makes a disconnection look recent.  If the clock is moved, the
\* time counts from then.
DropsInTime ==
  [][pc = "update" /\ pc' = "dispatch" /\ ~connected /\ ctrl'.OP_MODE = "ACTIVE"
       => alone - lag < NO_PC_INTERVAL_US + MaxLag]_hvars

\* After every update_state() the next heartbeat lies ahead, at most a STANDBY
\* interval away: no backlog that would be sent as a burst, and no silence.  A
\* clock that is moved may cause both, until synchronization is handled.
HeartbeatAhead ==
  [][pc' = "dispatch" /\ pc # "dispatch" /\ on_time' =>
       Sub32(next_heartbeat_time_us_', Us32(now))
         \in 1 .. HEARTBEAT_STANDBY_INTERVAL_US]_hvars

\* "If the connection with the PC has been inactive for this duration" the mode
\* changes, and not before: whether the clock is moved or not.
DropsAfterInterval ==
  [][pc = "update" /\ ctrl.OP_MODE = "ACTIVE" /\ ctrl'.OP_MODE = "STANDBY"
       => away >= NO_PC_INTERVAL_US]_hvars

\* "After connecting, the PC is able to override the state at any point": while
\* connected, update_state() leaves the mode the PC wrote as it is.
PcModeSticks ==
  [][pc = "update" /\ connected /\ pc_wrote
       => ctrl'.OP_MODE = ctrl.OP_MODE]_hvars

\* "Recompute next whole second": when synchronization is handled, the Harp
\* time the next heartbeat stands for is a whole number of seconds.
HeartbeatOnWholeSecond ==
  [][~sync_handled_ /\ sync_handled_'
       => (now + Sub32(next_heartbeat_time_us_', Us32(now))) % Second = 0]_hvars

\* "... based on synchronized time": when synchronization is handled, the next
\* heartbeat is within a STANDBY interval of the time the clock now shows.
HeartbeatOnSyncedTime ==
  [][~sync_handled_ /\ sync_handled_'
       => Sub32(next_heartbeat_time_us_', Us32(harp_us))
            \in 0 .. HEARTBEAT_STANDBY_INTERVAL_US]_hvars
=============================================================================
