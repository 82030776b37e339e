---------------------------- MODULE OpModeProofs ----------------------------
(***************************************************************************)
(* Theorems about OpMode with its history variables, for every scale of    *)
(* the clock and every set of inputs.                                      *)
(***************************************************************************)
EXTENDS OpModeHistory, HarpTimeProofs

\* The intervals and the words of HarpTime have the types they should.
LEMMA TimeTypes ==
  /\ HEARTBEAT_ACTIVE_INTERVAL_US \in Nat /\ HEARTBEAT_STANDBY_INTERVAL_US \in Nat
  /\ NO_PC_INTERVAL_US \in Nat
  /\ 0 \in Time32 /\ 0 \in Time64
  /\ \A t \in Int : Us32(t) \in Time32 /\ (t % Long) \in Time64
  /\ \A t \in Time64 : t \in Int
  /\ \A t \in 0 .. Second - 1 : t \in Time64
  <1>1. Second - 1 < Long
    BY TimeAssumption, Sizes DEF Long
  <1>2. \A t \in Int : Us32(t) \in Time32
    BY Us32Type
  <1>3. \A t \in Int : (t % Long) \in Time64
    BY Sizes, DivMod DEF Time64
  <1> QED
    BY <1>1, <1>2, <1>3, Sizes
    DEF HEARTBEAT_ACTIVE_INTERVAL_US, HEARTBEAT_STANDBY_INTERVAL_US,
        NO_PC_INTERVAL_US, Time32, Time64

LEMMA HeartbeatAfterType ==
  ASSUME NEW t \in Time32, NEW interval \in Nat
  PROVE  HeartbeatAfter(t, interval) \in Time32
  <1>1. t \in Int /\ (t % Second) \in Int
    BY Sizes, DivMod DEF Time32
  <1>2. Sub32(t, t % Second) \in Time32
    BY <1>1, Sub32Type
  <1>3. Sub32(t, t % Second) \in Int /\ interval \in Int
    BY <1>2, Sizes DEF Time32
  <1> QED
    BY <1>3, Add32Type DEF HeartbeatAfter

\* What update_state() computes has its type.
LEMMA UpdateTypes ==
  ASSUME TypeOK
  PROVE  /\ ConnectHandled \in BOOLEAN
         /\ DisconnectStart \in Time32
         /\ NextState \in Modes
         /\ NextHeartbeat \in Time32
         /\ \A m \in Modes : HeartbeatInterval(m) \in
              {HEARTBEAT_ACTIVE_INTERVAL_US, HEARTBEAT_STANDBY_INTERVAL_US}
  <1>1. Us32(now) \in Time32
    BY TimeTypes DEF TypeOK
  <1>2. ConnectHandled \in BOOLEAN /\ DisconnectStart \in Time32
    BY <1>1 DEF TypeOK, ConnectHandled, DisconnectStart
  <1>3. ctrl.OP_MODE \in Modes
    BY DEF TypeOK, CtrlByte
  <1>4. NextState \in Modes
    BY <1>3 DEF NextState, Modes
  <1>5. HeartbeatAfter(Us32(now), heartbeat_interval_us_) \in Time32
    BY <1>1, TimeTypes, HeartbeatAfterType DEF TypeOK
  <1>6. NextHeartbeat \in Time32
    BY <1>5 DEF TypeOK, NextHeartbeat
  <1>7. \A m \in Modes : HeartbeatInterval(m) \in
              {HEARTBEAT_ACTIVE_INTERVAL_US, HEARTBEAT_STANDBY_INTERVAL_US}
    BY DEF TypeOK, HeartbeatInterval
  <1> QED
    BY <1>2, <1>4, <1>6, <1>7

\* What a call of update_state() leaves behind has its type.
LEMMA UpdatePreservesTypes ==
  ASSUME TypeOK, NEW m \in Modes, Update(m)
  PROVE  /\ sync_handled_' \in BOOLEAN /\ disconnect_handled_' \in BOOLEAN
         /\ connect_handled_' \in BOOLEAN /\ connected' \in BOOLEAN
         /\ disconnect_start_time_us_' \in Time32
         /\ next_heartbeat_time_us_' \in Time32
         /\ heartbeat_interval_us_' \in
              {HEARTBEAT_ACTIVE_INTERVAL_US, HEARTBEAT_STANDBY_INTERVAL_US}
         /\ beat' \in BOOLEAN
  <1>1. NextHeartbeat \in Int /\ HeartbeatInterval(m) \in Int
    BY UpdateTypes, TimeTypes, Sizes DEF Time32
  <1>2. Add32(NextHeartbeat, HeartbeatInterval(m)) \in Time32
    BY <1>1, Add32Type
  <1>3. connected' \in BOOLEAN /\ beat' \in BOOLEAN
    BY DEF TypeOK, Update
  <1>4. next_heartbeat_time_us_' \in Time32
    BY <1>2, UpdateTypes DEF Update
  <1> QED
    BY <1>3, <1>4, UpdateTypes DEF TypeOK, Update

LEMMA InitTypes == Init => TypeOK
  <1> SUFFICES ASSUME Init PROVE TypeOK
    OBVIOUS
  <1>1. harp_us \in Time64 /\ Us32(harp_us) \in Time32
    BY TimeTypes DEF Init
  <1>2. next_heartbeat_time_us_ \in Time32
    BY <1>1, TimeTypes, HeartbeatAfterType DEF Init
  <1>3. lag \in 0 .. MaxLag
    BY OpModeAssumption DEF Init
  <1> QED
    BY <1>1, <1>2, <1>3, TimeTypes DEF Init, TypeOK, CtrlByte, Modes, PcAt

LEMMA TypesPreserved == TypeOK /\ [Next]_vars => TypeOK'
  <1> SUFFICES ASSUME TypeOK, [Next]_vars
               PROVE  TypeOK'
    OBVIOUS
  <1> USE DEF clock, usb, flags, times
  <1>1. CASE Tick
    <2>1. ((harp_us + 1) % Long) \in Time64
      BY TimeTypes DEF TypeOK
    <2>2. lag' \in 0 .. MaxLag
      BY <1>1, OpModeAssumption DEF Tick, TypeOK
    <2> QED
      BY <1>1, <2>1, <2>2 DEF Tick, TypeOK
  <1>2. ASSUME NEW t \in SyncTimes, SyncInterrupt(t)
        PROVE  TypeOK'
    BY <1>2, OpModeAssumption DEF SyncInterrupt, TypeOK
  <1>3. CASE PcTogglesPort
    BY <1>3 DEF PcTogglesPort, TypeOK
  <1>4. ASSUME NEW m \in Message, PcSends(m)
        PROVE  TypeOK'
    BY <1>4, NoneAssumption DEF PcSends, TypeOK
  <1>5. CASE BeginUpdate
    BY <1>5, OpModeAssumption DEF BeginUpdate, ReadClock, TypeOK, PcAt
  <1>6. CASE UpdateState
    <2>1. ctrl' \in CtrlByte
      BY <1>6, UpdateTypes DEF UpdateState, TypeOK, CtrlByte
    <2>2. Update(NextState) /\ NextState \in Modes
      BY <1>6, UpdateTypes DEF UpdateState
    <2> QED
      BY <1>6, <2>1, <2>2, UpdatePreservesTypes, TimeTypes
      DEF UpdateState, TypeOK, PcAt
  <1>7. CASE NothingToDispatch
    BY <1>7 DEF NothingToDispatch, TypeOK, PcAt
  <1>8. CASE WriteSameMode
    <2>1. rx.byte \in CtrlByte
      BY <1>8, OpModeAssumption DEF WriteSameMode, TypeOK, Message
    <2> QED
      BY <1>8, <2>1 DEF WriteSameMode, TypeOK, PcAt
  <1>9. CASE BeginForce
    BY <1>9, OpModeAssumption DEF BeginForce, ReadClock, TypeOK, PcAt
  <1>10. CASE ForceState
    <2>1. rx.byte \in CtrlByte
      BY <1>10, OpModeAssumption DEF ForceState, TypeOK, Message
    <2>2. rx.byte.OP_MODE \in Modes
      BY <2>1 DEF CtrlByte
    <2>3. Update(rx.byte.OP_MODE)
      BY <1>10 DEF ForceState
    <2> QED
      BY <1>10, <2>1, <2>2, <2>3, UpdatePreservesTypes, TimeTypes
      DEF ForceState, TypeOK, PcAt
  <1>11. CASE WriteResetDev
    <2>1. ctrl' \in CtrlByte
      BY <1>11 DEF WriteResetDev, TypeOK, CtrlByte, Modes
    <2> QED
      BY <1>11, <2>1 DEF WriteResetDev, TypeOK, PcAt
  <1>12. CASE WriteTimestamp
    <2>1. rx.byte \in Time64
      BY <1>12, OpModeAssumption DEF WriteTimestamp, TypeOK, Message
    <2> QED
      BY <1>12, <2>1 DEF WriteTimestamp, TypeOK, PcAt
  <1>13. CASE Restart
    <2>1. harp_us' \in Time64 /\ Us32(harp_us') \in Time32
      BY <1>13, TimeTypes DEF Restart
    <2>2. next_heartbeat_time_us_' \in Time32
      BY <1>13, <2>1, TimeTypes, HeartbeatAfterType DEF Restart
    <2>3. lag' \in 0 .. MaxLag
      BY <1>13, OpModeAssumption DEF Restart
    <2> QED
      BY <1>13, <2>1, <2>2, <2>3, TimeTypes
      DEF Restart, TypeOK, CtrlByte, Modes, PcAt
  <1>14. CASE UNCHANGED vars
    BY <1>14 DEF vars, TypeOK
  <1> QED
    BY <1>1, <1>2, <1>3, <1>4, <1>5, <1>6, <1>7, <1>8, <1>9, <1>10, <1>11,
       <1>12, <1>13, <1>14
    DEF Next, Loop, Dispatch, Environment

\* Every variable of the operation-mode state machine keeps its type.
THEOREM TypeCorrect == Spec => []TypeOK
  <1> QED
    BY InitTypes, TypesPreserved, PTL DEF Spec

-----------------------------------------------------------------------------
(* The history variables only watch: every step of HSpec is one of Spec.   *)

LEMMA HistoryWatches == [HNext]_hvars => [Next]_vars
  BY DEF HNext, HTick, HUpdateState, HForceState, HWriteSameMode, HReset,
         HRestart, HOther, Next, Loop, Dispatch, Environment, hvars

LEMMA CappedType == \A n \in Nat : Capped(n) \in 0 .. NO_PC_INTERVAL_US
  BY TimeTypes DEF Capped

LEMMA HTypesPreserved == HTypeOK /\ [HNext]_hvars => HTypeOK'
  <1> SUFFICES ASSUME HTypeOK, [HNext]_hvars
               PROVE  HTypeOK'
    OBVIOUS
  <1>1. TypeOK'
    BY HistoryWatches, TypesPreserved DEF HTypeOK
  <1>2. CASE HTick
    <2>1. /\ away' \in 0 .. NO_PC_INTERVAL_US /\ alone' \in Nat
          /\ moved' \in BOOLEAN /\ on_time' \in BOOLEAN
      BY <1>2, CappedType, TimeTypes DEF HTick, HTypeOK
    <2> QED
      BY <1>1, <1>2, <2>1 DEF HTick, HTypeOK
  <1>3. CASE HUpdateState \/ HForceState
    <2>1. away' \in 0 .. NO_PC_INTERVAL_US /\ alone' \in Nat
      <3>1. lag \in Nat
        BY OpModeAssumption DEF HTypeOK, TypeOK
      <3> QED
        BY <1>3, <3>1, CappedType DEF HUpdateState, HForceState, Observe, HTypeOK
    <2>2. /\ self_on' \in BOOLEAN /\ pc_wrote' \in BOOLEAN
          /\ moved' \in BOOLEAN /\ on_time' \in BOOLEAN
      <3>1. /\ connected \in BOOLEAN /\ self_on \in BOOLEAN /\ pc_wrote \in BOOLEAN
            /\ moved \in BOOLEAN /\ on_time \in BOOLEAN
        BY DEF HTypeOK, TypeOK
      <3> QED
        BY <1>3, <3>1 DEF HUpdateState, HForceState, Observe
    <2> QED
      BY <1>1, <2>1, <2>2 DEF HTypeOK
  <1>4. CASE HWriteSameMode \/ HReset \/ HRestart \/ HOther
    <2>1. away' \in 0 .. NO_PC_INTERVAL_US /\ alone' \in Nat
      <3>1. lag \in Nat
        BY OpModeAssumption DEF HTypeOK, TypeOK
      <3> QED
        BY <1>4, <3>1, TimeTypes DEF HWriteSameMode, HReset, HRestart, HOther, HTypeOK
    <2>2. /\ self_on' \in BOOLEAN /\ pc_wrote' \in BOOLEAN
          /\ moved' \in BOOLEAN /\ on_time' \in BOOLEAN
      <3>1. /\ connected \in BOOLEAN /\ self_on \in BOOLEAN /\ pc_wrote \in BOOLEAN
            /\ moved \in BOOLEAN /\ on_time \in BOOLEAN
        BY DEF HTypeOK, TypeOK
      <3> QED
        BY <1>4, <3>1 DEF HWriteSameMode, HReset, HRestart, HOther
    <2> QED
      BY <1>1, <2>1, <2>2 DEF HTypeOK
  <1>5. CASE UNCHANGED hvars
    BY <1>1, <1>5 DEF hvars, HTypeOK
  <1> QED
    BY <1>2, <1>3, <1>4, <1>5 DEF HNext

LEMMA HInitTypes == HInit => HTypeOK
  <1> SUFFICES ASSUME HInit PROVE HTypeOK
    OBVIOUS
  <1>1. away \in 0 .. NO_PC_INTERVAL_US
    BY TimeTypes DEF HInit
  <1> QED
    BY <1>1, InitTypes DEF HInit, HTypeOK

\* The history variables keep their types too.
THEOREM HTypeCorrect == HSpec => []HTypeOK
  <1> QED
    BY HInitTypes, HTypesPreserved, PTL DEF HSpec

-----------------------------------------------------------------------------
(* The heartbeat interval of ACTIVE.                                       *)

\* Only four steps change the mode; the two that can enter ACTIVE go through
\* the edge logic of update_state(), the others keep the mode or leave ACTIVE.
LEMMA ActiveIntervalPreserved ==
  TypeOK /\ ActiveInterval /\ [Next]_vars => ActiveInterval'
  <1> SUFFICES ASSUME TypeOK, ActiveInterval, [Next]_vars
               PROVE  ActiveInterval'
    OBVIOUS
  <1> USE DEF ActiveInterval, clock, usb, flags, times
  <1>1. CASE UpdateState
    <2>1. /\ ctrl'.OP_MODE = NextState
          /\ heartbeat_interval_us_' = HeartbeatInterval(NextState)
      BY <1>1 DEF UpdateState, Update, TypeOK, CtrlByte
    <2> QED
      BY <2>1 DEF HeartbeatInterval
  <1>2. CASE ForceState
    BY <1>2 DEF ForceState, Update, HeartbeatInterval
  <1>3. CASE WriteSameMode
    BY <1>3 DEF WriteSameMode
  <1>4. CASE WriteResetDev
    BY <1>4 DEF WriteResetDev, TypeOK, CtrlByte
  <1>5. CASE Restart
    BY <1>5 DEF Restart
  <1>6. CASE UNCHANGED <<ctrl, times>>
    BY <1>6
  <1> QED
    BY <1>1, <1>2, <1>3, <1>4, <1>5, <1>6
    DEF Next, Loop, Dispatch, Environment, vars, Tick, SyncInterrupt,
        PcTogglesPort, PcSends, BeginUpdate, NothingToDispatch, BeginForce,
        WriteTimestamp

\* In ACTIVE the heartbeat interval is the one of ACTIVE, whatever led there.
THEOREM ActiveIntervalCorrect == HSpec => []ActiveInterval
  <1>1. HInit => ActiveInterval
    BY DEF HInit, Init, ActiveInterval
  <1>2. HTypeOK /\ ActiveInterval /\ [HNext]_hvars => ActiveInterval'
    BY ActiveIntervalPreserved, HistoryWatches DEF HTypeOK
  <1> QED
    BY <1>1, <1>2, HTypeCorrect, PTL DEF HSpec

-----------------------------------------------------------------------------
(* ACTIVE is entered unasked once per connection.                          *)

\* Once it has been, connect_handled_ stays set until the PC is seen to leave.
FlagRemembers == self_on => connect_handled_

LEMMA FlagRemembersPreserved ==
  HTypeOK /\ FlagRemembers /\ [HNext]_hvars => FlagRemembers'
  <1> SUFFICES ASSUME HTypeOK, FlagRemembers, [HNext]_hvars
               PROVE  FlagRemembers'
    OBVIOUS
  <1> USE DEF FlagRemembers, clock, usb, flags, times
  <1>1. CASE HUpdateState
    <2>1. SUFFICES ASSUME connected, self_on \/ ctrl'.OP_MODE # ctrl.OP_MODE
                   PROVE  connect_handled_'
      BY <1>1 DEF HUpdateState
    <2>2. ctrl'.OP_MODE = NextState /\ Update(NextState)
      BY <1>1 DEF HUpdateState, UpdateState, HTypeOK, TypeOK, CtrlByte
    <2>3. CASE self_on
      BY <2>1, <2>2, <2>3 DEF Update, ConnectHandled
    <2>4. CASE NextState # ctrl.OP_MODE
      <3>1. NextState = "ACTIVE" /\ ctrl.OP_MODE = "STANDBY"
        BY <2>1, <2>4 DEF NextState, LostTooLong
      <3> QED
        BY <2>2, <3>1 DEF Update
    <2> QED
      BY <2>1, <2>2, <2>3, <2>4
  <1>2. CASE HForceState
    BY <1>2 DEF HForceState, ForceState, Update, ConnectHandled
  <1>3. CASE HRestart
    BY <1>3 DEF HRestart
  <1>4. CASE UNCHANGED <<flags, self_on>>
    BY <1>4
  <1> QED
    BY <1>1, <1>2, <1>3, <1>4
    DEF HNext, HTick, HWriteSameMode, HReset, HOther, hvars, vars, Tick,
        SyncInterrupt, PcTogglesPort, PcSends, BeginUpdate, NothingToDispatch,
        BeginForce, WriteTimestamp, WriteSameMode, WriteResetDev

\* What changes the register while update_state() is about to run: only itself.
LEMMA OnlyUpdateChangesMode ==
  ASSUME [HNext]_hvars, pc = "update", ctrl' # ctrl
  PROVE  HUpdateState
  <1> QED
    BY DEF HNext, HTick, HForceState, HWriteSameMode, HReset, HRestart, HOther,
        hvars, vars, Tick, SyncInterrupt, PcTogglesPort, PcSends, BeginUpdate,
        NothingToDispatch, BeginForce, WriteTimestamp, WriteSameMode,
        WriteResetDev, ForceState, Restart

\* update_state() enters ACTIVE by itself at most once between two disconnections
\* it has seen.
THEOREM SelfOnOnceCorrect == HSpec => SelfOnOnce
  <1>1. HInit => FlagRemembers
    BY DEF HInit, FlagRemembers
  <1>2. HTypeOK /\ FlagRemembers /\ [HNext]_hvars
          => [pc = "update" /\ ctrl.OP_MODE = "STANDBY" /\ ctrl'.OP_MODE = "ACTIVE"
                => ~self_on]_hvars
    <2> SUFFICES ASSUME HTypeOK, FlagRemembers, [HNext]_hvars, pc = "update",
                        ctrl.OP_MODE = "STANDBY", ctrl'.OP_MODE = "ACTIVE"
                 PROVE  ~self_on
      OBVIOUS
    <2>1. HUpdateState
      BY OnlyUpdateChangesMode
    <2>2. ctrl'.OP_MODE = NextState
      BY <2>1 DEF HUpdateState, UpdateState, HTypeOK, TypeOK, CtrlByte
    <2>3. connected /\ ~ConnectHandled
      BY <2>2 DEF NextState
    <2> QED
      BY <2>3 DEF ConnectHandled, FlagRemembers
  <1>3. HTypeOK /\ FlagRemembers /\ [HNext]_hvars => FlagRemembers'
    BY FlagRemembersPreserved
  <1> QED
    BY <1>1, <1>2, <1>3, HTypeCorrect, PTL DEF HSpec, SelfOnOnce
=============================================================================
