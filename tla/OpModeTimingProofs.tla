------------------------- MODULE OpModeTimingProofs -------------------------
(***************************************************************************)
(* What OpMode promises about time, whenever the clock is moved: no early  *)
(* drop to STANDBY and no late one, and heartbeats neither in bursts nor   *)
(* missing, each as soon as the times it depends on have been taken from   *)
(* the clock as it is.                                                     *)
(***************************************************************************)
EXTENDS OpModeProofs

-----------------------------------------------------------------------------
(* No early drop, if the clock was not moved since the PC was seen.        *)

\* The 32-bit time from mark to t is at most the time the PC has been away.
Within(t, mark) == moved \/ away >= NO_PC_INTERVAL_US \/ Sub32(t, mark) <= away

\* The disconnection is never dated further back than the last time
\* update_state() saw the PC; while a call is under way this holds of the
\* reading it works on, which may become the new date.
DatesAreRecent ==
  /\ disconnect_handled_ => Within(Us32(harp_us), disconnect_start_time_us_)
  /\ pc \in {"update", "force"} =>
       /\ Within(Us32(harp_us), Us32(now))
       /\ disconnect_handled_ => Within(Us32(now), disconnect_start_time_us_)

LEMMA WithinTick ==
  ASSUME HTypeOK, HTick, NEW mark \in Time32, Within(Us32(harp_us), mark)
  PROVE  /\ moved' \/ away' >= NO_PC_INTERVAL_US
             \/ Sub32(Us32(harp_us'), mark) <= away'
         /\ away' >= away /\ moved' = moved
  <1> DEFINE e  == Sub32(Us32(harp_us), mark)
             e1 == Sub32(Us32(harp_us'), mark)
  <1>1. harp_us \in Time64 /\ away \in 0 .. NO_PC_INTERVAL_US
    BY DEF HTypeOK, TypeOK
  <1>2. e1 = IF e = Word - 1 THEN 0 ELSE e + 1
    BY <1>1, ElapsedTick DEF HTick, Tick
  <1>3. e \in Nat
    <2>1. Us32(harp_us) \in Int /\ mark \in Int
      BY <1>1, TimeTypes, Sizes DEF Time32
    <2>2. e \in Time32
      BY <2>1, Sub32Type
    <2> QED
      BY <2>2, Sizes DEF Time32
  <1>4. away' = IF away + 1 < NO_PC_INTERVAL_US THEN away + 1 ELSE NO_PC_INTERVAL_US
    BY DEF HTick, Capped
  <1>5. moved \/ away >= NO_PC_INTERVAL_US \/ e <= away
    BY DEF Within
  <1>6. moved' = moved
    BY DEF HTick
  <1> HIDE DEF e, e1
  <1>7. away >= NO_PC_INTERVAL_US \/ e <= away
          => away' >= NO_PC_INTERVAL_US \/ e1 <= away'
    BY <1>1, <1>2, <1>3, <1>4, TimeTypes
  <1>8. away' >= away
    BY <1>1, <1>4, TimeTypes
  <1> QED
    BY <1>5, <1>6, <1>7, <1>8 DEF e1

LEMMA WithinItself ==
  ASSUME HTypeOK, NEW t \in Time32
  PROVE  Sub32(t, t) = 0 /\ Within(t, t)
  <1>1. Sub32(t, t) = 0
    BY Sub32Value DEF Time32
  <1> QED
    BY <1>1 DEF Within, HTypeOK

LEMMA DatesPreserved ==
  HTypeOK /\ DatesAreRecent /\ [HNext]_hvars => DatesAreRecent'
  <1> SUFFICES ASSUME HTypeOK, DatesAreRecent, [HNext]_hvars
               PROVE  DatesAreRecent'
    OBVIOUS
  <1> USE DEF clock, usb, flags, times
  <1>1. Us32(now) \in Time32 /\ Us32(harp_us) \in Time32
        /\ disconnect_start_time_us_ \in Time32
    BY TimeTypes DEF HTypeOK, TypeOK
  <1>2. CASE HTick
    <2>1. UNCHANGED <<disconnect_handled_, disconnect_start_time_us_, pc, now>>
      BY <1>2 DEF HTick, Tick
    <2>2. disconnect_handled_ => Within(Us32(harp_us), disconnect_start_time_us_)'
      BY <1>1, <1>2, <2>1, WithinTick DEF DatesAreRecent, Within
    <2>3. ASSUME pc \in {"update", "force"}
          PROVE  Within(Us32(harp_us), Us32(now))'
      BY <1>1, <1>2, <2>1, <2>3, WithinTick DEF DatesAreRecent, Within
    <2>4. ASSUME pc \in {"update", "force"}, disconnect_handled_
          PROVE  Within(Us32(now), disconnect_start_time_us_)'
      <3>1. Within(Us32(now), disconnect_start_time_us_) /\ away' >= away /\ moved' = moved
        BY <1>1, <1>2, <2>4, WithinTick DEF DatesAreRecent
      <3>2. Sub32(Us32(now), disconnect_start_time_us_) \in Int /\ away \in Int
            /\ away' \in Int
        BY <1>1, <1>2, HTypesPreserved, Sub32Type, Sizes, TimeTypes
        DEF Time32, HTypeOK
      <3> QED
        BY <2>1, <3>1, <3>2, TimeTypes DEF Within
    <2> QED
      BY <2>1, <2>2, <2>3, <2>4 DEF DatesAreRecent
  <1>3. CASE BeginUpdate \/ BeginForce
    <2>1. UNCHANGED <<harp_us, away, moved, flags, times>> /\ now' = harp_us
      BY <1>3 DEF HNext, HTick, HUpdateState, HForceState, HWriteSameMode,
                  HReset, HRestart, HOther, hvars, vars, BeginUpdate, BeginForce,
                  ReadClock, UpdateState, ForceState, WriteSameMode,
                  WriteResetDev, Restart, Tick
    <2>2. Within(Us32(harp_us), Us32(harp_us))
      BY <1>1, WithinItself
    <2> QED
      BY <2>1, <2>2 DEF DatesAreRecent, Within
  <1>4. CASE HUpdateState \/ HForceState
    <2>1. pc' \notin {"update", "force"} /\ pc \in {"update", "force"}
          /\ harp_us' = harp_us
      BY <1>4 DEF HUpdateState, UpdateState, HForceState, ForceState
    <2>2. /\ disconnect_handled_' = ~connected
          /\ disconnect_start_time_us_' = DisconnectStart
          /\ away' = IF connected THEN Capped(lag) ELSE away
          /\ moved' = (~connected /\ moved)
      BY <1>4 DEF HUpdateState, UpdateState, HForceState, ForceState, Update, Observe
    <2>3. ASSUME ~connected
          PROVE  Within(Us32(harp_us), DisconnectStart)
      BY <2>1, <2>3 DEF DatesAreRecent, DisconnectStart
    <2> QED
      BY <2>1, <2>2, <2>3 DEF DatesAreRecent, Within
  <1>5. CASE HRestart
    BY <1>5 DEF HRestart, Restart, DatesAreRecent
  <1>6. CASE /\ UNCHANGED <<harp_us, away, moved, flags, times>>
             /\ (pc' = pc /\ now' = now) \/ pc' \notin {"update", "force"}
    BY <1>6 DEF DatesAreRecent, Within
  <1>7. CASE moved'
    BY <1>7 DEF DatesAreRecent, Within
  <1> QED
    BY <1>2, <1>3, <1>4, <1>5, <1>6, <1>7
    DEF HNext, HWriteSameMode, HReset, HOther, hvars, vars, PcTogglesPort,
        PcSends, NothingToDispatch, WriteSameMode, WriteResetDev, SyncInterrupt,
        WriteTimestamp

\* Unless the clock was moved since the PC was last seen, a device leaves ACTIVE by
\* itself only after NO_PC_INTERVAL_US without the PC, however often the 32-bit
\* time wraps.
THEOREM NoSpuriousDropCorrect == HSpec => NoSpuriousDrop
  <1>1. HInit => DatesAreRecent
    BY DEF HInit, Init, DatesAreRecent
  <1>2. HTypeOK /\ DatesAreRecent /\ [HNext]_hvars
          => [pc = "update" /\ ctrl.OP_MODE = "ACTIVE" /\ ctrl'.OP_MODE = "STANDBY"
                => away >= NO_PC_INTERVAL_US \/ moved]_hvars
    <2> SUFFICES ASSUME HTypeOK, DatesAreRecent, [HNext]_hvars, pc = "update",
                        ctrl.OP_MODE = "ACTIVE", ctrl'.OP_MODE = "STANDBY"
                 PROVE  away >= NO_PC_INTERVAL_US \/ moved
      OBVIOUS
    <2>1. HUpdateState
      BY OnlyUpdateChangesMode
    <2>2. ctrl'.OP_MODE = NextState
      BY <2>1 DEF HUpdateState, UpdateState, HTypeOK, TypeOK, CtrlByte
    <2>3. LostTooLong
      BY <2>2 DEF NextState
    <2>4. Us32(now) \in Time32
      BY TimeTypes DEF HTypeOK, TypeOK
    <2>5. CASE disconnect_handled_
      <3>1. Sub32(Us32(now), disconnect_start_time_us_) >= NO_PC_INTERVAL_US
        BY <2>3, <2>5 DEF LostTooLong, DisconnectStart
      <3>2. Within(Us32(now), disconnect_start_time_us_)
        BY <2>5 DEF DatesAreRecent
      <3>3. Sub32(Us32(now), disconnect_start_time_us_) \in Int /\ away \in Int
        BY <2>4, Sub32Type, Sizes, TimeTypes DEF Time32, HTypeOK, TypeOK
      <3> QED
        BY <3>1, <3>2, <3>3, TimeTypes DEF Within
    <2>6. CASE ~disconnect_handled_
      <3>1. Sub32(Us32(now), Us32(now)) >= NO_PC_INTERVAL_US
        BY <2>3, <2>6 DEF LostTooLong, DisconnectStart
      <3> QED
        BY <2>4, <3>1, WithinItself, Sizes DEF NO_PC_INTERVAL_US
    <2> QED
      BY <2>5, <2>6
  <1>3. HTypeOK /\ DatesAreRecent /\ [HNext]_hvars => DatesAreRecent'
    BY DatesPreserved
  <1> QED
    BY <1>1, <1>2, <1>3, HTypeCorrect, PTL DEF HSpec, NoSpuriousDrop

-----------------------------------------------------------------------------
(* No late drop.                                                           *)

\* A device left in ACTIVE without the PC holds the date of a disconnection that,
\* at the last reading of the clock, lay no more than an interval back and no
\* less than the device has been alone, but for the time to the call that
\* recorded it; during a call the reading is a lag further on.
AloneDated ==
  /\ alone >= lag
  /\ pc = "update" /\ alone > lag =>
       /\ Us32(harp_us) = Add32(Us32(now), lag)
       /\ alone - lag > MaxLag =>
            /\ disconnect_handled_
            /\ \E d \in 0 .. NO_PC_INTERVAL_US - 1 + MaxLag :
                 /\ Us32(now) = Add32(disconnect_start_time_us_, d)
                 /\ alone - lag <= d + MaxLag
  /\ pc \notin {"update", "force"} /\ alone > lag =>
       /\ disconnect_handled_
       /\ \E d \in 0 .. NO_PC_INTERVAL_US - 1 :
            /\ Us32(harp_us) = Add32(disconnect_start_time_us_, d + lag)
            /\ alone - lag <= d + MaxLag

\* A tick takes the clock on by one, whatever it is counted from.
LEMMA TickAdvances ==
  ASSUME HTypeOK, Tick, NEW base \in Time32, NEW d \in Int,
         Us32(harp_us) = Add32(base, d + lag)
  PROVE  Us32(harp_us') = Add32(base, d + lag')
  <1> DEFINE u == Us32(harp_us)
  <1>1. /\ u \in Time32 /\ u \in Int /\ base \in Int /\ lag \in Int
        /\ lag' = lag + 1 /\ Word \in Nat \ {0}
    BY TimeTypes, Sizes DEF HTypeOK, TypeOK, Time32, Tick
  <1>2. Us32(harp_us') = IF u = Word - 1 THEN 0 ELSE u + 1
    BY Us32Tick DEF HTypeOK, TypeOK, Tick
  <1>3. (u % Word) = u
    <2>1. u \in 0 .. Word - 1 /\ 0 \in Int /\ u = Word * 0 + u
      BY <1>1 DEF Time32
    <2> QED
      BY <1>1, <2>1, ModUnique
  <1>4. Us32(harp_us') = Add32(u, 1)
    BY <1>1, <1>2, <1>3, ModSucc DEF Add32
  <1>5. Add32(Add32(base, d + lag), 1) = Add32(base, (d + lag) + 1)
    BY <1>1, Add32Add32
  <1>6. (d + lag) + 1 = d + lag'
    BY <1>1
  <1> QED
    BY <1>4, <1>5, <1>6

\* The time since the date, added to it, is the reading.
LEMMA SinceDate ==
  ASSUME NEW t \in Time32, NEW mark \in Time32
  PROVE  t = Add32(mark, Sub32(t, mark))
  <1>1. Word \in Nat \ {0} /\ t \in 0 .. Word - 1 /\ mark \in 0 .. Word - 1
        /\ t \in Int /\ 0 \in Int /\ 1 \in Int
    BY Sizes DEF Time32
  <1>2. CASE t >= mark
    <2>1. mark + Sub32(t, mark) = Word * 0 + t
      BY <1>1, <1>2, Sub32Value
    <2>2. mark + Sub32(t, mark) \in Int
      BY <1>1, <2>1
    <2> QED
      BY <1>1, <2>1, <2>2, ModUnique DEF Add32
  <1>3. CASE t < mark
    <2>1. Sub32(t, mark) = t - mark + Word
      BY <1>1, <1>3, Sub32Value
    <2>2. mark + Sub32(t, mark) = Word * 1 + t /\ mark + Sub32(t, mark) \in Int
      BY <1>1, <2>1
    <2> QED
      BY <1>1, <2>2, ModUnique DEF Add32
  <1> QED
    BY <1>1, <1>2, <1>3

\* A call that leaves the device in ACTIVE without the PC has found its
\* disconnection less than an interval back.
LEMMA LeftAlone ==
  ASSUME HTypeOK, AloneDated, MaxLag <= Word - NO_PC_INTERVAL_US,
         HUpdateState, ~connected, ctrl'.OP_MODE = "ACTIVE"
  PROVE  \E d \in 0 .. NO_PC_INTERVAL_US - 1 :
           /\ disconnect_start_time_us_' \in Time32
           /\ Us32(now) = Add32(disconnect_start_time_us_', d)
           /\ alone - lag <= d + MaxLag
  <1> DEFINE n == Us32(now)
             s == DisconnectStart
             d == Sub32(n, s)
  <1>1. n \in Time32 /\ s \in Time32 /\ disconnect_start_time_us_ \in Time32
        /\ disconnect_start_time_us_' = s
    BY UpdateTypes, TimeTypes DEF HUpdateState, UpdateState, Update, HTypeOK, TypeOK
  <1>2. ~LostTooLong
    <2>1. ctrl'.OP_MODE = NextState
      BY DEF HUpdateState, UpdateState, HTypeOK, TypeOK, CtrlByte
    <2> QED
      BY <2>1 DEF NextState, LostTooLong
  <1>3. d \in Time32 /\ n = Add32(s, d) /\ ~(d >= NO_PC_INTERVAL_US)
    <2>1. n \in Int /\ s \in Int
      BY <1>1, Sizes DEF Time32
    <2> QED
      BY <1>1, <1>2, <2>1, Sub32Type, SinceDate DEF LostTooLong
  <1> HIDE DEF d
  <1>4. d \in 0 .. NO_PC_INTERVAL_US - 1
    BY <1>3, TimeTypes, Sizes DEF Time32
  <1>5. MaxLag \in Nat /\ alone \in Int /\ lag \in Int /\ pc = "update"
    BY OpModeAssumption DEF HTypeOK, TypeOK, HUpdateState, UpdateState
  <1>6. CASE alone - lag > MaxLag
    <2>1. PICK e \in 0 .. NO_PC_INTERVAL_US - 1 + MaxLag :
            n = Add32(disconnect_start_time_us_, e) /\ alone - lag <= e + MaxLag
      BY <1>5, <1>6 DEF AloneDated
    <2>2. disconnect_handled_
      BY <1>5, <1>6 DEF AloneDated
    <2>3. s = disconnect_start_time_us_
      BY <2>2 DEF DisconnectStart
    <2>4. e \in Int /\ -Word < e /\ e < Word /\ e >= 0
      BY <1>5, TimeTypes, Sizes
    <2>5. d = e
      BY <1>1, <2>1, <2>3, <2>4, Ahead DEF d
    <2> QED
      BY <1>1, <1>3, <1>4, <2>1, <2>5
  <1>7. CASE ~(alone - lag > MaxLag)
    <2>1. alone - lag <= d + MaxLag
      BY <1>4, <1>5, <1>7, TimeTypes
    <2> QED
      BY <1>1, <1>3, <1>4, <2>1
  <1> QED
    BY <1>6, <1>7

LEMMA AloneDatedPreserved ==
  ASSUME MaxLag <= Word - NO_PC_INTERVAL_US
  PROVE  HTypeOK /\ AloneDated /\ [HNext]_hvars => AloneDated'
  <1> SUFFICES ASSUME HTypeOK, AloneDated, [HNext]_hvars
               PROVE  AloneDated'
    OBVIOUS
  <1> USE DEF clock, usb, flags, times
  <1>1. /\ Us32(harp_us) \in Time32 /\ disconnect_start_time_us_ \in Time32
        /\ Us32(now) \in Time32 /\ alone \in Int /\ lag \in Int /\ MaxLag \in Int
        /\ lag >= 0 /\ lag <= MaxLag /\ NO_PC_INTERVAL_US \in Int
    BY TimeTypes, OpModeAssumption DEF HTypeOK, TypeOK
  <1>2. CASE HTick
    <2>1. /\ UNCHANGED <<disconnect_handled_, disconnect_start_time_us_, pc, now>>
          /\ Tick /\ lag' = lag + 1 /\ alone' = alone + 1
      BY <1>2 DEF HTick, Tick
    <2>2. alone' - lag' = alone - lag /\ (alone' > lag' <=> alone > lag)
          /\ (alone' >= lag' <=> alone >= lag)
      BY <1>1, <2>1
    <2>3. ASSUME pc = "update", alone > lag
          PROVE  Us32(harp_us') = Add32(Us32(now), lag')
      <3>1. Us32(harp_us) = Add32(Us32(now), 0 + lag)
        BY <1>1, <2>3 DEF AloneDated
      <3>2. Us32(harp_us') = Add32(Us32(now), 0 + lag')
        BY <1>1, <2>1, <3>1, TickAdvances
      <3> QED
        BY <1>1, <2>1, <3>2
    <2>4. ASSUME pc \notin {"update", "force"}, alone > lag
          PROVE  \E d \in 0 .. NO_PC_INTERVAL_US - 1 :
                   /\ Us32(harp_us') = Add32(disconnect_start_time_us_, d + lag')
                   /\ alone - lag <= d + MaxLag
      <3>1. PICK d \in 0 .. NO_PC_INTERVAL_US - 1 :
              /\ Us32(harp_us) = Add32(disconnect_start_time_us_, d + lag)
              /\ alone - lag <= d + MaxLag
        BY <2>4 DEF AloneDated
      <3>2. d \in Int
        BY <1>1
      <3>3. Us32(harp_us') = Add32(disconnect_start_time_us_, d + lag')
        BY <1>1, <2>1, <3>1, <3>2, TickAdvances
      <3> QED
        BY <3>1, <3>3
    <2> QED
      BY <2>1, <2>2, <2>3, <2>4 DEF AloneDated
  <1>3. CASE BeginUpdate
    <2>1. /\ UNCHANGED <<harp_us, disconnect_handled_, disconnect_start_time_us_>>
          /\ now' = harp_us /\ lag' = 0 /\ pc = "tud_task" /\ pc' = "update"
      BY <1>3 DEF BeginUpdate, ReadClock
    <2>2. alone' = alone
      BY <1>3, <2>1 DEF HNext, HTick, HUpdateState, HForceState, HWriteSameMode, HReset,
                  HRestart, HOther, hvars, vars, BeginUpdate, UpdateState, ForceState,
                  WriteSameMode, WriteResetDev, Restart, Tick
    <2>3. Us32(harp_us) = Add32(Us32(harp_us), 0)
      BY <1>1, Add32Zero
    <2>4. ASSUME alone > MaxLag
          PROVE  /\ disconnect_handled_
                 /\ \E d \in 0 .. NO_PC_INTERVAL_US - 1 + MaxLag :
                      /\ Us32(harp_us) = Add32(disconnect_start_time_us_, d)
                      /\ alone <= d + MaxLag
      <3>1. alone > lag
        BY <1>1, <2>4
      <3>2. PICK d \in 0 .. NO_PC_INTERVAL_US - 1 :
              /\ Us32(harp_us) = Add32(disconnect_start_time_us_, d + lag)
              /\ alone - lag <= d + MaxLag
        BY <2>1, <3>1 DEF AloneDated
      <3>3. d + lag \in 0 .. NO_PC_INTERVAL_US - 1 + MaxLag
            /\ alone <= (d + lag) + MaxLag
        BY <1>1, <3>2
      <3> QED
        BY <2>1, <3>1, <3>2, <3>3 DEF AloneDated
    <2>5. alone >= 0 /\ alone - 0 = alone
      BY <1>1 DEF AloneDated
    <2> QED
      BY <2>1, <2>2, <2>3, <2>4, <2>5 DEF AloneDated
  <1>4. CASE BeginForce
    <2>1. lag' = 0 /\ pc' = "force"
      BY <1>4 DEF BeginForce, ReadClock
    <2>2. alone' \in Nat
      BY HTypesPreserved DEF HTypeOK
    <2> QED
      BY <2>1, <2>2 DEF AloneDated
  <1>5. CASE HUpdateState
    <2>1. /\ UNCHANGED <<harp_us, lag>> /\ pc = "update" /\ pc' = "dispatch"
          /\ disconnect_handled_' = ~connected
          /\ alone' = IF connected \/ ctrl'.OP_MODE # "ACTIVE" THEN lag ELSE alone
      BY <1>5 DEF HUpdateState, UpdateState, Update
    <2>2. CASE connected \/ ctrl'.OP_MODE # "ACTIVE"
      BY <1>1, <2>1, <2>2 DEF AloneDated
    <2>3. CASE ~connected /\ ctrl'.OP_MODE = "ACTIVE"
      <3>1. PICK d \in 0 .. NO_PC_INTERVAL_US - 1 :
              /\ disconnect_start_time_us_' \in Time32
              /\ Us32(now) = Add32(disconnect_start_time_us_', d)
              /\ alone - lag <= d + MaxLag
        BY <1>5, <2>3, LeftAlone
      <3>2. alone > lag => Us32(harp_us) = Add32(Us32(now), lag)
        BY <2>1 DEF AloneDated
      <3>3. alone > lag => Us32(harp_us) = Add32(disconnect_start_time_us_', d + lag)
        <4>1. d \in Int /\ disconnect_start_time_us_' \in Int
          BY <1>1, <3>1, Sizes DEF Time32
        <4> QED
          BY <1>1, <3>1, <3>2, <4>1, Add32Add32
      <3>4. alone' = alone /\ alone >= lag
        BY <2>1, <2>3 DEF AloneDated
      <3> QED
        BY <2>1, <2>3, <3>1, <3>3, <3>4 DEF AloneDated
    <2> QED
      BY <2>2, <2>3
  <1>6. CASE HForceState
    <2>1. lag' = lag /\ alone' = lag /\ pc' = "tud_task"
      BY <1>6 DEF HForceState, ForceState
    <2> QED
      BY <1>1, <2>1 DEF AloneDated
  <1>7. CASE HRestart
    <2>1. lag' = 0 /\ alone' = 0 /\ pc' = "tud_task"
      BY <1>7 DEF HRestart, Restart
    <2> QED
      BY <2>1 DEF AloneDated
  <1>8. CASE /\ UNCHANGED <<harp_us, lag, alone, now>>
             /\ UNCHANGED <<disconnect_handled_, disconnect_start_time_us_>>
             /\ pc' = pc \/ (pc = "dispatch" /\ pc' \notin {"update", "force"})
    BY <1>8 DEF AloneDated
  <1>9. CASE alone' = lag /\ lag' = lag
    BY <1>1, <1>9 DEF AloneDated
  <1> QED
    BY <1>2, <1>3, <1>4, <1>5, <1>6, <1>7, <1>8, <1>9
    DEF HNext, HWriteSameMode, HReset, HOther, hvars, vars, PcTogglesPort, PcSends,
        NothingToDispatch, WriteSameMode, WriteResetDev, SyncInterrupt, WriteTimestamp

\* If the loop never lets the 32-bit time run over between two calls, a device without
\* the PC leaves ACTIVE in time, however often that time wraps, whatever was written
\* before and whenever the clock was moved.
THEOREM DropsInTimeCorrect ==
  ASSUME MaxLag <= Word - NO_PC_INTERVAL_US
  PROVE  HSpec => DropsInTime
  <1>1. HInit => AloneDated
    BY DEF HInit, Init, AloneDated
  <1>2. HTypeOK /\ AloneDated /\ [HNext]_hvars
          => [pc = "update" /\ pc' = "dispatch" /\ ~connected /\ ctrl'.OP_MODE = "ACTIVE"
                => alone - lag < NO_PC_INTERVAL_US + MaxLag]_hvars
    <2> SUFFICES ASSUME HTypeOK, AloneDated, [HNext]_hvars, pc = "update",
                        pc' = "dispatch", ~connected, ctrl'.OP_MODE = "ACTIVE"
                 PROVE  alone - lag < NO_PC_INTERVAL_US + MaxLag
      OBVIOUS
    <2>1. HUpdateState
      BY DEF HNext, HTick, HForceState, HWriteSameMode, HReset, HRestart, HOther,
          hvars, vars, Tick, SyncInterrupt, PcTogglesPort, PcSends, BeginUpdate,
          NothingToDispatch, BeginForce, WriteTimestamp, WriteSameMode,
          WriteResetDev, ForceState, Restart
    <2>2. PICK d \in 0 .. NO_PC_INTERVAL_US - 1 : alone - lag <= d + MaxLag
      BY <2>1, LeftAlone
    <2>3. alone \in Int /\ lag \in Int /\ MaxLag \in Int /\ NO_PC_INTERVAL_US \in Int
      BY TimeTypes, OpModeAssumption DEF HTypeOK, TypeOK
    <2> QED
      BY <2>2, <2>3
  <1>3. HTypeOK /\ AloneDated /\ [HNext]_hvars => AloneDated'
    BY AloneDatedPreserved
  <1> QED
    BY <1>1, <1>2, <1>3, HTypeCorrect, PTL DEF HSpec, DropsInTime

-----------------------------------------------------------------------------
(* Heartbeats neither in bursts nor missing, on a clock that was not moved *)
(* since they were put on its time.                                        *)

\* The longest wait for a heartbeat.
S3 == HEARTBEAT_STANDBY_INTERVAL_US

\* The next heartbeat lies ahead of the clock reading of the last update_state();
\* during one it may be due, by no more than the ticks since the reading before.
HeartbeatNear ==
  on_time =>
    /\ pc \notin {"update", "force"} =>
         \E k \in 1 .. S3 : next_heartbeat_time_us_ = Add32(Us32(harp_us), k - lag)
    /\ pc \in {"update", "force"} =>
         /\ Us32(now) = Add32(Us32(harp_us), -lag)
         /\ \E k \in 1 - MaxLag .. S3 : next_heartbeat_time_us_ = Add32(Us32(now), k)

\* A time rounded down to a second, and an interval later, lies ahead of it.
LEMMA AfterIsAhead ==
  ASSUME NEW t \in Time32, NEW i \in {Second, 3 * Second}
  PROVE  \E k \in 1 .. i : HeartbeatAfter(t, i) = Add32(t, k)
  <1> DEFINE r == t % Second
  <1>1. Second \in Nat \ {0} /\ t \in Int /\ i \in Int /\ i >= Second
    BY Sizes DEF Time32
  <1>2. r \in 0 .. Second - 1
    BY <1>1, DivMod
  <1>3. HeartbeatAfter(t, i) = Add32(Sub32(t, r), i)
    BY DEF HeartbeatAfter
  <1> HIDE DEF r
  <1>4. Sub32(t, r) = Add32(t, -r)
    BY <1>1, <1>2 DEF Sub32, Add32
  <1>5. -r \in Int /\ -r + i \in 1 .. i
    BY <1>1, <1>2
  <1>6. HeartbeatAfter(t, i) = Add32(t, -r + i)
    BY <1>1, <1>3, <1>4, <1>5, Add32Add32
  <1> QED
    BY <1>5, <1>6

\* A call of update_state() puts a heartbeat that is due an interval later, and
\* leaves one that is not where it is; handling synchronization puts it ahead.
LEMMA UpdateReschedules ==
  ASSUME HTypeOK, HeartbeatNear, MaxLag <= Second, pc \in {"update", "force"},
         on_time \/ (synced /\ ~sync_handled_), NEW m \in Modes, Update(m)
  PROVE  \E k \in 1 .. S3 : next_heartbeat_time_us_' = Add32(Us32(now), k)
  <1> DEFINE n == Us32(now)
             i == HeartbeatInterval(m)
  <1>1. n \in Time32 /\ n \in Int
    BY TimeTypes, Sizes DEF HTypeOK, TypeOK, Time32
  <1>2. i \in {Second, 3 * Second} /\ S3 = 3 * Second
        /\ heartbeat_interval_us_ \in {Second, 3 * Second}
    BY UpdateTypes DEF HTypeOK, TypeOK, S3, HEARTBEAT_STANDBY_INTERVAL_US,
                       HEARTBEAT_ACTIVE_INTERVAL_US
  <1>3. MaxLag \in Nat \ {0} /\ Second \in Nat \ {0} /\ Word \in Nat
        /\ Word > 6 * Second
    BY OpModeAssumption, Sizes
  <1>4. PICK k \in 1 - MaxLag .. S3 : NextHeartbeat = Add32(n, k)
    <2>1. CASE synced /\ ~sync_handled_
      <3>1. NextHeartbeat = HeartbeatAfter(n, heartbeat_interval_us_)
        BY <2>1 DEF NextHeartbeat
      <3>2. PICK j \in 1 .. heartbeat_interval_us_ :
              HeartbeatAfter(n, heartbeat_interval_us_) = Add32(n, j)
        BY <1>1, <1>2, AfterIsAhead
      <3>3. j \in 1 - MaxLag .. S3
        BY <1>2, <1>3, <3>2
      <3> QED
        BY <3>1, <3>2, <3>3
    <2>2. CASE ~(synced /\ ~sync_handled_)
      BY <2>2 DEF NextHeartbeat, HeartbeatNear
    <2> QED
      BY <2>1, <2>2
  <1>5. k \in Int /\ -Word < k /\ k < Word /\ 1 - MaxLag <= k /\ k <= 3 * Second
    BY <1>2, <1>3
  <1>6. next_heartbeat_time_us_' = IF IsDue(n, Add32(n, k)) THEN Add32(Add32(n, k), i)
                                                            ELSE Add32(n, k)
    BY <1>4 DEF Update
  <1>7. Sub32(n, Add32(n, k)) = IF k <= 0 THEN -k ELSE Word - k
    BY <1>1, <1>5, Ahead
  <1>8. Word \div 2 > 3 * Second /\ 2 * (Word \div 2) <= Word /\ (Word \div 2) \in Int
    BY <1>3, TimeAssumption, DivMod
  <1>9. IsDue(n, Add32(n, k)) <=> k <= 0
    BY <1>3, <1>5, <1>7, <1>8 DEF IsDue
  <1>10. CASE k <= 0
    <2>1. next_heartbeat_time_us_' = Add32(n, k + i)
      <3>1. i \in Int /\ k \in Int
        BY <1>2, <1>3, <1>5
      <3>2. Add32(Add32(n, k), i) = Add32(n, k + i)
        BY <1>1, <3>1, Add32Add32
      <3> QED
        BY <1>6, <1>9, <1>10, <3>2
    <2>2. k + i \in 1 .. S3
      BY <1>2, <1>3, <1>5, <1>10
    <2> QED
      BY <2>1, <2>2
  <1>11. CASE k > 0
    <2>1. next_heartbeat_time_us_' = Add32(n, k) /\ k \in 1 .. S3
      BY <1>2, <1>5, <1>6, <1>9, <1>11
    <2> QED
      BY <2>1
  <1> QED
    BY <1>5, <1>10, <1>11

\* Power-up schedules the first heartbeat for the end of the third second.
LEMMA PowerUpReschedules ==
  ASSUME NEW h \in 0 .. Second - 1
  PROVE  \E k \in 1 .. S3 : HeartbeatAfter(Us32(h), S3) = Add32(Us32(h), k - 0)
  <1>1. Us32(h) \in Time32 /\ S3 = 3 * Second /\ S3 \in Nat
    BY TimeTypes, Sizes DEF S3, HEARTBEAT_STANDBY_INTERVAL_US
  <1>2. PICK k \in 1 .. S3 : HeartbeatAfter(Us32(h), S3) = Add32(Us32(h), k)
    BY <1>1, AfterIsAhead
  <1>3. k - 0 = k
    BY <1>1
  <1> QED
    BY <1>2, <1>3

\* A clock that has ticked since it was read shows the reading and the lag.
LEMMA ReadingAndLag ==
  ASSUME HTypeOK, harp_us = (now + lag) % Long
  PROVE  Us32(now) = Add32(Us32(harp_us), -lag)
  <1> DEFINE x == now + lag
             q == x \div Long
             r == harp_us % Word
             p == harp_us \div Word
  <1>1. /\ x \in Int /\ now \in Int /\ lag \in Int /\ harp_us \in Int
        /\ Word \in Nat \ {0} /\ Long \in Nat \ {0} /\ Wraps \in Nat \ {0}
    BY TimeTypes, Sizes, TimeAssumption DEF HTypeOK, TypeOK
  <1>2. q \in Int /\ x = (Long * q) + harp_us
    BY <1>1, DivMod
  <1>3. r \in 0 .. Word - 1 /\ p \in Int /\ harp_us = (Word * p) + r
    BY <1>1, DivMod
  <1> HIDE DEF q, r, p
  <1>4. Long * q = Word * (Wraps * q)
    BY <1>1, <1>2 DEF Long
  <1>5. now = Word * ((Wraps * q) + p) + (r + -lag)
    <2>1. (Wraps * q) \in Int
      BY <1>1, <1>2
    <2>2. Word * ((Wraps * q) + p) = (Word * (Wraps * q)) + (Word * p)
      BY <1>1, <1>3, <2>1
    <2>3. now + lag = (Word * (Wraps * q)) + ((Word * p) + r)
      BY <1>2, <1>3, <1>4
    <2>4. (Word * (Wraps * q)) \in Int /\ (Word * p) \in Int /\ r \in Int
      BY <1>1, <1>3, <2>1
    <2> QED
      BY <1>1, <2>2, <2>3, <2>4
  <1>6. ((r + -lag) % Word) \in 0 .. Word - 1 /\ ((r + -lag) \div Word) \in Int
        /\ r + -lag = (Word * ((r + -lag) \div Word)) + ((r + -lag) % Word)
        /\ r + -lag \in Int
    <2>1. r + -lag \in Int
      BY <1>1, <1>3
    <2> QED
      BY <1>1, <2>1, DivMod
  <1> DEFINE v == (r + -lag) % Word
             w == (r + -lag) \div Word
             u == (Wraps * q) + p
  <1>7. u \in Int /\ now = Word * u + (r + -lag)
    BY <1>1, <1>2, <1>3, <1>5
  <1>8. v \in 0 .. Word - 1 /\ w \in Int /\ r + -lag = (Word * w) + v
    BY <1>6
  <1> HIDE DEF v, w, u
  <1>9. now = Word * (u + w) + v /\ (u + w) \in Int
    <2>1. Word * (u + w) = (Word * u) + (Word * w)
      BY <1>1, <1>7, <1>8
    <2>2. (Word * u) \in Int /\ (Word * w) \in Int /\ v \in Int
      BY <1>1, <1>7, <1>8
    <2> QED
      BY <1>7, <1>8, <2>1, <2>2
  <1>10. (now % Word) = v
    BY <1>1, <1>8, <1>9, ModUnique
  <1> QED
    BY <1>10 DEF Us32, Add32, v, r

\* A tick moves the clock and the lag together.
LEMMA TickKeepsReading ==
  ASSUME HTypeOK, Tick, NEW k \in Int
  PROVE  Add32(Us32(harp_us'), k - lag') = Add32(Us32(harp_us), k - lag)
  <1> DEFINE u == Us32(harp_us)
  <1>1. u \in Time32 /\ u \in Int /\ lag \in Int /\ lag' = lag + 1
        /\ Word \in Nat \ {0}
    BY TimeTypes, Sizes DEF HTypeOK, TypeOK, Time32, Tick
  <1>2. Us32(harp_us') = IF u = Word - 1 THEN 0 ELSE u + 1
    BY Us32Tick DEF HTypeOK, TypeOK, Tick
  <1>3. (u % Word) = u
    <2>1. u \in 0 .. Word - 1 /\ 0 \in Int /\ u = Word * 0 + u
      BY <1>1 DEF Time32
    <2> QED
      BY <1>1, <2>1, ModUnique
  <1>4. Us32(harp_us') = Add32(u, 1)
    BY <1>1, <1>2, <1>3, ModSucc DEF Add32
  <1>5. k - lag' \in Int /\ 1 + (k - lag') = k - lag
    BY <1>1
  <1> QED
    BY <1>1, <1>4, <1>5, Add32Add32

LEMMA HeartbeatNearPreserved ==
  ASSUME MaxLag <= Second
  PROVE  HTypeOK /\ HeartbeatNear /\ [HNext]_hvars => HeartbeatNear'
  <1> SUFFICES ASSUME HTypeOK, HeartbeatNear, [HNext]_hvars
               PROVE  HeartbeatNear'
    OBVIOUS
  <1> USE DEF clock, usb, flags, times
  <1>1. /\ Us32(harp_us) \in Time32 /\ Us32(harp_us) \in Int
        /\ lag \in 0 .. MaxLag /\ MaxLag \in Nat /\ S3 \in Nat
    BY TimeTypes, Sizes, OpModeAssumption DEF HTypeOK, TypeOK, Time32, S3
  <1>2. CASE HTick
    <2>1. UNCHANGED <<next_heartbeat_time_us_, pc, now, on_time>> /\ Tick
      BY <1>2 DEF HTick, Tick
    <2>2. ASSUME on_time, pc \notin {"update", "force"}
          PROVE  \E k \in 1 .. S3 :
                   next_heartbeat_time_us_' = Add32(Us32(harp_us'), k - lag')
      <3>1. PICK k \in 1 .. S3 :
              next_heartbeat_time_us_ = Add32(Us32(harp_us), k - lag)
        BY <2>2 DEF HeartbeatNear
      <3>2. k \in Int
        BY <1>1
      <3>3. Add32(Us32(harp_us'), k - lag') = Add32(Us32(harp_us), k - lag)
        BY <2>1, <3>2, TickKeepsReading
      <3> QED
        BY <2>1, <3>1, <3>3
    <2>3. ASSUME on_time, pc \in {"update", "force"}
          PROVE  Us32(now) = Add32(Us32(harp_us'), -lag')
      <3>1. Add32(Us32(harp_us'), 0 - lag') = Add32(Us32(harp_us), 0 - lag)
        BY <2>1, TickKeepsReading
      <3>2. 0 - lag' = -lag' /\ 0 - lag = -lag
        BY <1>1, <2>1 DEF Tick
      <3> QED
        BY <2>3, <3>1, <3>2 DEF HeartbeatNear
    <2> QED
      BY <2>1, <2>2, <2>3 DEF HeartbeatNear
  <1>3. CASE BeginUpdate \/ BeginForce
    <2>1. /\ UNCHANGED <<harp_us, next_heartbeat_time_us_>>
          /\ now' = harp_us /\ lag' = 0
          /\ pc \notin {"update", "force"} /\ pc' \in {"update", "force"}
      BY <1>3 DEF BeginUpdate, BeginForce, ReadClock
    <2> SUFFICES ASSUME on_time
                 PROVE  HeartbeatNear'
      <3>1. on_time' = on_time
        BY <1>3, <2>1 DEF HNext, HTick, HUpdateState, HForceState, HWriteSameMode,
                  HReset, HRestart, HOther, hvars, vars, BeginUpdate, BeginForce,
                  UpdateState, ForceState, WriteSameMode, WriteResetDev, Restart, Tick
      <3> QED
        BY <3>1 DEF HeartbeatNear
    <2>2. PICK k \in 1 .. S3 :
            next_heartbeat_time_us_ = Add32(Us32(harp_us), k - lag)
      BY <2>1 DEF HeartbeatNear
    <2>3. k - lag \in 1 - MaxLag .. S3
      BY <1>1, <2>2
    <2>4. Us32(harp_us) = Add32(Us32(harp_us), -0)
      BY <1>1, Add32Zero
    <2> QED
      BY <2>1, <2>2, <2>3, <2>4 DEF HeartbeatNear
  <1>4. CASE HUpdateState \/ HForceState
    <2>1. /\ UNCHANGED <<harp_us, lag>>
          /\ pc \in {"update", "force"} /\ pc' \notin {"update", "force"}
          /\ on_time' = IF synced /\ ~sync_handled_ THEN harp_us = (now + lag) % Long
                                                   ELSE on_time
      BY <1>4 DEF HUpdateState, HForceState, UpdateState, ForceState, Observe
    <2>2. PICK m \in Modes : Update(m)
      <3>1. ASSUME ForceState PROVE rx.byte.OP_MODE \in Modes
        BY <3>1, OpModeAssumption
        DEF ForceState, HTypeOK, TypeOK, Message, CtrlByte
      <3>2. ASSUME UpdateState PROVE NextState \in Modes /\ Update(NextState)
        BY <3>2, UpdateTypes DEF UpdateState, HTypeOK
      <3>3. ASSUME ForceState PROVE Update(rx.byte.OP_MODE)
        BY <3>3 DEF ForceState
      <3> QED
        BY <1>4, <3>1, <3>2, <3>3 DEF HUpdateState, HForceState
    <2> SUFFICES ASSUME on_time'
                 PROVE  HeartbeatNear'
      BY DEF HeartbeatNear
    <2>3. PICK k \in 1 .. S3 : next_heartbeat_time_us_' = Add32(Us32(now), k)
      BY <2>1, <2>2, UpdateReschedules
    <2>4. Us32(now) = Add32(Us32(harp_us), -lag)
      BY <2>1, ReadingAndLag DEF HeartbeatNear
    <2>5. -lag \in Int /\ k \in Int /\ -lag + k = k - lag
      BY <1>1
    <2>6. next_heartbeat_time_us_' = Add32(Us32(harp_us), k - lag)
      BY <1>1, <2>3, <2>4, <2>5, Add32Add32
    <2> QED
      BY <2>1, <2>3, <2>6 DEF HeartbeatNear
  <1>5. CASE Restart
    <2>1. /\ lag' = 0 /\ pc' \notin {"update", "force"}
          /\ harp_us' \in 0 .. Second - 1
          /\ next_heartbeat_time_us_' = HeartbeatAfter(Us32(harp_us'), S3)
      BY <1>5 DEF Restart, S3
    <2> QED
      BY <2>1, PowerUpReschedules DEF HeartbeatNear
  <1>6. CASE /\ UNCHANGED <<harp_us, lag, next_heartbeat_time_us_, now, on_time>>
             /\ pc' = pc \/ (pc = "dispatch" /\ pc' \notin {"update", "force"})
    BY <1>6 DEF HeartbeatNear
  <1>7. CASE ~on_time'
    BY <1>7 DEF HeartbeatNear
  <1> QED
    BY <1>2, <1>3, <1>4, <1>5, <1>6, <1>7
    DEF HNext, HWriteSameMode, HReset, HRestart, HOther, hvars, vars, PcTogglesPort,
        PcSends, NothingToDispatch, WriteSameMode, WriteResetDev, SyncInterrupt,
        WriteTimestamp

\* If the loop calls update_state() at least once a second, the next heartbeat is ahead
\* and never further than a STANDBY interval, as long as the clock was not moved
\* since power-up or since synchronization was handled: no burst, no silence.
THEOREM HeartbeatAheadCorrect ==
  ASSUME MaxLag <= Second
  PROVE  HSpec => HeartbeatAhead
  <1>1. HInit => HeartbeatNear
    <2> SUFFICES ASSUME HInit PROVE HeartbeatNear
      OBVIOUS
    <2>1. /\ lag = 0 /\ pc \notin {"update", "force"}
          /\ harp_us \in 0 .. Second - 1
          /\ next_heartbeat_time_us_ = HeartbeatAfter(Us32(harp_us), S3)
      BY DEF HInit, Init, S3
    <2> QED
      BY <2>1, PowerUpReschedules DEF HeartbeatNear
  <1>2. HTypeOK /\ HeartbeatNear /\ [HNext]_hvars
          => [pc' = "dispatch" /\ pc # "dispatch" /\ on_time' =>
                Sub32(next_heartbeat_time_us_', Us32(now)) \in 1 .. S3]_hvars
    <2> SUFFICES ASSUME HTypeOK, HeartbeatNear, [HNext]_hvars,
                        pc' = "dispatch", pc # "dispatch", on_time'
                 PROVE  Sub32(next_heartbeat_time_us_', Us32(now)) \in 1 .. S3
      OBVIOUS
    <2>1. HUpdateState
      BY DEF HNext, HTick, HForceState, HWriteSameMode, HReset,
          HRestart, HOther, hvars, vars, Tick, SyncInterrupt, PcTogglesPort,
          PcSends, BeginUpdate, NothingToDispatch, BeginForce, WriteTimestamp,
          WriteSameMode, WriteResetDev, ForceState, Restart
    <2>2. PICK k \in 1 .. S3 : next_heartbeat_time_us_' = Add32(Us32(now), k)
      <3>1. /\ Update(NextState) /\ NextState \in Modes /\ pc = "update"
            /\ on_time' = IF synced /\ ~sync_handled_ THEN harp_us = (now + lag) % Long
                                                     ELSE on_time
        BY <2>1, UpdateTypes DEF HUpdateState, UpdateState, Observe, HTypeOK
      <3> QED
        BY <3>1, UpdateReschedules
    <2>3. Us32(now) \in Time32 /\ S3 = 3 * Second
      BY TimeTypes DEF HTypeOK, TypeOK, S3, HEARTBEAT_STANDBY_INTERVAL_US
    <2>4. k \in Int /\ -Word < k /\ k < Word /\ k >= 0
      BY <2>3, Sizes
    <2>5. Sub32(next_heartbeat_time_us_', Us32(now)) = k
      BY <2>2, <2>3, <2>4, Ahead
    <2> QED
      BY <2>5
  <1>3. HTypeOK /\ HeartbeatNear /\ [HNext]_hvars => HeartbeatNear'
    BY HeartbeatNearPreserved
  <1> QED
    BY <1>1, <1>2, <1>3, HTypeCorrect, PTL DEF HSpec, HeartbeatAhead, S3
=============================================================================
