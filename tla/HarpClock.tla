------------------------------ MODULE HarpClock ------------------------------
(***************************************************************************)
(* How the Harp time is kept: as the offset of the timer from it.  There   *)
(* are two offsets, HarpCore's, for a device without a synchronizer, and   *)
(* HarpSynchronizer's, which the UART interrupt sets with every packet.    *)
(* Both are 64 bits wide and the processor moves 32 at a time: the main    *)
(* loop loads and stores the synchronizer's offset in two halves, in the   *)
(* order the compiler chose, and the interrupt may come in between.        *)
(*                                                                         *)
(* A handler of the main loop is the sequence of the accesses it makes.    *)
(***************************************************************************)
EXTENDS HarpTime, Sequences

CONSTANTS
  Unit,       \* microseconds in a unit of R_TIMESTAMP_MICRO: 32
  Leads,      \* by how much the times in packets are ahead of the timer
  SecondsWritten, MicrosWritten,   \* what the PC writes to the two registers
  MaxTime,    \* bound: last value of the timer
  MaxDelay    \* bound: ticks a handler that sets the time may take

\* A uint32_t of seconds is a number of microseconds in 64 bits, and a second a
\* whole number of units.
ASSUME ClockAssumption ==
  /\ Unit \in Nat \ {0} /\ Second % Unit = 0 /\ Word * Second <= Long
  /\ Leads \subseteq Time64
  /\ SecondsWritten \subseteq Time32 /\ MicrosWritten \subseteq Time32
  /\ MaxTime \in Time64 /\ MaxDelay \in Nat

Words == [low : Time32, high : 0 .. Wraps - 1]

VARIABLES
  system_us,       \* the timer: time_us_64()
  sync_,           \* set_synchronizer() was called at start-up
  sync_offset,     \* HarpSynchronizer::offset_us_64_, as its two words
  core_offset,     \* HarpCore::offset_us_64_, which no interrupt touches
  todo,            \* the accesses the handler under way has left to make
  halves,          \* of the one it is in: the words not yet moved
  moved,           \* ... what was loaded so far, or is to be stored
  local_us,        \* the timer as read for a conversion to Harp time
  new_harp_time_us,
  R_TIMESTAMP_SECOND, R_TIMESTAMP_MICRO,
  meant,           \* history: the offsets stored last, one or, by two at once, two
  seen,            \* history: the offsets there were since the load began
  by_packet,       \* history: a packet set all of sync_offset, and last of all
  ahead,           \* history: by how much the external clock was, in the last packet
  cut,             \* history: a packet came in between the two halves of the load
  delay,           \* history: ticks since a handler computed new_harp_time_us
  undisturbed      \* history: one has, and no packet came in since

loop  == <<todo, halves, moved, local_us, new_harp_time_us>>
stamp == <<R_TIMESTAMP_SECOND, R_TIMESTAMP_MICRO>>
hist  == <<meant, seen, cut, delay, undisturbed>>
vars  == <<system_us, sync_, sync_offset, core_offset, by_packet, ahead,
           loop, stamp, hist>>

Access == {"store_sync", "store_core", "load"}

TypeOK ==
  /\ system_us \in 0 .. MaxTime /\ sync_ \in BOOLEAN /\ by_packet \in BOOLEAN
  /\ sync_offset \in Words /\ moved \in Words
  /\ core_offset \in Time64 /\ local_us \in Time64 /\ new_harp_time_us \in Time64
  /\ todo \in Seq(Access) /\ halves \subseteq {"low", "high"}
  /\ R_TIMESTAMP_SECOND \in Time32 /\ R_TIMESTAMP_MICRO \in 0 .. (Second \div Unit) - 1
  /\ meant \subseteq Time64 /\ seen \subseteq Time64
  /\ ahead \in Leads \cup {0} /\ cut \in BOOLEAN
  /\ delay \in 0 .. MaxDelay /\ undisturbed \in BOOLEAN

Zero == [low |-> 0, high |-> 0]

Init ==
  /\ system_us = 0 /\ sync_ \in BOOLEAN /\ by_packet = FALSE /\ ahead = 0
  /\ sync_offset = Zero /\ core_offset = 0
  /\ todo = <<>> /\ halves = {} /\ moved = Zero
  /\ local_us = 0 /\ new_harp_time_us = 0
  /\ R_TIMESTAMP_SECOND = 0 /\ R_TIMESTAMP_MICRO = 0
  /\ meant = {0} /\ seen = {} /\ cut = FALSE /\ delay = 0 /\ undisturbed = FALSE

\* Mutated forms of the next definitions: the synchronizer's offset forgotten,
\* a packet that sets 32 bits of it, microseconds not divided into units, and a
\* load of 32 bits.
SetHarpTimeCoreOnly    == <<"store_core">>
PacketWordsLow(o)      == [sync_offset EXCEPT !.low = o % Word]
MicroOfUnshifted(harp) == harp % Second
LoadedLow(w)           == [moved EXCEPT !.low = sync_offset.low]

-----------------------------------------------------------------------------
(* Conversions.                                                            *)

ToWords(o)   == [low |-> o % Word, high |-> o \div Word]
FromWords(w) == w.high * Word + w.low

system_to_harp_us_64(t, offset) == (t - offset) % Long
harp_to_system_us_64(h, offset) == (h + offset) % Long

\* set_timestamp_regs()
SecondOf(harp) == (harp \div Second) % Word
MicroOf(harp)  == (harp % Second) \div Unit

HarpNow ==
  system_to_harp_us_64(system_us, IF sync_ THEN FromWords(sync_offset) ELSE core_offset)

-----------------------------------------------------------------------------
(* The timer, and the interrupt, which no access of the main loop divides. *)

Tick ==
  /\ system_us < MaxTime
  /\ undisturbed => delay < MaxDelay
  /\ system_us' = system_us + 1
  /\ delay' = IF undisturbed THEN delay + 1 ELSE delay
  /\ UNCHANGED <<sync_, sync_offset, core_offset, by_packet, ahead, loop, stamp,
                 meant, seen, cut, undisturbed>>

PacketWords(o) == ToWords(o)

Storing == todo # <<>> /\ Head(todo) = "store_sync" /\ halves # {}

HalfLoaded ==
  todo # <<>> /\ Head(todo) = "load" /\ halves # {} /\ halves # {"low", "high"}

\* uart_rx_callback() applies a timestamp.
Packet(lead) ==
  LET curr_harp_us == (system_us + lead) % Long
      offset == (system_us - curr_harp_us) % Long
  IN /\ sync_
     /\ sync_offset' = PacketWords(offset)
     /\ by_packet' = ~Storing /\ ahead' = lead
     /\ cut' = (cut \/ HalfLoaded)
     /\ meant' = {offset} \cup IF Storing THEN {FromWords(moved)} ELSE {}
     /\ seen' = IF seen # {} THEN seen \cup {offset} ELSE {}
     /\ undisturbed' = FALSE /\ delay' = 0
     /\ UNCHANGED <<system_us, sync_, core_offset, loop, stamp>>

-----------------------------------------------------------------------------
(* The handlers of the timestamp registers.                                *)

Idle == todo = <<>>

\* set_harp_time_us_64(): the synchronizer's offset, if there is one, then the
\* core's.
SetHarpTime == IF sync_ THEN <<"store_sync", "store_core">> ELSE <<"store_core">>

\* read_timestamp_second() and read_timestamp_microsecond(): the registers are
\* brought up to date, and once more for the reply.
ReadTimestamp ==
  /\ Idle
  /\ todo' = <<"load", "load">>
  /\ UNCHANGED <<system_us, sync_, sync_offset, core_offset, by_packet, ahead,
                 halves, moved, local_us, new_harp_time_us, stamp, hist>>

Write(harp, accesses) ==
  /\ Idle
  /\ new_harp_time_us' = harp
  /\ todo' = accesses
  /\ delay' = 0 /\ undisturbed' = TRUE
  /\ UNCHANGED <<system_us, sync_, sync_offset, core_offset, by_packet, ahead,
                 halves, moved, local_us, stamp, meant, seen, cut>>

\* The microseconds kept are those of the timer.
write_timestamp_second(seconds) ==
  Write((seconds * Second + (system_us % Second)) % Long, SetHarpTime \o <<"load">>)

\* The seconds kept are those of the timer, and added as microseconds; the
\* offsets are set twice.
write_timestamp_microsecond(micro) ==
  Write(((system_us \div Second) + micro * Unit) % Long,
        SetHarpTime \o (SetHarpTime \o <<"load">>))

\* offset_us_64_ = time_us_64() - harp_time_us
NewOffset == (system_us - new_harp_time_us) % Long

StoreCore ==
  /\ ~Idle /\ Head(todo) = "store_core"
  /\ core_offset' = NewOffset
  /\ todo' = Tail(todo)
  /\ UNCHANGED <<system_us, sync_, sync_offset, by_packet, ahead, halves, moved,
                 local_us, new_harp_time_us, stamp, hist>>

BeginStore ==
  /\ ~Idle /\ Head(todo) = "store_sync" /\ halves = {}
  /\ moved' = ToWords(NewOffset) /\ halves' = {"low", "high"}
  /\ meant' = {NewOffset} /\ by_packet' = FALSE
  /\ UNCHANGED <<system_us, sync_, sync_offset, core_offset, ahead, todo, local_us,
                 new_harp_time_us, stamp, seen, cut, delay, undisturbed>>

StoreHalf(w) ==
  /\ ~Idle /\ Head(todo) = "store_sync" /\ w \in halves
  /\ sync_offset' = [sync_offset EXCEPT ![w] = moved[w]]
  /\ halves' = halves \ {w}
  /\ IF halves = {w} THEN todo' = Tail(todo) /\ moved' = Zero
                     ELSE UNCHANGED <<todo, moved>>
  /\ UNCHANGED <<system_us, sync_, core_offset, by_packet, ahead, local_us,
                 new_harp_time_us, stamp, hist>>

\* harp_time_us_64(): the timer is read first.
BeginLoad ==
  /\ ~Idle /\ Head(todo) = "load" /\ halves = {} /\ sync_
  /\ local_us' = system_us /\ halves' = {"low", "high"}
  /\ seen' = meant
  /\ UNCHANGED <<system_us, sync_, sync_offset, core_offset, by_packet, ahead, todo,
                 moved, new_harp_time_us, stamp, meant, cut, delay, undisturbed>>

\* The handler goes on with the time it got; the last one is the reply's.
GetTime(harp) ==
  /\ R_TIMESTAMP_SECOND' = SecondOf(harp) /\ R_TIMESTAMP_MICRO' = MicroOf(harp)
  /\ todo' = Tail(todo)
  /\ moved' = Zero /\ local_us' = 0 /\ seen' = {} /\ cut' = FALSE
  /\ IF Len(todo) > 1
     THEN UNCHANGED <<new_harp_time_us, delay, undisturbed>>
     ELSE new_harp_time_us' = 0 /\ delay' = 0 /\ undisturbed' = FALSE

Loaded(w) == [moved EXCEPT ![w] = sync_offset[w]]

LoadHalf(w) ==
  /\ ~Idle /\ Head(todo) = "load" /\ w \in halves
  /\ halves' = halves \ {w}
  /\ IF halves = {w}
     THEN GetTime(system_to_harp_us_64(local_us, FromWords(Loaded(w))))
     ELSE /\ moved' = Loaded(w)
          /\ UNCHANGED <<stamp, todo, local_us, new_harp_time_us, seen, cut,
                         delay, undisturbed>>
  /\ UNCHANGED <<system_us, sync_, sync_offset, core_offset, by_packet, ahead, meant>>

LoadCore ==
  /\ ~Idle /\ Head(todo) = "load" /\ ~sync_
  /\ GetTime(system_to_harp_us_64(system_us, core_offset))
  /\ UNCHANGED <<system_us, sync_, sync_offset, core_offset, by_packet, ahead,
                 halves, meant>>

Handler == \/ StoreCore \/ BeginStore \/ BeginLoad \/ LoadCore
           \/ \E w \in {"low", "high"} : StoreHalf(w) \/ LoadHalf(w)

Requests == \/ ReadTimestamp
            \/ \E s \in SecondsWritten : write_timestamp_second(s)
            \/ \E m \in MicrosWritten : write_timestamp_microsecond(m)

Next == Tick \/ Handler \/ Requests \/ \E lead \in Leads : Packet(lead)

Spec == Init /\ [][Next]_vars

\* The loop goes on, and so does the external clock, if there is one.
FairSpec ==
  Spec /\ WF_vars(Handler) /\ WF_vars(\E lead \in Leads : Packet(lead))

-----------------------------------------------------------------------------

\* "t_Harp = t_local - t_offset": a conversion to Harp time subtracts an offset
\* there was while it ran, not one half of each of two.
LoadsWhole ==
  [][\A w \in halves : LoadHalf(w) /\ halves' = {} => FromWords(Loaded(w)) \in seen]_vars

\* Conversions are not protected from the interrupt. Only a packet between the two
\* halves of an offset spoils one, and that one alone: once a packet was the last to
\* set the offset, every other conversion gives the time of the external clock, as
\* the last packet had it, when the timer was read. What the PC wrote and a store it
\* tore are over with the packet.
FollowsPackets ==
  [][\A w \in halves : LoadHalf(w) /\ halves' = {} /\ by_packet /\ ~cut =>
       LET harp == (local_us + ahead) % Long
       IN R_TIMESTAMP_SECOND' = SecondOf(harp) /\ R_TIMESTAMP_MICRO' = MicroOf(harp)]_vars

\* "Override the current Harp time with a specific time": between two stores the
\* offset is one that was stored, by the PC's write or by a packet.
StoresWhole == halves = {} => FromWords(sync_offset) \in meant

\* An offset made of two halves does not survive the next packet: a packet that does
\* not come in the middle of a store sets all of it, until the next store begins ...
WholeAfterPacket == by_packet => FromWords(sync_offset) \in meant

\* ... and one comes.
Heals ==
  <>[](\A i \in DOMAIN todo : todo[i] = "load")
    => <>[](FromWords(sync_offset) \in meant)

\* The reply to a write of a timestamp register carries the time written, later
\* by no more than what has passed since, unless a packet came in: whichever
\* offset is in use has been set, and all the bits of it.
WriteShows ==
  [][undisturbed /\ todo' = <<>> =>
       \E d \in 0 .. delay :
         LET harp == (new_harp_time_us + d) % Long
         IN R_TIMESTAMP_SECOND' = SecondOf(harp) /\ R_TIMESTAMP_MICRO' = MicroOf(harp)]_vars

\* "Replace the current number of elapsed seconds without altering the number of
\* elapsed microseconds."
KeepsMicroseconds ==
  [][\A s \in SecondsWritten :
       write_timestamp_second(s) => new_harp_time_us' % Second = HarpNow % Second]_vars

\* "Replace the current number of elapsed microseconds with the value received":
\* the seconds stay.
KeepsSeconds ==
  [][\A m \in MicrosWritten :
       write_timestamp_microsecond(m) =>
         new_harp_time_us' \div Second = HarpNow \div Second]_vars
=============================================================================
