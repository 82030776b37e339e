-------------------------- MODULE HarpSynchronizer --------------------------
(***************************************************************************)
(* The decoder of the external clock: uart_rx_callback() of                *)
(* HarpSynchronizer, a UART with a holding register of one byte and no     *)
(* FIFO, and the packets that come in: two header bytes, then a count of   *)
(* seconds, little-endian.                                                 *)
(*                                                                         *)
(* The callback is an interrupt handler.  It keeps nothing of its own from *)
(* one pass of its loop to the next (next_state_ always equals state_      *)
(* there), so a pass is a step, and applying a timestamp is a step.        *)
(***************************************************************************)
EXTENDS HarpTime, Sequences

CONSTANTS
  ByteRange,            \* number of values of a uint8_t
  HEADER_0, HEADER_1,   \* 0xAA and 0xAF
  HARP_SYNC_OFFSET_US,
  Seconds,              \* the second counts the external clock sends
  JoinsMidPacket,       \* whether the line may be plugged in during a packet
  MaxLost,              \* bound: bytes lost because the handler came too late
  Nothing               \* the clock has not been set, no timestamp is due

Byte == 0 .. ByteRange - 1

ASSUME SyncAssumption ==
  /\ ByteRange \in Nat \ {0} /\ Word = ByteRange * ByteRange * ByteRange * ByteRange
  /\ HEADER_0 \in Byte /\ HEADER_1 \in Byte /\ HEADER_0 # HEADER_1
  /\ HARP_SYNC_OFFSET_US \in 1 .. Second /\ Word * Second <= Long
  /\ Seconds \subseteq Time32
  /\ JoinsMidPacket \in BOOLEAN /\ MaxLost \in Nat
  /\ Nothing \notin Time64 /\ Nothing \notin Seconds

SyncState == {"RECEIVE_HEADER_0", "RECEIVE_HEADER_1", "RECEIVE_TIMESTAMP"}

VARIABLES
  packet,          \* the second count of the packet on the line
  bytes_sent,      \* how many of its 6 bytes have arrived; 6 between packets
  uart,            \* the UART's data register: at most one byte
  lost,            \* bytes that found it full
  state_, packet_index_, sync_data_, new_timestamp_, has_synced_,
  harp_set,        \* the Harp time the clock was set to last: curr_harp_us
  due,             \* history: a packet that is in and has not been applied
  clean            \* history: the packets that have begun since the last loss, from
                   \* the first on whose timestamp does not look like a header; up
                   \* to 3

line == <<packet, bytes_sent, clean>>
vars == <<line, uart, due, lost, state_, packet_index_, sync_data_, new_timestamp_,
          has_synced_, harp_set>>

TypeOK ==
  /\ packet \in Seconds /\ bytes_sent \in 0 .. 6
  /\ uart \in Seq(Byte) /\ Len(uart) <= 1
  /\ lost \in 0 .. MaxLost
  /\ state_ \in SyncState /\ packet_index_ \in 0 .. 3
  /\ sync_data_ \in [0 .. 3 -> Byte]
  /\ new_timestamp_ \in BOOLEAN /\ has_synced_ \in BOOLEAN
  /\ harp_set \in Time64 \cup {Nothing}
  /\ due \in Seconds \cup {Nothing} /\ clean \in 0 .. 3

Init ==
  /\ packet \in Seconds
  /\ bytes_sent \in IF JoinsMidPacket THEN 0 .. 6 ELSE {6}
  /\ uart = <<>> /\ lost = 0
  /\ state_ = "RECEIVE_HEADER_0" /\ packet_index_ = 0
  /\ sync_data_ = [i \in 0 .. 3 |-> 0]
  /\ new_timestamp_ = FALSE /\ has_synced_ = FALSE /\ harp_set = Nothing
  /\ due = Nothing /\ clean = 0

-----------------------------------------------------------------------------
(* The line.                                                               *)

\* The bytes of a packet, numbered from 0.
PacketByte(s, i) ==
  CASE i = 0 -> HEADER_0
    [] i = 1 -> HEADER_1
    [] i = 2 -> s % ByteRange
    [] i = 3 -> (s \div ByteRange) % ByteRange
    [] i = 4 -> ((s \div ByteRange) \div ByteRange) % ByteRange
    [] i = 5 -> (((s \div ByteRange) \div ByteRange) \div ByteRange) % ByteRange

\* No byte of the timestamp looks like the first of a header.
Clean(s) == \A i \in 2 .. 5 : PacketByte(s, i) # HEADER_0

\* The handler may be late: the last byte of the packet before may still be in the
\* register, and its timestamp not applied.
PacketBegins(s) ==
  /\ bytes_sent = 6
  /\ packet' = s /\ bytes_sent' = 0
  /\ clean' = CASE clean = 0 -> IF Clean(s) THEN 1 ELSE 0
                [] clean = 1 -> 2
                [] OTHER     -> 3
  /\ UNCHANGED <<uart, due, lost, state_, packet_index_, sync_data_, new_timestamp_,
                 has_synced_, harp_set>>

\* A byte that finds the register full is lost.
ByteArrives ==
  /\ bytes_sent < 6
  /\ bytes_sent' = bytes_sent + 1
  /\ \/ /\ uart = <<>>
        /\ uart' = <<PacketByte(packet, bytes_sent)>>
        /\ UNCHANGED <<lost, clean>>
     \/ /\ uart # <<>> /\ lost < MaxLost
        /\ uart' = uart
        /\ lost' = lost + 1 /\ clean' = 0
  /\ due' = IF bytes_sent = 5 THEN packet ELSE due
  /\ UNCHANGED <<packet, state_, packet_index_, sync_data_, new_timestamp_,
                 has_synced_, harp_set>>

-----------------------------------------------------------------------------
(* uart_rx_callback()                                                      *)

\* Mutated forms of the next definitions: both header bytes alike, no return
\* from the timestamp, an index that does not wrap, the other order of bytes, and a
\* sum in 64 bits.
NextSyncStateOneHeader(new_byte) ==
  CASE state_ = "RECEIVE_HEADER_0" ->
         IF new_byte = HEADER_0 THEN "RECEIVE_HEADER_1" ELSE "RECEIVE_HEADER_0"
    [] state_ = "RECEIVE_HEADER_1" ->
         IF new_byte = HEADER_0 THEN "RECEIVE_TIMESTAMP" ELSE "RECEIVE_HEADER_0"
    [] state_ = "RECEIVE_TIMESTAMP" ->
         IF packet_index_ = 3 THEN "RECEIVE_HEADER_0" ELSE "RECEIVE_TIMESTAMP"
NextSyncStateNoReturn(new_byte) ==
  CASE state_ = "RECEIVE_HEADER_0" ->
         IF new_byte = HEADER_0 THEN "RECEIVE_HEADER_1" ELSE "RECEIVE_HEADER_0"
    [] state_ = "RECEIVE_HEADER_1" ->
         IF new_byte = HEADER_1 THEN "RECEIVE_TIMESTAMP" ELSE "RECEIVE_HEADER_0"
    [] state_ = "RECEIVE_TIMESTAMP" -> "RECEIVE_TIMESTAMP"
NextIndexNoWrap == packet_index_ + 1
Uint32BigEndian(data) ==
  data[3] + ByteRange * (data[2] + ByteRange * (data[1] + ByteRange * data[0]))
TimeOfWide(s) == ((s + 1) * Second - HARP_SYNC_OFFSET_US) % Long

NextSyncState(new_byte) ==
  CASE state_ = "RECEIVE_HEADER_0" ->
         IF new_byte = HEADER_0 THEN "RECEIVE_HEADER_1" ELSE "RECEIVE_HEADER_0"
    [] state_ = "RECEIVE_HEADER_1" ->
         IF new_byte = HEADER_1 THEN "RECEIVE_TIMESTAMP" ELSE "RECEIVE_HEADER_0"
    [] state_ = "RECEIVE_TIMESTAMP" ->
         IF packet_index_ = 3 THEN "RECEIVE_HEADER_0" ELSE "RECEIVE_TIMESTAMP"

NextIndex == IF packet_index_ = 3 THEN 0 ELSE packet_index_ + 1

\* A pass of the loop, which stops once there is a timestamp to apply.
ReceiveByte ==
  /\ uart # <<>> /\ ~new_timestamp_
  /\ uart' = <<>>
  /\ state_' = NextSyncState(Head(uart))
  /\ IF state_ = "RECEIVE_TIMESTAMP"
     THEN /\ sync_data_' = [sync_data_ EXCEPT ![packet_index_] = Head(uart)]
          /\ packet_index_' = NextIndex
          /\ new_timestamp_' = (packet_index_ = 3)
     ELSE UNCHANGED <<sync_data_, packet_index_, new_timestamp_>>
  /\ UNCHANGED <<line, due, lost, has_synced_, harp_set>>

\* The four bytes read as a uint32_t, in the processor's little-endian order.
Uint32(data) ==
  data[0] + ByteRange * (data[1] + ByteRange * (data[2] + ByteRange * data[3]))

\* One second is added because a packet holds the second before; the sum is a
\* uint32_t, the rest of the computation is in 64 bits.
TimeOf(s) == (((s + 1) % Word) * Second - HARP_SYNC_OFFSET_US) % Long

ApplyTimestamp ==
  /\ new_timestamp_
  /\ harp_set' = TimeOf(Uint32(sync_data_))
  /\ has_synced_' = TRUE
  /\ new_timestamp_' = FALSE
  /\ due' = Nothing
  /\ UNCHANGED <<line, uart, lost, state_, packet_index_, sync_data_>>

Next == \/ \E s \in Seconds : PacketBegins(s)
        \/ ByteArrives
        \/ ReceiveByte
        \/ ApplyTimestamp

Spec == Init /\ [][Next]_vars

\* The external clock goes on, and pending interrupts are served.
FairSpec ==
  /\ Spec
  /\ WF_vars(\E s \in Seconds : PacketBegins(s)) /\ WF_vars(ByteArrives)
  /\ WF_vars(ReceiveByte) /\ WF_vars(ApplyTimestamp)

-----------------------------------------------------------------------------

\* "Add 1[s] per protocol spec since 4-byte sequence encodes previous second": the
\* time a packet announces.  After the last count of seconds the clock starts over,
\* and the device is as far from 0 as it takes the packet to come in.
Announced(s) ==
  IF s < Word - 1 THEN (s + 1) * Second - HARP_SYNC_OFFSET_US
                  ELSE Long - HARP_SYNC_OFFSET_US

\* A handler that loses no byte, on a line plugged in between packets: the time is
\* set by each packet, to what it says, and by nothing else, also where the next
\* packet begins before it is applied.
Clock == INSTANCE SyncClock WITH TimeOf <- Announced
FollowsClock == Clock!Spec

\* ... and no timestamp, whatever its bytes, stops it.
AppliesOn == []<><<ApplyTimestamp>>_vars

\* Wherever the line was plugged in and whatever bytes were lost: once a packet whose
\* timestamp does not look like a header has come in whole, no packet sets the time
\* but to what it says, and each one does before the next is in, until another byte
\* is lost.
AppliesDue == ApplyTimestamp => due # Nothing /\ harp_set' = Announced(due)
RecoversInTime ==
  [][/\ clean >= 2 => AppliesDue
     /\ clean = 3 /\ ByteArrives /\ bytes_sent = 5 => due = Nothing]_vars

\* If such packets keep coming, the times applied are, from some time on, those of
\* the packets just received ...
CleanOnesCome == []<>Clean(packet)
Recovers == CleanOnesCome => <>[][AppliesDue]_vars

\* ... and the clock does not stop being set.
KeepsSyncing == CleanOnesCome => []<><<ApplyTimestamp>>_vars
=============================================================================
