----------------------- MODULE HarpSynchronizerProofs -----------------------
(***************************************************************************)
(* Theorems about the synchronizer, for every width of a byte and every    *)
(* set of second counts.                                                   *)
(***************************************************************************)
EXTENDS HarpSynchronizer, HarpTimeProofs

LEMMA ByteFacts ==
  /\ ByteRange \in Nat \ {0} /\ 0 \in Byte /\ HEADER_0 \in Byte /\ HEADER_1 \in Byte
  /\ \A x \in Int : (x % ByteRange) \in Byte /\ (x \div ByteRange) \in Int
  <1>1. ByteRange \in Nat \ {0} /\ HEADER_0 \in Byte /\ HEADER_1 \in Byte
    BY SyncAssumption
  <1>2. ASSUME NEW x \in Int
        PROVE  (x % ByteRange) \in Byte /\ (x \div ByteRange) \in Int
    BY <1>1, DivMod DEF Byte
  <1> QED
    BY <1>1, <1>2 DEF Byte

LEMMA PacketByteType ==
  ASSUME NEW s \in Int, NEW i \in 0 .. 5
  PROVE  PacketByte(s, i) \in Byte
  <1>1. /\ (s \div ByteRange) \in Int
        /\ ((s \div ByteRange) \div ByteRange) \in Int
        /\ (((s \div ByteRange) \div ByteRange) \div ByteRange) \in Int
    BY ByteFacts
  <1> QED
    BY <1>1, ByteFacts DEF PacketByte

LEMMA TimeOfType ==
  ASSUME NEW s \in Int
  PROVE  TimeOf(s) \in Time64
  <1>1. ((s + 1) % Word) \in Int /\ Second \in Int /\ HARP_SYNC_OFFSET_US \in Int
    BY Sizes, DivMod, SyncAssumption
  <1> DEFINE x == ((s + 1) % Word) * Second - HARP_SYNC_OFFSET_US
  <1>2. x \in Int
    BY <1>1
  <1> HIDE DEF x
  <1>3. (x % Long) \in Time64
    BY <1>2, Sizes, DivMod DEF Time64
  <1> QED
    BY <1>3 DEF TimeOf, x

LEMMA Uint32Type ==
  ASSUME NEW data \in [0 .. 3 -> Byte]
  PROVE  Uint32(data) \in Int
  <1>1. /\ data[0] \in Int /\ data[1] \in Int /\ data[2] \in Int /\ data[3] \in Int
        /\ ByteRange \in Int
    BY ByteFacts DEF Byte
  <1>2. data[2] + ByteRange * data[3] \in Int
    BY <1>1
  <1>3. data[1] + ByteRange * (data[2] + ByteRange * data[3]) \in Int
    BY <1>1, <1>2
  <1> QED
    BY <1>1, <1>3 DEF Uint32

LEMMA InitTypes == Init => TypeOK
  <1> SUFFICES ASSUME Init PROVE TypeOK
    OBVIOUS
  <1>1. lost \in 0 .. MaxLost /\ sync_data_ \in [0 .. 3 -> Byte]
    BY SyncAssumption, ByteFacts DEF Init
  <1>2. bytes_sent \in 0 .. 6 /\ uart \in Seq(Byte) /\ Len(uart) <= 1
    BY DEF Init
  <1>3. /\ packet \in Seconds /\ state_ \in SyncState /\ packet_index_ \in 0 .. 3
        /\ new_timestamp_ \in BOOLEAN /\ has_synced_ \in BOOLEAN
        /\ harp_set \in Time64 \cup {Nothing}
        /\ due \in Seconds \cup {Nothing} /\ clean \in 0 .. 3
    BY DEF Init, SyncState
  <1> QED
    BY <1>1, <1>2, <1>3 DEF TypeOK

LEMMA TypesPreserved == TypeOK /\ [Next]_vars => TypeOK'
  <1> SUFFICES ASSUME TypeOK, [Next]_vars
               PROVE  TypeOK'
    OBVIOUS
  <1> USE DEF line
  <1>1. ASSUME NEW s \in Seconds, PacketBegins(s)
        PROVE  TypeOK'
    BY <1>1 DEF PacketBegins, TypeOK
  <1>2. CASE ByteArrives
    <2>1. packet \in Int /\ bytes_sent \in 0 .. 5
      BY <1>2, SyncAssumption, Sizes DEF ByteArrives, TypeOK, Time32
    <2>2. PacketByte(packet, bytes_sent) \in Byte
      BY <2>1, PacketByteType
    <2>3. uart' \in Seq(Byte) /\ Len(uart') <= 1
      <3>1. <<PacketByte(packet, bytes_sent)>> \in Seq(Byte)
            /\ Len(<<PacketByte(packet, bytes_sent)>>) = 1
        BY <2>2
      <3>2. uart' = uart \/ uart' = <<PacketByte(packet, bytes_sent)>>
        BY <1>2 DEF ByteArrives
      <3>3. uart \in Seq(Byte) /\ Len(uart) <= 1
        BY DEF TypeOK
      <3>4. CASE uart' = uart
        BY <3>3, <3>4
      <3>5. CASE uart' = <<PacketByte(packet, bytes_sent)>>
        BY <3>1, <3>5
      <3> QED
        BY <3>2, <3>4, <3>5
    <2>4. /\ lost' \in 0 .. MaxLost /\ bytes_sent' \in 0 .. 6
          /\ due' \in Seconds \cup {Nothing} /\ clean' \in 0 .. 3
      BY <1>2, <2>1, SyncAssumption DEF ByteArrives, TypeOK
    <2> QED
      BY <1>2, <2>3, <2>4 DEF ByteArrives, TypeOK
  <1>3. CASE ReceiveByte
    <2>1. Head(uart) \in Byte
      BY <1>3 DEF ReceiveByte, TypeOK
    <2>2. state_' \in SyncState
      BY <1>3 DEF ReceiveByte, NextSyncState, TypeOK, SyncState
    <2>3. packet_index_' \in 0 .. 3 /\ sync_data_' \in [0 .. 3 -> Byte]
          /\ new_timestamp_' \in BOOLEAN
      <3>1. CASE state_ = "RECEIVE_TIMESTAMP"
        <4>1. /\ sync_data_' = [sync_data_ EXCEPT ![packet_index_] = Head(uart)]
              /\ packet_index_' = NextIndex
              /\ new_timestamp_' = (packet_index_ = 3)
          BY <1>3, <3>1 DEF ReceiveByte
        <4>2. packet_index_' \in 0 .. 3
          BY <4>1 DEF NextIndex, TypeOK
        <4>3. sync_data_' \in [0 .. 3 -> Byte]
          BY <2>1, <4>1 DEF TypeOK
        <4> QED
          BY <4>1, <4>2, <4>3
      <3>2. CASE state_ # "RECEIVE_TIMESTAMP"
        BY <1>3, <3>2 DEF ReceiveByte, TypeOK
      <3> QED
        BY <3>1, <3>2
    <2>4. uart' \in Seq(Byte) /\ Len(uart') <= 1
      BY <1>3 DEF ReceiveByte
    <2> QED
      BY <1>3, <2>2, <2>3, <2>4 DEF ReceiveByte, TypeOK
  <1>4. CASE ApplyTimestamp
    <2>1. harp_set' \in Time64
      BY <1>4, Uint32Type, TimeOfType DEF ApplyTimestamp, TypeOK
    <2> QED
      BY <1>4, <2>1 DEF ApplyTimestamp, TypeOK
  <1>5. CASE UNCHANGED vars
    BY <1>5 DEF vars, TypeOK
  <1> QED
    BY <1>1, <1>2, <1>3, <1>4, <1>5 DEF Next

\* The decoder's variables keep their types, however the line behaves: the index
\* into sync_data_ stays within its four bytes.
THEOREM TypeCorrect == Spec => []TypeOK
  <1> QED
    BY InitTypes, TypesPreserved, PTL DEF Spec

-----------------------------------------------------------------------------
(* The encoding of a second count.                                         *)

\* Dividing by a byte takes a byte off the bound.
LEMMA QuotientBound ==
  ASSUME NEW b \in Nat \ {0}, NEW k \in Nat, NEW x \in Nat, x < b * k
  PROVE  /\ (x \div b) \in Nat /\ (x \div b) < k
         /\ x = (x % b) + b * (x \div b)
  <1> DEFINE q == x \div b
             r == x % b
  <1>1. r \in 0 .. b - 1 /\ q \in Int /\ x = b * q + r
    BY DivMod
  <1> HIDE DEF q, r
  <1>2. q >= 0
    <2>1. CASE q <= -1
      <3>1. b * q <= b * (-1)
        BY <1>1, <2>1
      <3> QED
        BY <1>1, <3>1
    <2> QED
      BY <1>1, <2>1
  <1>3. q < k
    <2>1. CASE q >= k
      <3>1. b * q >= b * k
        BY <1>1, <2>1
      <3> QED
        BY <1>1, <3>1
    <2> QED
      BY <1>1, <2>1
  <1>4. q \in Nat /\ q < k /\ x = r + b * q
    BY <1>1, <1>2, <1>3
  <1> QED
    BY <1>4 DEF q, r

\* Four bytes hold a second count: the decoder reads back what was sent.
LEMMA DecodesPacket ==
  ASSUME NEW s \in Time32, NEW data,
         \A i \in 0 .. 3 : data[i] = PacketByte(s, i + 2)
  PROVE  Uint32(data) = s
  <1> DEFINE B  == ByteRange
             q1 == s \div B
             q2 == q1 \div B
             q3 == q2 \div B
  <1>1. B \in Nat \ {0} /\ s \in Nat /\ s < B * (B * (B * B))
    <2>1. B \in Nat \ {0} /\ Word = B * B * B * B
      BY SyncAssumption
    <2>2. B * B * B * B = B * (B * (B * B))
      BY <2>1
    <2> QED
      BY <2>1, <2>2, Sizes DEF Time32
  <1>2. q1 \in Nat /\ q1 < B * (B * B) /\ s = (s % B) + B * q1
    <2>1. B * (B * B) \in Nat
      BY <1>1
    <2> QED
      BY <1>1, <2>1, QuotientBound
  <1>3. q2 \in Nat /\ q2 < B * B /\ q1 = (q1 % B) + B * q2
    <2>1. B * B \in Nat
      BY <1>1
    <2> QED
      BY <1>1, <1>2, <2>1, QuotientBound
  <1>4. q3 \in Nat /\ q3 < B /\ q2 = (q2 % B) + B * q3
    BY <1>1, <1>3, QuotientBound
  <1>5. (q3 % B) = q3
    <2>1. q3 \in 0 .. B - 1 /\ 0 \in Int /\ q3 = B * 0 + q3 /\ q3 \in Int
      BY <1>1, <1>4
    <2> QED
      BY <1>1, <2>1, ModUnique
  <1>6. /\ data[0] = s % B /\ data[1] = q1 % B /\ data[2] = q2 % B /\ data[3] = q3 % B
    <2>1. /\ data[0] = PacketByte(s, 0 + 2) /\ data[1] = PacketByte(s, 1 + 2)
          /\ data[2] = PacketByte(s, 2 + 2) /\ data[3] = PacketByte(s, 3 + 2)
      OBVIOUS
    <2> QED
      BY <2>1 DEF PacketByte
  <1> HIDE DEF q1, q2, q3
  <1>7. data[2] + B * data[3] = q2
    BY <1>4, <1>5, <1>6
  <1>8. data[1] + B * q2 = q1
    BY <1>3, <1>6
  <1>9. data[0] + B * q1 = s
    BY <1>2, <1>6
  <1> QED
    BY <1>7, <1>8, <1>9 DEF Uint32

-----------------------------------------------------------------------------
(* The time a packet announces.                                            *)

\* The second after the count, in 32 bits, is the one the packet announces: the sum
\* wraps for the last count only, and nothing else does.
LEMMA TimeAnnounced ==
  ASSUME NEW s \in Time32
  PROVE  TimeOf(s) = Announced(s)
  <1>1. /\ Word \in Nat \ {0} /\ Second \in Nat \ {0} /\ Long \in Nat \ {0}
        /\ s \in 0 .. Word - 1 /\ HARP_SYNC_OFFSET_US \in 1 .. Second
        /\ Word * Second <= Long /\ Word > 6 * Second
    BY Sizes, SyncAssumption DEF Time32
  <1>2. CASE s < Word - 1
    <2> DEFINE x == (s + 1) * Second - HARP_SYNC_OFFSET_US
    <2>1. ((s + 1) % Word) = s + 1
      <3>1. s + 1 \in 0 .. Word - 1 /\ s + 1 \in Int /\ s + 1 = Word * 0 + (s + 1)
        BY <1>1, <1>2
      <3> QED
        BY <1>1, <3>1, ModUnique
    <2>2. x \in 0 .. Long - 1
      <3>1. (s + 1) * Second <= Word * Second /\ (s + 1) * Second >= Second
        BY <1>1, <1>2
      <3>2. (s + 1) * Second \in Int
        BY <1>1
      <3> DEFINE y == (s + 1) * Second
                 z == Word * Second
      <3>3. y \in Int /\ z \in Int /\ y <= z /\ y >= Second /\ z <= Long
        BY <1>1, <3>1, <3>2
      <3> HIDE DEF y, z
      <3>4. y - HARP_SYNC_OFFSET_US \in 0 .. Long - 1
        BY <1>1, <3>3
      <3> QED
        BY <3>4 DEF y
    <2> HIDE DEF x
    <2>3. (x % Long) = x
      <3>1. x \in Int /\ x = Long * 0 + x
        BY <1>1, <2>2
      <3> QED
        BY <1>1, <2>2, <3>1, ModUnique
    <2> QED
      BY <1>2, <2>1, <2>3 DEF TimeOf, Announced, x
  <1>3. CASE ~(s < Word - 1)
    <2>1. ((s + 1) % Word) = 0
      <3>1. s + 1 \in Int /\ 0 \in 0 .. Word - 1 /\ s + 1 = Word * 1 + 0
        BY <1>1, <1>3
      <3> QED
        BY <1>1, <3>1, ModUnique
    <2> DEFINE x == 0 * Second - HARP_SYNC_OFFSET_US
               y == Long - HARP_SYNC_OFFSET_US
    <2>2. Second <= Long
      <3>1. Word * Second >= Second
        BY <1>1
      <3>2. Word * Second \in Int
        BY <1>1
      <3> DEFINE z == Word * Second
      <3>3. z \in Int /\ z >= Second /\ z <= Long
        BY <1>1, <3>1, <3>2
      <3> HIDE DEF z
      <3> QED
        BY <1>1, <3>3
    <2>3. x \in Int /\ y \in 0 .. Long - 1 /\ x = Long * (-1) + y
      BY <1>1, <2>2
    <2> HIDE DEF x, y
    <2>4. (x % Long) = y
      BY <1>1, <2>3, ModUnique
    <2> QED
      BY <1>3, <2>1, <2>4 DEF TimeOf, Announced, x, y
  <1> QED
    BY <1>2, <1>3

-----------------------------------------------------------------------------
(* Where the decoder stands.                                               *)

\* The bytes of the packet the handler has taken; the last one of the packet before
\* may be left to take.
Got == bytes_sent - Len(uart)

HasBytes(s, n) == \A i \in 0 .. n - 1 : sync_data_[i] = PacketByte(s, i + 2)

\* The register holds the last byte of the line.
LastByteIn ==
  uart # <<>> /\ bytes_sent # 0 => uart = <<PacketByte(packet, bytes_sent - 1)>>

\* The decoder stands where the line does, with the bytes it has taken ...
Placed ==
  /\ LastByteIn
  /\ bytes_sent = 6 => due = packet \/ (uart = <<>> /\ ~new_timestamp_)
  /\ Got \in {0, 6} => state_ = "RECEIVE_HEADER_0" /\ packet_index_ = 0
  /\ Got = 1 => state_ = "RECEIVE_HEADER_1" /\ packet_index_ = 0
  /\ Got \in 2 .. 5 => /\ state_ = "RECEIVE_TIMESTAMP" /\ packet_index_ = Got - 2
                       /\ HasBytes(packet, Got - 2)
  /\ Got = -1 => /\ state_ = "RECEIVE_TIMESTAMP" /\ packet_index_ = 3
                 /\ due \in Seconds /\ HasBytes(due, 3) /\ uart = <<PacketByte(due, 5)>>

\* ... and has the timestamp of the last packet that came in, or none, to apply.
Aligned ==
  /\ Placed
  /\ new_timestamp_ => Got \in {0, 6} /\ due \in Seconds /\ HasBytes(due, 4)

\* What is due is about to be applied.
Pending == due # Nothing => new_timestamp_ \/ (uart # <<>> /\ bytes_sent \in {0, 6})

LEMMA UartLength ==
  ASSUME TypeOK
  PROVE  /\ uart = <<>> => Len(uart) = 0 /\ Got = bytes_sent
         /\ uart # <<>> => Len(uart) = 1 /\ Got = bytes_sent - 1
         /\ bytes_sent \in 0 .. 6
  <1> DEFINE n == Len(uart)
  <1>1. n \in Nat /\ n <= 1 /\ bytes_sent \in 0 .. 6
    <2>1. uart \in Seq(Byte) /\ Len(uart) <= 1 /\ bytes_sent \in 0 .. 6
      BY DEF TypeOK
    <2> QED
      BY <2>1
  <1>2. uart = <<>> <=> n = 0
    BY DEF TypeOK
  <1>3. Got = bytes_sent - n
    BY DEF Got
  <1> HIDE DEF n
  <1>4. (n = 0 => Got = bytes_sent) /\ (n # 0 => n = 1 /\ Got = bytes_sent - 1)
    BY <1>1, <1>3
  <1> QED
    BY <1>1, <1>2, <1>4 DEF n

\* The line: where the decoder stands, seen from the packet that begins.
LEMMA LineBegins ==
  ASSUME TypeOK, NEW s \in Seconds, PacketBegins(s)
  PROVE  /\ bytes_sent = 6 /\ bytes_sent' = 0 /\ packet' = s
         /\ UNCHANGED <<uart, due, state_, packet_index_, sync_data_, new_timestamp_>>
         /\ uart = <<>> => Got = 6 /\ Got' = 0
         /\ uart # <<>> => Got = 5 /\ Got' = -1
  <1>1. /\ bytes_sent = 6 /\ bytes_sent' = 0 /\ packet' = s
        /\ UNCHANGED <<uart, due, state_, packet_index_, sync_data_, new_timestamp_>>
    BY DEF PacketBegins
  <1>2. Got' = 0 - Len(uart)
    BY <1>1 DEF Got
  <1>3. /\ uart = <<>> => Len(uart) = 0 /\ Got = 6
        /\ uart # <<>> => Len(uart) = 1 /\ Got = 5
    BY <1>1, UartLength
  <1>4. CASE uart = <<>>
    <2>1. Len(uart) = 0 /\ Got' = 0 - Len(uart)
      BY <1>2, <1>3, <1>4
    <2>2. Got' = 0 - 0
      BY <2>1
    <2> QED
      BY <1>1, <1>3, <1>4, <2>2, 0 - 0 = 0
  <1>5. CASE uart # <<>>
    <2>1. Len(uart) = 1 /\ Got' = 0 - Len(uart)
      BY <1>2, <1>3, <1>5
    <2>2. Got' = 0 - 1
      BY <2>1
    <2> QED
      BY <1>1, <1>3, <1>5, <2>2, 0 - 1 = -1
  <1> QED
    BY <1>4, <1>5

\* A byte that is not lost.
LEMMA LineGoesOn ==
  ASSUME TypeOK, ByteArrives, lost' = lost
  PROVE  /\ uart = <<>> /\ uart' = <<PacketByte(packet, bytes_sent)>>
         /\ bytes_sent \in 0 .. 5 /\ bytes_sent' = bytes_sent + 1
         /\ Got = bytes_sent /\ Got' = bytes_sent /\ clean' = clean
         /\ due' = IF bytes_sent = 5 THEN packet ELSE due
         /\ UNCHANGED <<packet, state_, packet_index_, sync_data_, new_timestamp_>>
         /\ uart' # <<>> /\ bytes_sent' # 0 /\ bytes_sent' - 1 = bytes_sent
  <1>1. ~(lost' = lost + 1)
    BY SyncAssumption DEF TypeOK
  <1>2. /\ uart = <<>> /\ uart' = <<PacketByte(packet, bytes_sent)>> /\ clean' = clean
        /\ bytes_sent < 6 /\ bytes_sent' = bytes_sent + 1
        /\ due' = IF bytes_sent = 5 THEN packet ELSE due
        /\ UNCHANGED <<packet, state_, packet_index_, sync_data_, new_timestamp_>>
    BY <1>1 DEF ByteArrives
  <1>3. bytes_sent \in 0 .. 5 /\ Got = bytes_sent
    BY <1>2, UartLength
  <1>4. Len(uart') = 1 /\ uart' # <<>>
    BY <1>2
  <1>5. Got' = bytes_sent
    BY <1>2, <1>3, <1>4 DEF Got
  <1> QED
    BY <1>2, <1>3, <1>4, <1>5

\* The handler takes the byte in the register.
LEMMA LineTaken ==
  ASSUME TypeOK, ReceiveByte
  PROVE  /\ uart # <<>> /\ uart' = <<>> /\ ~new_timestamp_
         /\ Got = bytes_sent - 1 /\ Got' = bytes_sent /\ bytes_sent \in 0 .. 6
         /\ state_' = NextSyncState(Head(uart))
         /\ UNCHANGED <<packet, bytes_sent, clean, due, lost>>
         /\ \A b : uart = <<b>> => Head(uart) = b
  <1>1. /\ uart # <<>> /\ uart' = <<>> /\ ~new_timestamp_
        /\ state_' = NextSyncState(Head(uart))
        /\ UNCHANGED <<packet, bytes_sent, clean, due, lost>>
    BY DEF ReceiveByte, line
  <1>2. Got = bytes_sent - 1 /\ bytes_sent \in 0 .. 6
    BY <1>1, UartLength
  <1>3. Len(uart') = 0
    BY <1>1
  <1>4. Got' = bytes_sent
    BY <1>1, <1>2, <1>3 DEF Got
  <1>5. \A b : uart = <<b>> => Head(uart) = b
    OBVIOUS
  <1> QED
    BY <1>1, <1>2, <1>4, <1>5

\* The byte after the timestamp's first n goes where it belongs.
LEMMA TimestampByte ==
  ASSUME TypeOK, ReceiveByte, state_ = "RECEIVE_TIMESTAMP", NEW n \in 0 .. 3,
         packet_index_ = n, NEW s, HasBytes(s, n), uart = <<PacketByte(s, n + 2)>>
  PROVE  /\ \A i \in 0 .. n : sync_data_'[i] = PacketByte(s, i + 2)
         /\ n = 3 => state_' = "RECEIVE_HEADER_0" /\ packet_index_' = 0 /\ new_timestamp_'
         /\ n # 3 => /\ state_' = "RECEIVE_TIMESTAMP" /\ packet_index_' = n + 1
                     /\ ~new_timestamp_'
  <1>1. Head(uart) = PacketByte(s, n + 2) /\ state_' = NextSyncState(Head(uart))
    BY LineTaken
  <1>2. /\ sync_data_' = [sync_data_ EXCEPT ![n] = PacketByte(s, n + 2)]
        /\ packet_index_' = NextIndex /\ new_timestamp_' = (n = 3)
    BY <1>1 DEF ReceiveByte
  <1>3. ASSUME NEW i \in 0 .. n
        PROVE  sync_data_'[i] = PacketByte(s, i + 2)
    <2>1. CASE i = n
      BY <1>2, <2>1 DEF TypeOK
    <2>2. CASE i # n
      <3>1. i \in 0 .. n - 1 /\ i \in 0 .. 3
        BY <2>2
      <3>2. sync_data_'[i] = sync_data_[i]
        BY <1>2, <2>2, <3>1 DEF TypeOK
      <3> QED
        BY <3>1, <3>2 DEF HasBytes
    <2> QED
      BY <2>1, <2>2
  <1> QED
    BY <1>1, <1>2, <1>3 DEF NextSyncState, NextIndex

\* While no byte is lost, the decoder stays where the line is.
LEMMA PlacedReceives ==
  ASSUME TypeOK, Placed, ReceiveByte
  PROVE  Aligned'
  <1>1. /\ uart # <<>> /\ uart' = <<>> /\ ~new_timestamp_
        /\ Got = bytes_sent - 1 /\ Got' = bytes_sent /\ bytes_sent \in 0 .. 6
        /\ state_' = NextSyncState(Head(uart))
        /\ UNCHANGED <<packet, bytes_sent, due>>
    BY LineTaken
  <1>2. LastByteIn'
    BY <1>1 DEF LastByteIn
  <1>3. bytes_sent = 6 => due = packet
    BY <1>1 DEF Placed
  <1>4. packet \in Seconds
    BY DEF TypeOK
  <1>5. CASE bytes_sent = 0
    <2>1. /\ state_ = "RECEIVE_TIMESTAMP" /\ packet_index_ = 3 /\ due \in Seconds
          /\ HasBytes(due, 3) /\ uart = <<PacketByte(due, 3 + 2)>>
      BY <1>1, <1>5 DEF Placed
    <2>2. /\ \A i \in 0 .. 3 : sync_data_'[i] = PacketByte(due, i + 2)
          /\ state_' = "RECEIVE_HEADER_0" /\ packet_index_' = 0
      BY <2>1, TimestampByte
    <2>3. HasBytes(due, 4)'
      BY <1>1, <2>2 DEF HasBytes
    <2> QED
      BY <1>1, <1>2, <1>5, <2>1, <2>2, <2>3 DEF Aligned, Placed
  <1>6. CASE bytes_sent = 1
    <2>1. /\ state_ = "RECEIVE_HEADER_0" /\ packet_index_ = 0
          /\ uart = <<PacketByte(packet, 0)>>
      BY <1>1, <1>6 DEF Placed, LastByteIn
    <2>2. Head(uart) = HEADER_0
      BY <2>1 DEF PacketByte
    <2>3. state_' = "RECEIVE_HEADER_1" /\ packet_index_' = 0 /\ ~new_timestamp_'
      BY <1>1, <2>1, <2>2 DEF ReceiveByte, NextSyncState
    <2> QED
      BY <1>1, <1>2, <1>6, <2>3 DEF Aligned, Placed
  <1>7. CASE bytes_sent = 2
    <2>1. /\ state_ = "RECEIVE_HEADER_1" /\ packet_index_ = 0
          /\ uart = <<PacketByte(packet, 1)>>
      BY <1>1, <1>7 DEF Placed, LastByteIn
    <2>2. Head(uart) = HEADER_1
      BY <2>1 DEF PacketByte
    <2>3. state_' = "RECEIVE_TIMESTAMP" /\ packet_index_' = 0 /\ ~new_timestamp_'
      BY <1>1, <2>1, <2>2 DEF ReceiveByte, NextSyncState
    <2> QED
      BY <1>1, <1>2, <1>7, <2>3 DEF Aligned, Placed, HasBytes
  <1>8. CASE bytes_sent \in 3 .. 6
    <2>1. PICK n \in 0 .. 3 : bytes_sent = n + 3
      <3>1. bytes_sent - 3 \in 0 .. 3 /\ bytes_sent = (bytes_sent - 3) + 3
        BY <1>8
      <3> QED
        BY <3>1
    <2>2. /\ bytes_sent - 1 = n + 2 /\ Got = n + 2 /\ Got - 2 = n /\ Got \in 2 .. 5
          /\ bytes_sent # 0 /\ Got' = n + 3 /\ Got' - 2 = n + 1
      BY <1>1, <2>1
    <2>3. /\ state_ = "RECEIVE_TIMESTAMP" /\ packet_index_ = n /\ HasBytes(packet, n)
          /\ uart = <<PacketByte(packet, n + 2)>>
      BY <1>1, <2>2 DEF Placed, LastByteIn
    <2>4. /\ \A i \in 0 .. n : sync_data_'[i] = PacketByte(packet, i + 2)
          /\ n = 3 => state_' = "RECEIVE_HEADER_0" /\ packet_index_' = 0
          /\ n # 3 => /\ state_' = "RECEIVE_TIMESTAMP" /\ packet_index_' = n + 1
                      /\ ~new_timestamp_'
      BY <2>3, TimestampByte
    <2>5. CASE n = 3
      <3>1. Got' = 6 /\ bytes_sent = 6 /\ due' = packet' /\ due' \in Seconds
        BY <1>1, <1>3, <1>4, <2>1, <2>5
      <3>2. HasBytes(due, 4)'
        BY <1>1, <1>3, <2>4, <2>5, <3>1 DEF HasBytes
      <3> QED
        BY <1>1, <1>2, <2>4, <2>5, <3>1, <3>2 DEF Aligned, Placed
    <2>6. CASE n # 3
      <3>1. Got' \in 3 .. 5 /\ bytes_sent' # 6
        BY <1>1, <2>1, <2>2, <2>6
      <3>2. HasBytes(packet, Got - 2)'
        <4> SUFFICES ASSUME NEW i \in 0 .. Got' - 2 - 1
                     PROVE  sync_data_'[i] = PacketByte(packet', i + 2)
          BY DEF HasBytes
        <4> QED
          BY <1>1, <2>2, <2>4
      <3> QED
        BY <1>2, <2>2, <2>4, <2>6, <3>1, <3>2 DEF Aligned, Placed
    <2> QED
      BY <2>5, <2>6
  <1> QED
    BY <1>1, <1>5, <1>6, <1>7, <1>8

LEMMA PlacedArrives ==
  ASSUME TypeOK, Placed, ByteArrives, lost' = lost
  PROVE  Placed'
  <1>1. /\ uart = <<>> /\ uart' = <<PacketByte(packet, bytes_sent)>>
        /\ bytes_sent \in 0 .. 5 /\ bytes_sent' = bytes_sent + 1
        /\ Got = bytes_sent /\ Got' = bytes_sent
        /\ due' = IF bytes_sent = 5 THEN packet ELSE due
        /\ UNCHANGED <<packet, state_, packet_index_, sync_data_, new_timestamp_>>
        /\ bytes_sent' - 1 = bytes_sent
    BY LineGoesOn
  <1>2. LastByteIn'
    BY <1>1 DEF LastByteIn
  <1>3. bytes_sent' = 6 => due' = packet'
    BY <1>1
  <1> QED
    BY <1>1, <1>2, <1>3 DEF Placed, HasBytes

LEMMA AlignedPreserved ==
  ASSUME TypeOK, Aligned, [Next]_vars, lost' = lost
  PROVE  Aligned'
  <1>1. ASSUME NEW s \in Seconds, PacketBegins(s)
        PROVE  Aligned'
    <2>1. /\ bytes_sent = 6 /\ bytes_sent' = 0 /\ packet' = s
          /\ UNCHANGED <<uart, due, state_, packet_index_, sync_data_, new_timestamp_>>
          /\ uart = <<>> => Got = 6 /\ Got' = 0
          /\ uart # <<>> => Got = 5 /\ Got' = -1
      BY <1>1, LineBegins
    <2>2. LastByteIn' /\ packet \in Seconds
      BY <2>1 DEF LastByteIn, TypeOK
    <2>3. CASE uart = <<>>
      BY <2>1, <2>2, <2>3 DEF Aligned, Placed, HasBytes
    <2>4. CASE uart # <<>>
      <3>1. /\ ~new_timestamp_ /\ state_ = "RECEIVE_TIMESTAMP" /\ packet_index_ = 3
            /\ HasBytes(packet, 3) /\ due = packet /\ uart = <<PacketByte(packet, 5)>>
        BY <2>1, <2>4 DEF Aligned, Placed, LastByteIn
      <3> QED
        BY <2>1, <2>2, <2>4, <3>1 DEF Aligned, Placed, HasBytes
    <2> QED
      BY <2>3, <2>4
  <1>2. CASE ByteArrives
    <2>1. Placed'
      BY <1>2, PlacedArrives DEF Aligned
    <2>2. /\ uart = <<>> /\ bytes_sent \in 0 .. 5
          /\ Got = bytes_sent /\ Got' = bytes_sent
          /\ due' = IF bytes_sent = 5 THEN packet ELSE due
          /\ UNCHANGED <<sync_data_, new_timestamp_>>
      BY <1>2, LineGoesOn
    <2> QED
      BY <2>1, <2>2 DEF Aligned, HasBytes
  <1>3. CASE ReceiveByte
    BY <1>3, PlacedReceives DEF Aligned
  <1>4. CASE ApplyTimestamp
    <2>1. /\ ~new_timestamp_' /\ Got' = Got /\ Got \in {0, 6}
          /\ UNCHANGED <<packet, bytes_sent, uart, state_, packet_index_, sync_data_>>
      BY <1>4 DEF ApplyTimestamp, Aligned, Got, line
    <2>2. bytes_sent = 6 => uart = <<>>
      BY <2>1, UartLength
    <2> QED
      BY <2>1, <2>2 DEF Aligned, Placed, HasBytes, LastByteIn
  <1>5. CASE UNCHANGED vars
    BY <1>5 DEF vars, line, Aligned, Placed, LastByteIn, Got, HasBytes
  <1> QED
    BY <1>1, <1>2, <1>3, <1>4, <1>5 DEF Next

\* Where the decoder is placed right, what is due stays to be applied, and is before
\* the next packet is in.
LEMMA PendingPreserved ==
  ASSUME TypeOK, Aligned, Pending, [Next]_vars, lost' = lost
  PROVE  /\ Pending'
         /\ ByteArrives /\ bytes_sent = 5 => due = Nothing
  <1>1. ASSUME NEW s \in Seconds, PacketBegins(s)
        PROVE  Pending' /\ ~ByteArrives
    BY <1>1 DEF PacketBegins, ByteArrives, Pending
  <1>2. ASSUME ByteArrives
        PROVE  Pending' /\ (bytes_sent = 5 => due = Nothing)
    <2>1. /\ uart = <<>> /\ bytes_sent \in 0 .. 5 /\ bytes_sent' = bytes_sent + 1
          /\ Got = bytes_sent /\ uart' # <<>>
          /\ due' = IF bytes_sent = 5 THEN packet ELSE due
          /\ new_timestamp_' = new_timestamp_
      BY <1>2, LineGoesOn
    <2>2. bytes_sent = 5 => due = Nothing
      BY <2>1 DEF Aligned, Pending
    <2> QED
      BY <2>1, <2>2 DEF Pending
  <1>3. ASSUME ReceiveByte
        PROVE  Pending' /\ ~ByteArrives
    <2>1. /\ uart # <<>> /\ uart' = <<>> /\ bytes_sent' = bytes_sent /\ due' = due
          /\ Got = bytes_sent - 1 /\ ~new_timestamp_
      BY <1>3, LineTaken
    <2>2. ASSUME bytes_sent \in {0, 6}
          PROVE  new_timestamp_'
      <3>1. state_ = "RECEIVE_TIMESTAMP" /\ packet_index_ = 3
        BY <2>1, <2>2 DEF Aligned, Placed
      <3> QED
        BY <1>3, <3>1 DEF ReceiveByte
    <2> QED
      BY <1>3, <2>1, <2>2 DEF Pending, ByteArrives, ReceiveByte, line
  <1>4. ASSUME ApplyTimestamp
        PROVE  Pending' /\ (ByteArrives => bytes_sent # 5)
    BY <1>4 DEF ApplyTimestamp, Pending, ByteArrives, line, TypeOK
  <1>5. ASSUME UNCHANGED vars
        PROVE  Pending' /\ (ByteArrives => bytes_sent # 5)
    BY <1>5 DEF vars, line, Pending, ByteArrives, TypeOK
  <1> QED
    BY <1>1, <1>2, <1>3, <1>4, <1>5 DEF Next

\* A decoder that stands where the line does applies what the packet says.
LEMMA AppliesPacket ==
  ASSUME TypeOK, Aligned, ApplyTimestamp
  PROVE  AppliesDue
  <1>1. due \in Seconds /\ due \in Time32 /\ due # Nothing /\ HasBytes(due, 4)
    BY SyncAssumption DEF ApplyTimestamp, Aligned
  <1>2. Uint32(sync_data_) = due
    BY <1>1, DecodesPacket DEF HasBytes
  <1> QED
    BY <1>1, <1>2, TimeAnnounced DEF ApplyTimestamp, AppliesDue

-----------------------------------------------------------------------------
(* A handler that loses no byte.                                           *)

LEMMA NoneLost ==
  ASSUME MaxLost = 0
  PROVE  TypeOK /\ [Next]_vars => lost' = lost
  <1> QED
    BY TypesPreserved, SyncAssumption DEF TypeOK

LEMMA StepFollowsClock ==
  ASSUME TypeOK, Aligned, Pending, [Next]_vars, lost' = lost
  PROVE  [Clock!Next]_<<due, harp_set>>
  <1>1. ASSUME NEW s \in Seconds, PacketBegins(s)
        PROVE  UNCHANGED <<due, harp_set>>
    BY <1>1 DEF PacketBegins
  <1>2. CASE ByteArrives
    <2>1. CASE bytes_sent = 5
      <3>1. due = Nothing /\ due' = packet /\ harp_set' = harp_set /\ packet \in Seconds
        BY <1>2, <2>1, PendingPreserved DEF ByteArrives, TypeOK
      <3> QED
        BY <3>1 DEF Clock!Next, Clock!PacketEnds
    <2>2. CASE bytes_sent # 5
      BY <1>2, <2>2 DEF ByteArrives
    <2> QED
      BY <2>1, <2>2
  <1>3. CASE ReceiveByte
    BY <1>3 DEF ReceiveByte
  <1>4. CASE ApplyTimestamp
    <2>1. due # Nothing /\ harp_set' = Announced(due) /\ due' = Nothing
      BY <1>4, AppliesPacket DEF AppliesDue, ApplyTimestamp
    <2> QED
      BY <2>1 DEF Clock!Next, Clock!Apply
  <1>5. CASE UNCHANGED vars
    BY <1>5 DEF vars
  <1> QED
    BY <1>1, <1>2, <1>3, <1>4, <1>5 DEF Next

\* On a line plugged in between packets, with a handler that loses no byte, the
\* Harp time is set by each packet in turn, to the time it announces, and by
\* nothing else, also where the next packet begins before it is.
THEOREM TimelyFollowsClock ==
  ASSUME MaxLost = 0, ~JoinsMidPacket
  PROVE  Spec => FollowsClock
  <1>1. Init => Aligned /\ Pending
    <2> SUFFICES ASSUME Init PROVE Aligned /\ Pending
      OBVIOUS
    <2>1. Got = 6
      BY DEF Init, Got
    <2> QED
      BY <2>1 DEF Init, Aligned, Placed, LastByteIn, Pending
  <1>2. Init => Clock!Init
    BY DEF Init, Clock!Init
  <1>3. TypeOK /\ Aligned /\ Pending /\ [Next]_vars => (Aligned /\ Pending)'
    BY NoneLost, AlignedPreserved, PendingPreserved
  <1>4. TypeOK /\ Aligned /\ Pending /\ [Next]_vars => [Clock!Next]_<<due, harp_set>>
    BY NoneLost, StepFollowsClock
  <1> QED
    BY <1>1, <1>2, <1>3, <1>4, TypeCorrect, PTL DEF Spec, FollowsClock, Clock!Spec

-----------------------------------------------------------------------------
(* A handler that loses bytes.                                             *)

AtRest == state_ # "RECEIVE_TIMESTAMP" => packet_index_ = 0

\* During the first packet after a loss: the decoder is placed right, though a
\* timestamp it took before may be left to apply ...
Joining ==
  /\ Placed /\ Got # -1
  /\ new_timestamp_ => Got = 0 \/ (Got = 6 /\ due \in Seconds /\ HasBytes(due, 4))
  /\ bytes_sent = 6 => Pending

\* ... or it is not, and no byte of this packet will look to it like a header: what
\* it takes for a timestamp ends before the packet does.
Astray ==
  /\ LastByteIn /\ Clean(packet)
  /\ new_timestamp_ => Got <= 4
  /\ \/ state_ = "RECEIVE_HEADER_0" /\ Got # 0
     \/ state_ = "RECEIVE_HEADER_1" /\ Got <= 0
     \/ state_ = "RECEIVE_TIMESTAMP" /\ Got <= packet_index_

\* Then the last byte of that packet may be left to take, and is passed over.
LeftOver ==
  /\ bytes_sent = 0 /\ \E b \in Byte \ {HEADER_0} : uart = <<b>>
  /\ state_ = "RECEIVE_HEADER_0" /\ ~new_timestamp_

RecoverInv ==
  /\ AtRest
  /\ clean = 1 => Joining \/ Astray
  /\ clean = 2 => Aligned \/ LeftOver
  /\ (clean = 2 /\ bytes_sent = 6) \/ clean = 3 => Aligned /\ Pending

LEMMA AtRestPreserved == TypeOK /\ AtRest /\ [Next]_vars => AtRest'
  <1> SUFFICES ASSUME TypeOK, AtRest, [Next]_vars PROVE AtRest'
    OBVIOUS
  <1>1. ASSUME NEW s \in Seconds, PacketBegins(s)
        PROVE  AtRest'
    BY <1>1 DEF PacketBegins, AtRest
  <1>2. CASE ByteArrives
    BY <1>2 DEF ByteArrives, AtRest
  <1>3. CASE ReceiveByte
    BY <1>3 DEF ReceiveByte, NextSyncState, NextIndex, AtRest, TypeOK
  <1>4. CASE ApplyTimestamp
    BY <1>4 DEF ApplyTimestamp, AtRest
  <1>5. CASE UNCHANGED vars
    BY <1>5 DEF vars, AtRest
  <1> QED
    BY <1>1, <1>2, <1>3, <1>4, <1>5 DEF Next

\* A byte is lost, or the handler keeps up.
LEMMA LostOrNot ==
  ASSUME TypeOK, [Next]_vars
  PROVE  \/ lost' = lost /\ (clean' = clean \/ \E s \in Seconds : PacketBegins(s))
         \/ ByteArrives /\ uart # <<>> /\ clean' = 0
  <1> QED
    BY DEF Next, PacketBegins, ByteArrives, ReceiveByte, ApplyTimestamp, vars, line

\* The first packet after a loss begins.
LEMMA JoinBegins ==
  ASSUME TypeOK, AtRest, NEW s \in Seconds, PacketBegins(s), Clean(s)
  PROVE  Joining' \/ Astray'
  <1>1. /\ bytes_sent = 6 /\ bytes_sent' = 0 /\ packet' = s
        /\ UNCHANGED <<uart, state_, packet_index_, new_timestamp_>>
        /\ Got' = 0 \/ Got' = -1
        /\ state_ \in SyncState /\ packet_index_ \in 0 .. 3
    BY LineBegins DEF TypeOK
  <1>2. LastByteIn' /\ Clean(packet)'
    BY <1>1 DEF LastByteIn, Clean, PacketByte
  <1>3. CASE Got' = 0 /\ state_ = "RECEIVE_HEADER_0"
    BY <1>1, <1>2, <1>3 DEF AtRest, Joining, Placed
  <1>4. CASE ~(Got' = 0 /\ state_ = "RECEIVE_HEADER_0")
    BY <1>1, <1>2, <1>4 DEF Astray, SyncState
  <1> QED
    BY <1>3, <1>4

LEMMA JoiningPreserved ==
  ASSUME TypeOK, Joining, ByteArrives \/ ReceiveByte \/ ApplyTimestamp, lost' = lost
  PROVE  Joining'
  <1>1. CASE ByteArrives
    <2>1. /\ uart = <<>> /\ uart' # <<>> /\ bytes_sent \in 0 .. 5
          /\ Got = bytes_sent /\ Got' = bytes_sent
          /\ UNCHANGED new_timestamp_
      BY <1>1, LineGoesOn
    <2>2. Placed'
      BY <1>1, PlacedArrives DEF Joining
    <2>3. Got # 6 /\ Got' # -1
      BY <2>1
    <2> QED
      BY <2>1, <2>2, <2>3 DEF Joining, Pending
  <1>2. CASE ReceiveByte
    <2>1. Aligned' /\ Got' = bytes_sent /\ Got = bytes_sent - 1 /\ bytes_sent \in 0 .. 6
          /\ bytes_sent' = bytes_sent /\ ~new_timestamp_
      BY <1>2, PlacedReceives, LineTaken DEF Joining
    <2>2. Got' # -1
      BY <2>1
    <2>3. ASSUME bytes_sent' = 6
          PROVE  Pending'
      <3>1. Aligned /\ Pending
        BY <2>1, <2>3 DEF Joining, Aligned
      <3> QED
        BY <1>2, <3>1, PendingPreserved DEF Next
    <2> QED
      BY <2>1, <2>2, <2>3 DEF Joining, Aligned
  <1>3. CASE ApplyTimestamp
    <2>1. /\ new_timestamp_ /\ ~new_timestamp_' /\ due' = Nothing /\ Got' = Got
          /\ UNCHANGED <<packet, bytes_sent, uart, state_, packet_index_, sync_data_>>
      BY <1>3 DEF ApplyTimestamp, Got, line
    <2>2. bytes_sent = 6 => uart = <<>>
      BY <2>1, UartLength DEF Joining
    <2>3. Got' \in {0, 6}
      BY <2>1 DEF Joining
    <2> QED
      BY <2>1, <2>2, <2>3 DEF Joining, Placed, HasBytes, LastByteIn, Pending
  <1> QED
    BY <1>1, <1>2, <1>3

\* The header's first byte ends a header that was taken to have begun, and no other
\* byte of the packet begins one.
LEMMA AstrayReceives ==
  ASSUME TypeOK, AtRest, Astray, ReceiveByte
  PROVE  Joining' \/ Astray'
  <1>1. /\ uart # <<>> /\ uart' = <<>> /\ ~new_timestamp_
        /\ Got = bytes_sent - 1 /\ Got' = bytes_sent /\ bytes_sent \in 0 .. 6
        /\ state_' = NextSyncState(Head(uart))
        /\ UNCHANGED <<packet, bytes_sent, due>>
        /\ \A b : uart = <<b>> => Head(uart) = b
    BY LineTaken
  <1>2. LastByteIn' /\ Clean(packet)'
    BY <1>1 DEF LastByteIn, Clean, PacketByte, Astray
  <1>3. packet_index_ \in 0 .. 3 /\ HEADER_0 # HEADER_1
    BY SyncAssumption DEF TypeOK
  <1>4. CASE state_ = "RECEIVE_HEADER_0" \/ state_ = "RECEIVE_HEADER_1"
    <2>1. packet_index_' = 0 /\ packet_index_ = 0 /\ ~new_timestamp_'
      BY <1>1, <1>4 DEF ReceiveByte, AtRest
    <2>2. CASE bytes_sent = 0
      <3>1. state_' \in SyncState /\ Got' = 0
        BY <1>1, <1>4, <2>2 DEF NextSyncState, SyncState
      <3>2. CASE state_' = "RECEIVE_HEADER_0"
        BY <1>1, <1>2, <2>1, <2>2, <3>1, <3>2 DEF Joining, Placed
      <3>3. CASE state_' # "RECEIVE_HEADER_0"
        BY <1>1, <1>2, <2>1, <2>2, <3>1, <3>3 DEF Astray, SyncState
      <3> QED
        BY <3>2, <3>3
    <2>3. CASE bytes_sent # 0
      <3>1. Head(uart) = PacketByte(packet, bytes_sent - 1)
        BY <1>1, <2>3 DEF Astray, LastByteIn
      <3>2. CASE state_ = "RECEIVE_HEADER_0"
        <4>1. bytes_sent - 1 \in 1 .. 5
          BY <1>1, <2>3, <3>2 DEF Astray
        <4>2. Head(uart) # HEADER_0
          <5>1. CASE bytes_sent - 1 = 1
            BY <1>3, <3>1, <5>1 DEF PacketByte
          <5>2. CASE bytes_sent - 1 # 1
            <6>1. bytes_sent - 1 \in 2 .. 5
              BY <4>1, <5>2
            <6> QED
              BY <3>1, <6>1 DEF Astray, Clean
          <5> QED
            BY <5>1, <5>2
        <4>3. state_' = "RECEIVE_HEADER_0" /\ Got' # 0
          BY <1>1, <2>3, <3>2, <4>2 DEF NextSyncState
        <4> QED
          BY <1>2, <2>1, <4>3 DEF Astray
      <3>3. CASE state_ = "RECEIVE_HEADER_1"
        <4>1. bytes_sent - 1 = 0
          BY <1>1, <2>3, <3>3 DEF Astray
        <4>2. Head(uart) # HEADER_1
          BY <1>3, <3>1, <4>1 DEF PacketByte
        <4>3. state_' = "RECEIVE_HEADER_0" /\ Got' # 0
          BY <1>1, <2>3, <3>3, <4>2 DEF NextSyncState
        <4> QED
          BY <1>2, <2>1, <4>3 DEF Astray
      <3> QED
        BY <1>4, <3>2, <3>3
    <2> QED
      BY <2>2, <2>3
  <1>5. CASE state_ = "RECEIVE_TIMESTAMP"
    <2>1. Got <= packet_index_ /\ Got' = Got + 1
      BY <1>1, <1>5 DEF Astray
    <2>2. CASE packet_index_ = 3
      <3>1. state_' = "RECEIVE_HEADER_0" /\ packet_index_' = 0 /\ Got' <= 4
        BY <1>1, <1>5, <2>1, <2>2 DEF ReceiveByte, NextSyncState, NextIndex
      <3>2. CASE Got' = 0
        BY <1>1, <1>2, <3>1, <3>2 DEF Joining, Placed
      <3>3. CASE Got' # 0
        BY <1>2, <3>1, <3>3 DEF Astray
      <3> QED
        BY <3>2, <3>3
    <2>3. CASE packet_index_ # 3
      <3>1. /\ state_' = "RECEIVE_TIMESTAMP" /\ packet_index_' = packet_index_ + 1
            /\ ~new_timestamp_'
        BY <1>1, <1>5, <2>3 DEF ReceiveByte, NextSyncState, NextIndex
      <3>2. Got' <= packet_index_'
        BY <1>1, <1>3, <2>1, <3>1
      <3> QED
        BY <1>2, <3>1, <3>2 DEF Astray
    <2> QED
      BY <2>2, <2>3
  <1> QED
    BY <1>4, <1>5 DEF Astray

LEMMA AstrayPreserved ==
  ASSUME TypeOK, AtRest, Astray, ByteArrives \/ ReceiveByte \/ ApplyTimestamp,
         lost' = lost
  PROVE  Joining' \/ Astray'
  <1>1. CASE ByteArrives
    <2>1. /\ Got' = Got /\ bytes_sent' - 1 = bytes_sent
          /\ uart' = <<PacketByte(packet, bytes_sent)>>
          /\ UNCHANGED <<packet, state_, packet_index_, new_timestamp_>>
      BY <1>1, LineGoesOn
    <2>2. LastByteIn' /\ Clean(packet)'
      BY <2>1 DEF LastByteIn, Clean, PacketByte, Astray
    <2> QED
      BY <2>1, <2>2 DEF Astray
  <1>2. CASE ReceiveByte
    BY <1>2, AstrayReceives
  <1>3. CASE ApplyTimestamp
    <2>1. /\ ~new_timestamp_' /\ Got' = Got
          /\ UNCHANGED <<packet, bytes_sent, uart, state_, packet_index_>>
      BY <1>3 DEF ApplyTimestamp, Got, line
    <2>2. LastByteIn' /\ Clean(packet)'
      BY <2>1 DEF LastByteIn, Clean, PacketByte, Astray
    <2> QED
      BY <2>1, <2>2 DEF Astray
  <1> QED
    BY <1>1, <1>2, <1>3

\* At the end of that packet the decoder waits for a header, but for one byte.
LEMMA JoinedBegins ==
  ASSUME TypeOK, AtRest, Joining \/ Astray, NEW s \in Seconds, PacketBegins(s)
  PROVE  Aligned' \/ LeftOver'
  <1>1. /\ bytes_sent = 6 /\ bytes_sent' = 0 /\ packet' = s
        /\ UNCHANGED <<uart, due, state_, packet_index_, new_timestamp_>>
        /\ uart = <<>> => Got = 6 /\ Got' = 0
        /\ uart # <<>> => Got = 5 /\ Got' = -1
    BY LineBegins
  <1>2. CASE Joining
    <2>1. Aligned
      BY <1>1, <1>2 DEF Joining, Aligned
    <2>2. lost' = lost
      BY DEF PacketBegins
    <2> QED
      BY <2>1, <2>2, AlignedPreserved DEF Next
  <1>3. CASE Astray
    <2>1. Got \in {5, 6}
      BY <1>1
    <2>2. state_ = "RECEIVE_HEADER_0" /\ packet_index_ = 0 /\ ~new_timestamp_
      BY <1>3, <2>1 DEF Astray, AtRest, TypeOK
    <2>3. CASE uart = <<>>
      <3>1. LastByteIn'
        BY <1>1 DEF LastByteIn
      <3> QED
        BY <1>1, <2>2, <2>3, <3>1 DEF Aligned, Placed
    <2>4. CASE uart # <<>>
      <3>1. uart = <<PacketByte(packet, 5)>>
        BY <1>1, <1>3, <2>4, 6 - 1 = 5 DEF Astray, LastByteIn
      <3>2. PacketByte(packet, 5) \in Byte \ {HEADER_0}
        <4>1. packet \in Int
          BY SyncAssumption DEF TypeOK, Time32
        <4> QED
          BY <1>3, <4>1, PacketByteType DEF Astray, Clean
      <3> QED
        BY <1>1, <2>2, <3>1, <3>2 DEF LeftOver
    <2> QED
      BY <2>3, <2>4
  <1> QED
    BY <1>2, <1>3

LEMMA LeftOverPreserved ==
  ASSUME TypeOK, AtRest, LeftOver, ByteArrives \/ ReceiveByte \/ ApplyTimestamp,
         lost' = lost
  PROVE  Aligned' /\ bytes_sent' # 6
  <1>1. ReceiveByte
    <2>1. uart # <<>> /\ ~new_timestamp_
      BY DEF LeftOver
    <2> QED
      BY <2>1, LineGoesOn DEF ApplyTimestamp
  <1>2. /\ uart' = <<>> /\ Got' = bytes_sent /\ state_' = NextSyncState(Head(uart))
        /\ bytes_sent' = bytes_sent /\ bytes_sent = 0
        /\ \A b : uart = <<b>> => Head(uart) = b
    BY <1>1, LineTaken DEF LeftOver
  <1>3. /\ state_ = "RECEIVE_HEADER_0" /\ ~new_timestamp_ /\ Head(uart) # HEADER_0
    BY <1>2 DEF LeftOver
  <1>4. state_' = "RECEIVE_HEADER_0" /\ packet_index_' = 0 /\ ~new_timestamp_'
    BY <1>1, <1>2, <1>3 DEF ReceiveByte, NextSyncState, AtRest
  <1> QED
    BY <1>2, <1>4 DEF Aligned, Placed, LastByteIn

LEMMA RecoverPreserved == TypeOK /\ RecoverInv /\ [Next]_vars => RecoverInv'
  <1> SUFFICES ASSUME TypeOK, RecoverInv, [Next]_vars PROVE RecoverInv'
    OBVIOUS
  <1>1. AtRest /\ AtRest'
    BY AtRestPreserved DEF RecoverInv
  <1>2. CASE ByteArrives /\ clean' = 0
    BY <1>1, <1>2 DEF RecoverInv
  <1>3. CASE UNCHANGED vars
    <2>1. /\ UNCHANGED <<packet, bytes_sent, clean, uart, due, state_, packet_index_,
                         sync_data_, new_timestamp_>>
          /\ (Clean(packet))' = Clean(packet)
      BY <1>3 DEF vars, line, Clean, PacketByte
    <2>2. LastByteIn' = LastByteIn /\ Pending' = Pending /\ Got' = Got
      BY <2>1 DEF LastByteIn, Pending, Got
    <2>3. Placed' = Placed /\ Aligned' = Aligned
      BY <2>1, <2>2 DEF Placed, Aligned, HasBytes
    <2>4. Joining' = Joining /\ Astray' = Astray /\ LeftOver' = LeftOver
      BY <2>1, <2>2, <2>3 DEF Joining, Astray, LeftOver, HasBytes
    <2> QED
      BY <1>1, <2>1, <2>2, <2>3, <2>4 DEF RecoverInv
  <1>4. ASSUME NEW s \in Seconds, PacketBegins(s), lost' = lost
        PROVE  RecoverInv'
    <2>1. /\ bytes_sent = 6 /\ bytes_sent' = 0
          /\ clean' = CASE clean = 0 -> IF Clean(s) THEN 1 ELSE 0
                        [] clean = 1 -> 2
                        [] OTHER     -> 3
          /\ clean \in 0 .. 3
      BY <1>4 DEF PacketBegins, TypeOK
    <2>2. CASE clean = 0
      BY <1>1, <1>4, <2>1, <2>2, JoinBegins DEF RecoverInv
    <2>3. CASE clean = 1
      <3>1. Aligned' \/ LeftOver'
        BY <1>1, <1>4, <2>3, JoinedBegins DEF RecoverInv
      <3> QED
        BY <1>1, <2>1, <2>3, <3>1 DEF RecoverInv
    <2>4. CASE clean \in {2, 3}
      <3>1. Aligned /\ Pending
        BY <2>1, <2>4 DEF RecoverInv
      <3>2. Aligned' /\ Pending'
        BY <1>4, <3>1, AlignedPreserved, PendingPreserved
      <3> QED
        BY <1>1, <2>1, <2>4, <3>2 DEF RecoverInv
    <2> QED
      BY <2>1, <2>2, <2>3, <2>4
  <1>5. ASSUME ByteArrives \/ ReceiveByte \/ ApplyTimestamp, lost' = lost, clean' = clean
        PROVE  RecoverInv'
    <2>1. CASE clean \in {0, 1}
      BY <1>1, <1>5, <2>1, JoiningPreserved, AstrayPreserved DEF RecoverInv
    <2>2. CASE clean = 2 /\ bytes_sent # 6
      <3>1. CASE Aligned
        <4>1. Aligned'
          BY <3>1, <1>5, AlignedPreserved
        <4>2. bytes_sent' = 6 => Pending'
          BY <1>5, <2>2, LineGoesOn DEF ReceiveByte, ApplyTimestamp, line, Pending
        <4> QED
          BY <1>1, <1>5, <2>2, <4>1, <4>2 DEF RecoverInv
      <3>2. CASE LeftOver
        BY <1>1, <1>5, <2>2, <3>2, LeftOverPreserved DEF RecoverInv
      <3> QED
        BY <2>2, <3>1, <3>2 DEF RecoverInv
    <2>3. CASE clean = 3 \/ (clean = 2 /\ bytes_sent = 6)
      <3>1. Aligned' /\ Pending'
        BY <1>5, <2>3, AlignedPreserved, PendingPreserved DEF RecoverInv
      <3> QED
        BY <1>1, <1>5, <2>3, <3>1 DEF RecoverInv
    <2> QED
      BY <2>1, <2>2, <2>3 DEF TypeOK
  <1> QED
    BY <1>2, <1>3, <1>4, <1>5, LostOrNot DEF Next

\* Wherever the line was plugged in and whatever bytes were lost: from the second
\* packet on that follows a loss, the first of them with no byte in its timestamp
\* that looks like a header, what is applied is the time announced by the packet
\* that came in last, and from the third on each is applied before the next is in.
THEOREM RecoversInTimeCorrect == Spec => RecoversInTime
  <1>1. Init => RecoverInv
    BY DEF Init, RecoverInv, AtRest
  <1>2. TypeOK /\ RecoverInv /\ [Next]_vars =>
          [/\ clean >= 2 => AppliesDue
           /\ clean = 3 /\ ByteArrives /\ bytes_sent = 5 => due = Nothing]_vars
    <2> SUFFICES ASSUME TypeOK, RecoverInv, [Next]_vars
                 PROVE  /\ clean >= 2 => AppliesDue
                        /\ clean = 3 /\ ByteArrives /\ bytes_sent = 5 => due = Nothing
      OBVIOUS
    <2>1. ASSUME clean >= 2
          PROVE  AppliesDue
      <3> SUFFICES ASSUME ApplyTimestamp
                   PROVE  AppliesDue
        BY DEF AppliesDue
      <3>1. clean \in {2, 3}
        BY <2>1 DEF TypeOK
      <3>2. Aligned
        BY <3>1 DEF RecoverInv, LeftOver, ApplyTimestamp
      <3> QED
        BY <3>2, AppliesPacket
    <2>2. ASSUME clean = 3, ByteArrives, bytes_sent = 5
          PROVE  due = Nothing
      <3>1. Aligned /\ Pending
        BY <2>2 DEF RecoverInv
      <3>2. CASE lost' = lost
        BY <2>2, <3>1, <3>2, PendingPreserved
      <3>3. CASE lost' # lost
        <4>1. uart # <<>>
          BY <2>2, <3>3 DEF ByteArrives
        <4>2. Got = 4
          BY <2>2, <4>1, UartLength
        <4> QED
          BY <2>2, <3>1, <4>2 DEF Aligned, Pending
      <3> QED
        BY <3>2, <3>3
    <2> QED
      BY <2>1, <2>2
  <1>3. TypeOK /\ RecoverInv /\ [Next]_vars => RecoverInv'
    BY RecoverPreserved
  <1> QED
    BY <1>1, <1>2, <1>3, TypeCorrect, PTL DEF Spec, RecoversInTime
=============================================================================
