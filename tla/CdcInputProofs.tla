--------------------------- MODULE CdcInputProofs ---------------------------
(***************************************************************************)
(* Theorems about the serial receiver, for every header and buffer size.   *)
(***************************************************************************)
EXTENDS CdcInput, SequenceTheorems, TLAPS

LEMMA Sizes ==
  /\ ByteRange \in Nat /\ HeaderSize \in Nat /\ BufSize \in Nat
  /\ HeaderSize > 1 /\ HeaderSize < BufSize /\ ByteRange = BufSize + 1
  BY CdcAssumption DEF BufSize

\* A size read from a buffer is a uint8_t, so at most what the buffer holds.
LEMMA MsgSizeFits ==
  ASSUME NEW buffer \in [0 .. BufSize - 1 -> Byte]
  PROVE  MsgSize(buffer) \in 0 .. BufSize
  <1>1. buffer[1] \in Byte
    BY Sizes
  <1>2. buffer[1] + 2 \in Int /\ ByteRange \in Nat \ {0}
    BY <1>1, Sizes DEF Byte
  <1>3. ((buffer[1] + 2) % ByteRange) \in 0 .. ByteRange - 1
    BY <1>2
  <1> QED
    BY <1>3, Sizes DEF MsgSize

\* Between two messages the index is 0; within one there is room and need for
\* more.  Together with the types this is inductive.
Inv == /\ TypeOK
       /\ ReadsFit
       /\ new_msg_ => rx_buffer_index_ = 0
       /\ replied => new_msg_

LEMMA InitInv == Init => Inv
  <1> SUFFICES ASSUME Init PROVE Inv
    OBVIOUS
  <1>1. 0 \in Byte /\ ~(0 >= HeaderSize) /\ BufSize - 0 \in 1 .. BufSize - 0
    BY Sizes DEF Byte
  <1>2. <<>> \in Seq(Byte) /\ Len(<<>>) <= FifoSize /\ <<>> \in Seq(Messages)
        /\ <<>> \in Seq(Seq(Byte))
    BY CdcAssumption
  <1>3. 0 \in 0 .. MaxCuts
    BY CdcAssumption
  <1> QED
    BY <1>1, <1>2, <1>3 DEF Init, Inv, TypeOK, ReadsFit, MaxBytesToRead

\* What a read of n bytes leaves in the buffer are bytes.
LEMMA FilledType ==
  ASSUME TypeOK, NEW n \in Nat, n <= Len(fifo)
  PROVE  Filled(n) \in [0 .. BufSize - 1 -> Byte]
  <1> SUFFICES ASSUME NEW i \in 0 .. BufSize - 1
               PROVE  (IF i \in rx_buffer_index_ .. rx_buffer_index_ + n - 1
                       THEN fifo[i - rx_buffer_index_ + 1] ELSE rx_buffer_[i]) \in Byte
    BY DEF Filled
  <1>1. rx_buffer_index_ \in Nat /\ rx_buffer_[i] \in Byte
    <2>1. rx_buffer_index_ \in Byte /\ rx_buffer_[i] \in Byte
      BY DEF TypeOK
    <2> QED
      BY <2>1, Sizes DEF Byte
  <1>2. ASSUME i \in rx_buffer_index_ .. rx_buffer_index_ + n - 1
        PROVE  fifo[i - rx_buffer_index_ + 1] \in Byte
    <2>1. i - rx_buffer_index_ + 1 \in 1 .. Len(fifo)
      BY <1>1, <1>2, Sizes DEF TypeOK
    <2> QED
      BY <2>1 DEF TypeOK
  <1> QED
    BY <1>1, <1>2

\* The number of bytes tud_cdc_read() returns.
LEMMA BytesReadFits ==
  ASSUME Inv, ~new_msg_, fifo # <<>>
  PROVE  /\ BytesRead \in Nat \ {0} /\ BytesRead <= Len(fifo)
         /\ BytesRead <= MaxBytesToRead
         /\ rx_buffer_index_ + BytesRead <= BufSize
  <1>1. Len(fifo) \in Nat \ {0} /\ rx_buffer_index_ \in Nat
    BY DEF Inv, TypeOK, Byte
  <1>2. MaxBytesToRead \in 1 .. BufSize - rx_buffer_index_
    BY DEF Inv, ReadsFit
  <1> QED
    BY <1>1, <1>2, Sizes DEF BytesRead

LEMMA InvPreserved == Inv /\ [Next]_vars => Inv'
  <1> SUFFICES ASSUME Inv, [Next]_vars
               PROVE  Inv'
    OBVIOUS
  <1>1. ASSUME NEW m \in Messages, PcSends(m)
        PROVE  Inv'
    <2>1. wire' \in Seq(Byte) /\ sent' \in Seq(Messages)
      BY <1>1, MessagesAssumption DEF PcSends, Inv, TypeOK
    <2> QED
      BY <1>1, <2>1 DEF PcSends, Inv, TypeOK, ReadsFit, MaxBytesToRead
  <1>c. CASE PcCloses
    <2>1. cuts' \in 0 .. MaxCuts
      BY <1>c, CdcAssumption DEF PcCloses, Inv, TypeOK
    <2>2. wire' = <<>> /\ (fifo' = fifo \/ fifo' = <<>>)
      BY <1>c DEF PcCloses
    <2>3. <<>> \in Seq(Byte) /\ Len(<<>>) <= FifoSize
      BY CdcAssumption
    <2>4. wire' \in Seq(Byte) /\ fifo' \in Seq(Byte) /\ Len(fifo') <= FifoSize
      BY <2>2, <2>3 DEF Inv, TypeOK
    <2> QED
      BY <1>c, <2>1, <2>4 DEF PcCloses, Inv, TypeOK, ReadsFit, MaxBytesToRead
  <1>2. ASSUME NEW n \in 1 .. FifoSize, UsbDelivers(n)
        PROVE  Inv'
    <2>1. /\ SubSeq(wire, 1, n) \in Seq(Byte) /\ Len(SubSeq(wire, 1, n)) = n
          /\ SubSeq(wire, n + 1, Len(wire)) \in Seq(Byte)
      BY <1>2, CdcAssumption DEF UsbDelivers, Inv, TypeOK
    <2>2. fifo' \in Seq(Byte) /\ Len(fifo') = Len(fifo) + n /\ wire' \in Seq(Byte)
      BY <1>2, <2>1 DEF UsbDelivers, Inv, TypeOK
    <2> QED
      BY <1>2, <2>2 DEF UsbDelivers, pcs, Inv, TypeOK, ReadsFit, MaxBytesToRead
  <1>3. CASE process_cdc_input
    <2> DEFINE n     == BytesRead
               total == rx_buffer_index_ + n
    <2>1. /\ n \in Nat \ {0} /\ n <= Len(fifo) /\ total \in 0 .. BufSize
          /\ rx_buffer_index_ \in Nat
      BY <1>3, BytesReadFits DEF process_cdc_input, Inv, TypeOK, Byte
    <2>2. /\ rx_buffer_' = Filled(n)
          /\ new_msg_' = Complete(Filled(n), total)
          /\ rx_buffer_index_' = IF Complete(Filled(n), total) THEN 0 ELSE total
          /\ fifo' = SubSeq(fifo, n + 1, Len(fifo))
          /\ UNCHANGED <<wire, replied, sent, handled, cuts>>
          /\ ~new_msg_ /\ ~replied
      BY <1>3 DEF process_cdc_input, pcs, Inv
    <2> HIDE DEF n, total
    <2>3. rx_buffer_' \in [0 .. BufSize - 1 -> Byte]
      BY <2>1, <2>2, FilledType DEF Inv
    <2>4. fifo' \in Seq(Byte) /\ Len(fifo') <= FifoSize
      BY <2>1, <2>2, CdcAssumption DEF Inv, TypeOK
    <2>5. new_msg_' \in BOOLEAN /\ rx_buffer_index_' \in Byte
      BY <2>1, <2>2, Sizes DEF Complete, Byte
    <2>6. TypeOK'
      BY <2>2, <2>3, <2>4, <2>5 DEF Inv, TypeOK
    <2>7. ASSUME ~new_msg_'
          PROVE  MaxBytesToRead' \in 1 .. BufSize - rx_buffer_index_'
      <3>1. /\ rx_buffer_index_' = total /\ total \in 0 .. BufSize
            /\ total < HeaderSize \/ total < MsgSize(rx_buffer_')
        <4>1. MsgSize(rx_buffer_') \in 0 .. BufSize
          BY <2>3, MsgSizeFits
        <4>2. ~Complete(rx_buffer_', total) /\ rx_buffer_index_' = total
          BY <2>2, <2>7
        <4> QED
          BY <2>1, <4>1, <4>2, Sizes DEF Complete
      <3>2. MsgSize(rx_buffer_') \in 0 .. BufSize
        BY <2>3, MsgSizeFits
      <3>3. MaxBytesToRead' = IF total >= HeaderSize THEN MsgSize(rx_buffer_') - total
                                                     ELSE BufSize - total
        BY <3>1 DEF MaxBytesToRead, MsgSize
      <3> QED
        BY <3>1, <3>2, <3>3, Sizes
    <2> QED
      BY <2>2, <2>6, <2>7 DEF Inv, ReadsFit
  <1>r. CASE Reply
    BY <1>r DEF Reply, pcs, Inv, TypeOK, ReadsFit, MaxBytesToRead
  <1>4. CASE HandleMessage
    <2>1. handled' \in Seq(Seq(Byte))
      <3>1. BufferedMsg \in Seq(Byte)
        <4>1. MsgSize(rx_buffer_) \in 0 .. BufSize
          BY MsgSizeFits DEF Inv, TypeOK
        <4>2. ASSUME NEW i \in 1 .. MsgSize(rx_buffer_)
              PROVE  rx_buffer_[i - 1] \in Byte
          <5>1. i - 1 \in 0 .. BufSize - 1
            BY <4>1, Sizes
          <5> QED
            BY <5>1 DEF Inv, TypeOK
        <4>3. MsgSize(rx_buffer_) \in Nat
          BY <4>1
        <4> QED
          BY <4>2, <4>3 DEF BufferedMsg
      <3> QED
        BY <1>4, <3>1 DEF HandleMessage, Inv, TypeOK
    <2>2. rx_buffer_index_' = 0 /\ ~new_msg_'
      BY <1>4 DEF HandleMessage, Inv
    <2>3. MaxBytesToRead' \in 1 .. BufSize - rx_buffer_index_'
      BY <2>2, Sizes DEF MaxBytesToRead
    <2> QED
      BY <1>4, <2>1, <2>2, <2>3 DEF HandleMessage, pcs, Inv, TypeOK, ReadsFit
  <1>5. CASE UNCHANGED vars
    BY <1>5 DEF vars, pcs, Inv, TypeOK, ReadsFit, MaxBytesToRead
  <1> QED
    BY <1>1, <1>c, <1>2, <1>3, <1>r, <1>4, <1>5 DEF Next

\* The receiver's variables keep their types: no read runs past the buffer, the
\* FIFO or the range of the uint8_t index.
THEOREM TypeCorrect == Spec => []TypeOK
  <1>1. Inv => TypeOK
    BY DEF Inv
  <1> QED
    BY <1>1, InitInv, InvPreserved, PTL DEF Spec

\* Every read asks for at least one byte and no more than the buffer has room
\* for, whatever the PC sends and however its bytes are cut up.
THEOREM ReadsFitCorrect == Spec => []ReadsFit
  <1>1. Inv => ReadsFit
    BY DEF Inv
  <1> QED
    BY <1>1, InitInv, InvPreserved, PTL DEF Spec

\* The read that completes a message whose header was in takes the rest of the
\* message and nothing after it, wherever messages were cut off before.
THEOREM CompletesExactlyCorrect == Spec => CompletesExactly
  <1> DEFINE Exact == ~new_msg_ /\ new_msg_' /\ rx_buffer_index_ >= HeaderSize =>
                        rx_buffer_index_ + Len(fifo) - Len(fifo') = MsgSize(rx_buffer_')
  <1>1. Inv /\ [Next]_vars => [Exact]_vars
    <2> SUFFICES ASSUME Inv, Next, ~new_msg_, new_msg_', rx_buffer_index_ >= HeaderSize
                 PROVE  rx_buffer_index_ + Len(fifo) - Len(fifo') = MsgSize(rx_buffer_')
      BY DEF vars
    <2>1. process_cdc_input
      BY DEF Next, PcSends, PcCloses, UsbDelivers, Reply, HandleMessage
    <2> DEFINE n == BytesRead
    <2>2. /\ n \in Nat /\ n <= Len(fifo) /\ n <= MaxBytesToRead
          /\ rx_buffer_index_ \in Nat /\ Len(fifo) \in Nat
      BY <2>1, BytesReadFits DEF process_cdc_input, Inv, TypeOK, Byte
    <2>3. /\ rx_buffer_' = Filled(n) /\ fifo' = SubSeq(fifo, n + 1, Len(fifo))
          /\ rx_buffer_index_ + n >= MsgSize(rx_buffer_')
      BY <2>1 DEF process_cdc_input, Complete
    <2>4. Len(fifo') = Len(fifo) - n
      <3>1. fifo \in Seq(Byte)
        BY DEF Inv, TypeOK
      <3> HIDE DEF n
      <3> QED
        BY <2>2, <2>3, <3>1
    <2>5. rx_buffer_'[1] = rx_buffer_[1]
      <3>1. 1 \in 0 .. BufSize - 1 /\ rx_buffer_index_ > 1
        BY <2>2, Sizes
      <3>2. ~(1 \in rx_buffer_index_ .. rx_buffer_index_ + n - 1)
        BY <2>2, <3>1
      <3> QED
        BY <2>3, <3>1, <3>2 DEF Filled
    <2>6. MsgSize(rx_buffer_') = MsgSize(rx_buffer_) /\ MsgSize(rx_buffer_) \in Nat
      <3>1. rx_buffer_ \in [0 .. BufSize - 1 -> Byte]
        BY DEF Inv, TypeOK
      <3>2. MsgSize(rx_buffer_) \in 0 .. BufSize
        BY <3>1, MsgSizeFits
      <3> QED
        BY <2>5, <3>2, Sizes DEF MsgSize
    <2>7. MaxBytesToRead = MsgSize(rx_buffer_) - rx_buffer_index_
      BY DEF MaxBytesToRead
    <2> HIDE DEF n
    <2>8. rx_buffer_index_ + n = MsgSize(rx_buffer_)
      <3>1. /\ MsgSize(rx_buffer_) \in Nat /\ n <= MsgSize(rx_buffer_) - rx_buffer_index_
            /\ rx_buffer_index_ + n >= MsgSize(rx_buffer_)
        BY <2>2, <2>3, <2>6, <2>7
      <3> QED
        BY <2>2, <3>1
    <2> QED
      BY <2>2, <2>4, <2>6, <2>8
  <1> QED
    BY <1>1, InitInv, InvPreserved, PTL DEF Spec, CompletesExactly

-----------------------------------------------------------------------------
(* A PC that waits for the reply to each message, or until it has been     *)
(* handled without one.                                                    *)

\* The bytes of the message under way are, in order, in the buffer, in the FIFO
\* and on the wire; the first byte not yet in the buffer is within the message.
Underway(m) ==
  /\ rx_buffer_index_ + Len(fifo) + Len(wire) = Len(m)
  /\ rx_buffer_index_ < Len(m)
  /\ \A i \in 1 .. rx_buffer_index_ : rx_buffer_[i - 1] = m[i]
  /\ \A i \in 1 .. Len(fifo) : fifo[i] = m[rx_buffer_index_ + i]
  /\ \A i \in 1 .. Len(wire) : wire[i] = m[rx_buffer_index_ + Len(fifo) + i]

Arrived(m) == \A i \in 1 .. Len(m) : rx_buffer_[i - 1] = m[i]

NoneUnderway == wire = <<>> /\ fifo = <<>> /\ rx_buffer_index_ = 0

\* Once the reply to a message is out, the next one may be under way while the
\* first is in the buffer.
LockStep ==
  \/ Len(sent) = Len(handled) /\ ~new_msg_ /\ NoneUnderway
  \/ Len(sent) = Len(handled) + 1 /\ ~new_msg_ /\ Underway(sent[Len(sent)])
  \/ /\ Len(sent) = Len(handled) + 1 /\ new_msg_ /\ NoneUnderway
     /\ Arrived(sent[Len(sent)])
  \/ /\ Len(sent) = Len(handled) + 2 /\ new_msg_ /\ replied
     /\ Arrived(sent[Len(handled) + 1]) /\ Underway(sent[Len(sent)])

\* A buffer that begins with a message tells its length.
LEMMA SizeOfMessage ==
  ASSUME NEW m \in Messages, NEW buffer, buffer[1] = m[2]
  PROVE  MsgSize(buffer) = Len(m)
  <1>1. /\ Len(m) \in Nat /\ Len(m) <= BufSize /\ buffer[1] + 2 = Len(m)
        /\ ByteRange = BufSize + 1 /\ BufSize \in Nat
    BY MessagesAssumption, Sizes
  <1>2. (Len(m) % ByteRange) = Len(m)
    BY <1>1
  <1> QED
    BY <1>1, <1>2 DEF MsgSize

LEMMA SentIsMessage ==
  ASSUME TypeOK, NEW i \in 1 .. Len(sent)
  PROVE  /\ sent[i] \in Messages /\ sent[i] \in Seq(Byte)
         /\ Len(sent[i]) \in Nat
         /\ HeaderSize < Len(sent[i]) /\ Len(sent[i]) <= BufSize
  <1>2. sent[i] \in Messages
    BY DEF TypeOK
  <1> QED
    BY <1>2, MessagesAssumption, Sizes

LEMMA LockStepPreserved ==
  ASSUME MaxInFlight = 1, MaxCuts = 0
  PROVE  Inv /\ LockStep /\ [Next]_vars => LockStep'
  <1> SUFFICES ASSUME Inv, LockStep, [Next]_vars
               PROVE  LockStep'
    OBVIOUS
  <1> DEFINE m == sent[Len(sent)]
  <1>0. /\ Len(sent) \in Nat /\ Len(handled) \in Nat
        /\ Len(fifo) \in Nat /\ Len(wire) \in Nat
        /\ rx_buffer_index_ \in Nat
    BY DEF Inv, TypeOK, Byte
  <1>1. ASSUME NEW k \in Messages, PcSends(k)
        PROVE  LockStep'
    <2>1. k \in Seq(Byte) /\ Len(k) \in Nat /\ Len(k) > 0
      BY MessagesAssumption, Sizes
    <2>2. /\ Len(sent') = Len(sent) + 1 /\ sent'[Len(sent')] = k
          /\ \A i \in 1 .. Len(sent) : sent'[i] = sent[i]
      BY <1>1 DEF PcSends, Inv, TypeOK
    <2>3. /\ UNCHANGED <<fifo, rx_buffer_, rx_buffer_index_, new_msg_, replied, handled>>
          /\ wire' = wire \o k
      BY <1>1 DEF PcSends
    <2>4. ASSUME NoneUnderway
          PROVE  Underway(k)'
      <3>1. wire' = k /\ fifo' = <<>> /\ rx_buffer_index_' = 0
        BY <2>1, <2>3, <2>4 DEF NoneUnderway
      <3> QED
        BY <2>1, <3>1 DEF Underway
    <2>5. Len(sent) < Len(handled) + IF replied THEN 2 ELSE 1
      BY <1>0, <1>1 DEF PcSends, Answered
    <2>6. CASE ~replied
      <3>1. Len(sent) = Len(handled) /\ ~new_msg_ /\ NoneUnderway
        BY <1>0, <2>5, <2>6 DEF LockStep
      <3> QED
        BY <2>2, <2>3, <2>4, <3>1 DEF LockStep
    <2>7. CASE replied
      <3>1. /\ Len(sent) = Len(handled) + 1 /\ new_msg_ /\ NoneUnderway
            /\ Arrived(sent[Len(sent)])
        BY <1>0, <2>5, <2>7 DEF LockStep, Inv
      <3>2. sent'[Len(handled') + 1] = sent[Len(sent)]
        BY <1>0, <2>2, <2>3, <3>1
      <3>3. ASSUME NEW i \in 1 .. Len(sent[Len(sent)])
            PROVE  rx_buffer_'[i - 1] = sent[Len(sent)][i]
        BY <2>3, <3>1 DEF Arrived
      <3>4. Len(sent') = Len(handled') + 2
        <4>1. Len(handled') = Len(handled)
          BY <2>3
        <4> QED
          BY <1>0, <2>2, <3>1, <4>1
      <3>5. new_msg_' /\ replied'
        BY <2>3, <2>7, <3>1
      <3>6. Arrived(sent[Len(handled) + 1])'
        BY <3>2, <3>3 DEF Arrived
      <3>7. Underway(sent[Len(sent)])'
        BY <2>2, <2>4, <3>1 DEF Underway
      <3> QED
        BY <3>4, <3>5, <3>6, <3>7 DEF LockStep
    <2> QED
      BY <2>6, <2>7
  <1>c. ~PcCloses
    BY DEF PcCloses, Inv, TypeOK
  <1>2. ASSUME NEW n \in 1 .. FifoSize, UsbDelivers(n)
        PROVE  LockStep'
    <2>1. n \in Nat \ {0} /\ n <= Len(wire)
      BY <1>2, CdcAssumption DEF UsbDelivers
    <2>2. Underway(m)
      BY <1>0, <2>1 DEF LockStep, NoneUnderway
    <2>3. /\ Len(fifo') = Len(fifo) + n /\ Len(wire') = Len(wire) - n
          /\ \A i \in 1 .. Len(fifo) : fifo'[i] = fifo[i]
          /\ \A i \in 1 .. n : fifo'[Len(fifo) + i] = wire[i]
          /\ \A i \in 1 .. Len(wire) - n : wire'[i] = wire[n + i]
      BY <1>2, <2>1 DEF UsbDelivers, Inv, TypeOK
    <2>4. /\ rx_buffer_' = rx_buffer_ /\ rx_buffer_index_' = rx_buffer_index_
          /\ new_msg_' = new_msg_ /\ sent' = sent /\ handled' = handled
          /\ replied' = replied
      BY <1>2 DEF UsbDelivers, pcs
    <2>5. ASSUME NEW i \in 1 .. Len(fifo')
          PROVE  fifo'[i] = m[rx_buffer_index_ + i]
      <3>1. CASE i <= Len(fifo)
        BY <1>0, <2>2, <2>3, <3>1 DEF Underway
      <3>2. CASE i > Len(fifo)
        <4>1. i - Len(fifo) \in 1 .. n /\ i = Len(fifo) + (i - Len(fifo))
          BY <1>0, <2>1, <2>3, <3>2
        <4>2. fifo'[i] = wire[i - Len(fifo)]
          BY <2>3, <4>1
        <4>3. wire[i - Len(fifo)] = m[rx_buffer_index_ + Len(fifo) + (i - Len(fifo))]
          BY <1>0, <2>1, <2>2, <4>1 DEF Underway
        <4>4. rx_buffer_index_ + Len(fifo) + (i - Len(fifo)) = rx_buffer_index_ + i
          BY <1>0, <2>3
        <4> QED
          BY <4>2, <4>3, <4>4
      <3> QED
        BY <1>0, <2>3, <3>1, <3>2
    <2>6. ASSUME NEW i \in 1 .. Len(wire')
          PROVE  wire'[i] = m[rx_buffer_index_ + Len(fifo') + i]
      <3>1. n + i \in 1 .. Len(wire) /\ wire'[i] = wire[n + i]
        BY <1>0, <2>1, <2>3
      <3>2. rx_buffer_index_ + Len(fifo) + (n + i) = rx_buffer_index_ + Len(fifo') + i
        BY <1>0, <2>1, <2>3
      <3> QED
        BY <2>2, <3>1, <3>2 DEF Underway
    <2>7. rx_buffer_index_ + Len(fifo') + Len(wire') = Len(m)
      <3>1. rx_buffer_index_ + Len(fifo) + Len(wire) = Len(m)
        BY <2>2 DEF Underway
      <3>2. Len(fifo') = Len(fifo) + n /\ Len(wire') = Len(wire) - n
        BY <2>3
      <3> QED
        BY <1>0, <2>1, <3>1, <3>2
    <2>8. Underway(m)'
      BY <2>2, <2>4, <2>5, <2>6, <2>7 DEF Underway
    <2> QED
      BY <1>0, <2>1, <2>4, <2>8 DEF LockStep, Arrived, NoneUnderway
  <1>3. CASE process_cdc_input
    <2> DEFINE n     == BytesRead
               total == rx_buffer_index_ + n
               next  == Filled(n)
    <2>1. /\ n \in Nat \ {0} /\ n <= Len(fifo)
          /\ total \in Nat /\ total <= BufSize
      BY <1>0, <1>3, BytesReadFits, Sizes DEF process_cdc_input
    <2>2. Len(sent) = Len(handled) + 1 /\ ~new_msg_ /\ Underway(m)
      BY <1>3 DEF process_cdc_input, LockStep, NoneUnderway
    <2>3. /\ rx_buffer_' = next
          /\ new_msg_' = Complete(next, total)
          /\ rx_buffer_index_' = IF Complete(next, total) THEN 0 ELSE total
          /\ fifo' = SubSeq(fifo, n + 1, Len(fifo))
          /\ UNCHANGED <<wire, sent, handled>>
      BY <1>3 DEF process_cdc_input, pcs
    <2>4. m \in Messages /\ Len(m) \in Nat /\ HeaderSize < Len(m) /\ Len(m) <= BufSize
      <3>1. Len(sent) \in 1 .. Len(sent)
        BY <1>0, <2>2
      <3> QED
        BY <3>1, SentIsMessage DEF Inv
    <2>5. ASSUME NEW i \in 1 .. total
          PROVE  next[i - 1] = m[i]
      <3>1. i - 1 \in 0 .. BufSize - 1
        BY <2>1, Sizes
      <3>2. next[i - 1] = IF i - 1 \in rx_buffer_index_ .. rx_buffer_index_ + n - 1
                          THEN fifo[(i - 1) - rx_buffer_index_ + 1]
                          ELSE rx_buffer_[i - 1]
        BY <3>1 DEF Filled
      <3>3. CASE i <= rx_buffer_index_
        BY <1>0, <2>1, <2>2, <3>2, <3>3 DEF Underway
      <3>4. CASE i > rx_buffer_index_
        <4>1. next[i - 1] = fifo[(i - 1) - rx_buffer_index_ + 1]
          BY <1>0, <2>1, <3>2, <3>4
        <4>2. (i - 1) - rx_buffer_index_ + 1 \in 1 .. Len(fifo)
              /\ rx_buffer_index_ + ((i - 1) - rx_buffer_index_ + 1) = i
          BY <1>0, <2>1, <3>4
        <4> QED
          BY <2>2, <4>1, <4>2 DEF Underway
      <3> QED
        BY <1>0, <2>1, <3>3, <3>4
    <2>6. total + (Len(fifo) - n) + Len(wire) = Len(m)
      <3>1. rx_buffer_index_ + Len(fifo) + Len(wire) = Len(m) /\ n \in Nat
        BY <2>1, <2>2 DEF Underway
      <3> HIDE DEF n
      <3> QED
        BY <1>0, <3>1
    <2>7. Complete(next, total) <=> total = Len(m)
      <3>1. CASE total >= HeaderSize
        <4>1. next[1] = m[2]
          <5>1. 2 \in 1 .. total
            BY <2>1, <3>1, Sizes
          <5>2. next[2 - 1] = m[2]
            BY <2>5, <5>1
          <5> QED
            BY <5>2
        <4>2. MsgSize(next) = Len(m)
          BY <2>4, <4>1, SizeOfMessage
        <4> QED
          BY <1>0, <2>1, <2>4, <2>6, <3>1, <4>2, Sizes DEF Complete
      <3>2. CASE total < HeaderSize
        BY <2>1, <2>4, <3>2, Sizes DEF Complete
      <3> QED
        BY <2>1, <3>1, <3>2, Sizes
    <2>8. /\ Len(fifo') = Len(fifo) - n
          /\ \A i \in 1 .. Len(fifo) - n : fifo'[i] = fifo[n + i]
      BY <2>1, <2>3 DEF Inv, TypeOK
    <2>9. CASE total = Len(m)
      <3>1. Len(fifo') = 0 /\ Len(wire') = 0 /\ new_msg_'
        BY <1>0, <2>1, <2>3, <2>6, <2>7, <2>8, <2>9
      <3>2. wire' = <<>> /\ fifo' = <<>>
        BY <3>1, InvPreserved DEF Inv, TypeOK
      <3>3. Arrived(m)'
        BY <2>3, <2>5, <2>9 DEF Arrived
      <3>4. NoneUnderway'
        BY <2>3, <2>7, <2>9, <3>2 DEF NoneUnderway
      <3> QED
        BY <2>2, <2>3, <3>1, <3>3, <3>4 DEF LockStep
    <2>10. CASE total # Len(m)
      <3>1. /\ ~new_msg_' /\ rx_buffer_index_' = total /\ total < Len(m)
            /\ rx_buffer_index_' + Len(fifo') + Len(wire') = Len(m)
        <4>1. ~new_msg_' /\ rx_buffer_index_' = total /\ wire' = wire
              /\ Len(fifo') = Len(fifo) - n
          BY <2>3, <2>7, <2>8, <2>10
        <4>2. n \in Nat /\ n <= Len(fifo) /\ total \in Nat
          BY <2>1
        <4> HIDE DEF n, total
        <4> QED
          BY <1>0, <2>4, <2>6, <2>10, <4>1, <4>2
      <3>2. ASSUME NEW i \in 1 .. Len(fifo')
            PROVE  fifo'[i] = m[total + i]
        <4>1. n + i \in 1 .. Len(fifo) /\ fifo'[i] = fifo[n + i]
              /\ rx_buffer_index_ + (n + i) = total + i
          BY <1>0, <2>1, <2>8
        <4> QED
          BY <2>2, <4>1 DEF Underway
      <3>3. ASSUME NEW i \in 1 .. Len(wire')
            PROVE  wire'[i] = m[total + Len(fifo') + i]
        <4>1. /\ i \in 1 .. Len(wire) /\ wire' = wire
              /\ rx_buffer_index_ + Len(fifo) + i = total + Len(fifo') + i
          <5>1. n \in Nat /\ n <= Len(fifo) /\ wire' = wire
                /\ Len(fifo') = Len(fifo) - n
            BY <2>1, <2>3, <2>8
          <5> HIDE DEF n
          <5> QED
            BY <1>0, <5>1
        <4> QED
          BY <2>2, <4>1 DEF Underway
      <3>4. Underway(m)'
        BY <2>3, <2>5, <3>1, <3>2, <3>3 DEF Underway
      <3> QED
        BY <2>2, <2>3, <3>1, <3>4 DEF LockStep
    <2> QED
      BY <2>9, <2>10
  <1>r. CASE Reply
    <2>1. /\ new_msg_ /\ ~replied /\ NoneUnderway /\ Arrived(m)
          /\ Len(sent) = Len(handled) + 1
      BY <1>r DEF Reply, LockStep
    <2>2. /\ UNCHANGED <<wire, fifo, rx_buffer_, rx_buffer_index_, new_msg_>>
          /\ UNCHANGED <<sent, handled>>
      BY <1>r DEF Reply, pcs
    <2> QED
      BY <2>1, <2>2 DEF LockStep, NoneUnderway, Arrived
  <1>4. CASE HandleMessage
    <2>1. /\ ~new_msg_' /\ Len(handled') = Len(handled) + 1
          /\ UNCHANGED <<wire, fifo, rx_buffer_, rx_buffer_index_, sent>>
      BY <1>4 DEF HandleMessage, pcs, Inv, TypeOK
    <2>2. CASE Len(sent) = Len(handled) + 1
      <3>1. NoneUnderway
        BY <1>0, <1>4, <2>2 DEF HandleMessage, LockStep
      <3> QED
        BY <2>1, <2>2, <3>1 DEF LockStep, NoneUnderway
    <2>3. CASE Len(sent) = Len(handled) + 2
      <3>1. Underway(m)
        BY <1>0, <1>4, <2>3 DEF HandleMessage, LockStep
      <3>2. Underway(m)'
        BY <2>1, <3>1 DEF Underway
      <3>3. Len(sent') = Len(handled') + 1
        BY <1>0, <2>1, <2>3
      <3> QED
        BY <2>1, <3>2, <3>3 DEF LockStep
    <2> QED
      BY <1>4, <2>2, <2>3 DEF HandleMessage, LockStep
  <1>5. CASE UNCHANGED vars
    BY <1>5 DEF vars, pcs, LockStep, Arrived, Underway, NoneUnderway
  <1> QED
    BY <1>1, <1>c, <1>2, <1>3, <1>r, <1>4, <1>5 DEF Next

\* What is pending after one more message, and after one less.
LEMMA PendingGrows ==
  ASSUME NEW S, NEW s \in Seq(S), NEW e \in S, NEW k \in Nat, k <= Len(s)
  PROVE  SubSeq(Append(s, e), k + 1, Len(s) + 1) = Append(SubSeq(s, k + 1, Len(s)), e)
  <1> DEFINE a == SubSeq(Append(s, e), k + 1, Len(s) + 1)
             b == Append(SubSeq(s, k + 1, Len(s)), e)
  <1>0. Len(s) \in Nat
    OBVIOUS
  <1>1. /\ Append(s, e) \in Seq(S) /\ Len(Append(s, e)) = Len(s) + 1
        /\ \A i \in 1 .. Len(s) : Append(s, e)[i] = s[i]
        /\ Append(s, e)[Len(s) + 1] = e
    OBVIOUS
  <1>2. /\ a \in Seq(S) /\ Len(a) = Len(s) + 1 - k
        /\ \A i \in 1 .. Len(s) + 1 - k : a[i] = Append(s, e)[k + i]
    BY <1>0, <1>1
  <1>3. /\ SubSeq(s, k + 1, Len(s)) \in Seq(S) /\ Len(SubSeq(s, k + 1, Len(s))) = Len(s) - k
        /\ \A i \in 1 .. Len(s) - k : SubSeq(s, k + 1, Len(s))[i] = s[k + i]
    BY <1>0
  <1>4. /\ b \in Seq(S) /\ Len(b) = Len(s) + 1 - k /\ b[Len(s) + 1 - k] = e
        /\ \A i \in 1 .. Len(s) - k : b[i] = s[k + i]
    BY <1>0, <1>3
  <1>5. ASSUME NEW i \in 1 .. Len(s) + 1 - k
        PROVE  a[i] = b[i]
    <2>1. CASE i = Len(s) + 1 - k
      BY <1>0, <1>1, <1>2, <1>4, <2>1
    <2>2. CASE i # Len(s) + 1 - k
      <3>1. i \in 1 .. Len(s) - k /\ k + i \in 1 .. Len(s)
        BY <1>0, <2>2
      <3> QED
        BY <1>1, <1>2, <1>4, <3>1
    <2> QED
      BY <2>1, <2>2
  <1> HIDE DEF a, b
  <1>6. a = b
    BY <1>0, <1>2, <1>4, <1>5, SeqEqual
  <1> QED
    BY <1>6 DEF a, b

LEMMA PendingShrinks ==
  ASSUME NEW S, NEW s \in Seq(S), NEW k \in Nat, k < Len(s)
  PROVE  /\ SubSeq(s, k + 1, Len(s)) # <<>>
         /\ Head(SubSeq(s, k + 1, Len(s))) = s[k + 1]
         /\ Tail(SubSeq(s, k + 1, Len(s))) = SubSeq(s, (k + 1) + 1, Len(s))
  <1> DEFINE a == SubSeq(s, k + 1, Len(s))
             b == SubSeq(s, (k + 1) + 1, Len(s))
  <1>0. Len(s) \in Nat
    OBVIOUS
  <1>1. /\ a \in Seq(S) /\ Len(a) = Len(s) - k
        /\ \A i \in 1 .. Len(s) - k : a[i] = s[k + i]
    BY <1>0
  <1>2. /\ b \in Seq(S) /\ Len(b) = Len(s) - k - 1
        /\ \A i \in 1 .. Len(s) - k - 1 : b[i] = s[k + 1 + i]
    BY <1>0
  <1> HIDE DEF a, b
  <1>3. a # <<>> /\ Head(a) = s[k + 1]
    BY <1>0, <1>1
  <1>4. /\ Tail(a) \in Seq(S) /\ Len(Tail(a)) = Len(s) - k - 1
        /\ \A i \in 1 .. Len(s) - k - 1 : Tail(a)[i] = a[i + 1]
    BY <1>0, <1>1, <1>3
  <1>5. ASSUME NEW i \in 1 .. Len(s) - k - 1
        PROVE  Tail(a)[i] = b[i]
    <2>1. i + 1 \in 1 .. Len(s) - k /\ k + (i + 1) = k + 1 + i
      BY <1>0
    <2> QED
      BY <1>1, <1>2, <1>4, <2>1
  <1>6. Tail(a) = b
    BY <1>0, <1>2, <1>4, <1>5, SeqEqual
  <1> QED
    BY <1>3, <1>6 DEF a, b

\* Seen through the mapping, a step of the receiver is one of the channel.
LEMMA StepSimulates ==
  ASSUME MaxInFlight = 1, MaxCuts = 0
  PROVE  Inv /\ LockStep /\ [Next]_vars
           => [Channel!Next]_<<SubSeq(sent, Len(handled) + 1, Len(sent)), handled>>
  <1> SUFFICES ASSUME Inv, LockStep, [Next]_vars
               PROVE  [Channel!Next]_<<SubSeq(sent, Len(handled) + 1, Len(sent)), handled>>
    OBVIOUS
  <1> DEFINE pending == SubSeq(sent, Len(handled) + 1, Len(sent))
  <1>0. /\ sent \in Seq(Messages) /\ Len(sent) \in Nat /\ Len(handled) \in Nat
        /\ Len(handled) <= Len(sent)
    BY DEF Inv, TypeOK, LockStep
  <1>1. ASSUME NEW k \in Messages, PcSends(k)
        PROVE  Channel!Send(k)
    <2>1. /\ sent' = Append(sent, k) /\ handled' = handled
          /\ Len(sent') = Len(sent) + 1
      BY <1>0, <1>1 DEF PcSends
    <2>2. pending' = SubSeq(Append(sent, k), Len(handled) + 1, Len(sent) + 1)
      BY <2>1
    <2>3. pending' = Append(pending, k)
      BY <1>0, <2>2, PendingGrows
    <2> QED
      BY <2>1, <2>3 DEF Channel!Send
  <1>2. CASE HandleMessage
    <2> DEFINE m == sent[Len(handled) + 1]
    <2>1. /\ Len(handled) < Len(sent) /\ Arrived(m)
      BY <1>0, <1>2 DEF HandleMessage, LockStep
    <2>2. m \in Messages /\ m \in Seq(Byte) /\ HeaderSize < Len(m) /\ Len(m) \in Nat
      <3>1. Len(handled) + 1 \in 1 .. Len(sent)
        BY <1>0, <2>1
      <3> QED
        BY <3>1, SentIsMessage DEF Inv
    <2>3. rx_buffer_[1] = m[2]
      <3>1. 2 \in 1 .. Len(m)
        BY <2>2, Sizes
      <3>2. rx_buffer_[2 - 1] = m[2]
        BY <2>1, <3>1 DEF Arrived
      <3> QED
        BY <3>2
    <2>4. MsgSize(rx_buffer_) = Len(m)
      BY <2>2, <2>3, SizeOfMessage
    <2>5. BufferedMsg = [i \in 1 .. Len(m) |-> m[i]]
      BY <2>1, <2>4 DEF BufferedMsg, Arrived
    <2>6. BufferedMsg = m
      BY <2>2, <2>5
    <2>7. /\ handled' = Append(handled, m) /\ sent' = sent
          /\ Len(handled') = Len(handled) + 1
      BY <1>2, <2>6 DEF HandleMessage, pcs, Inv, TypeOK
    <2>8. pending # <<>> /\ Head(pending) = m
          /\ Tail(pending) = SubSeq(sent, (Len(handled) + 1) + 1, Len(sent))
      BY <1>0, <2>1, PendingShrinks
    <2>9. pending' = Tail(pending)
      BY <2>7, <2>8
    <2> HIDE DEF m
    <2> QED
      BY <2>7, <2>8, <2>9 DEF Channel!Handle, Channel!Next
  <1>3. CASE UNCHANGED <<sent, handled>>
    BY <1>3
  <1>4. ~PcCloses
    BY DEF PcCloses, Inv, TypeOK
  <1> QED
    BY <1>1, <1>2, <1>3, <1>4
    DEF Next, vars, pcs, UsbDelivers, process_cdc_input, Reply, Channel!Next

\* To a PC that sends a message when it has the reply to the one before, though
\* that one is still in the buffer, the receiver is a channel that passes every
\* message on whole, once and in order.
THEOREM LockStepDelivers ==
  ASSUME MaxInFlight = 1, MaxCuts = 0
  PROVE  Spec => DeliversMessages
  <1>1. Init => LockStep
    BY DEF Init, LockStep, NoneUnderway
  <1>2. Init => Channel!Init
    BY DEF Init, Channel!Init
  <1>3. Inv /\ LockStep /\ [Next]_vars => LockStep'
    BY LockStepPreserved
  <1>4. Inv /\ LockStep /\ [Next]_vars
          => [Channel!Next]_<<SubSeq(sent, Len(handled) + 1, Len(sent)), handled>>
    BY StepSimulates
  <1> QED
    BY <1>1, <1>2, <1>3, <1>4, InitInv, InvPreserved, PTL DEF Spec, DeliversMessages, Channel!Safety
=============================================================================
