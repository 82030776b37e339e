--------------------------- MODULE TransmitProofs ---------------------------
(***************************************************************************)
(* Theorems about the way of a reply to the PC, for every size of FIFO,    *)
(* packet and reply, every number of replies and every PC.                 *)
(***************************************************************************)
EXTENDS Transmit, SequenceTheorems, WellFoundedInduction, TLAPS

LEMMA Sizes ==
  /\ ByteRange \in Nat \ {0} /\ HeaderSize \in Nat /\ HeaderSize > 2 /\ StampSize \in Nat
  /\ FifoSize \in Nat /\ PacketSize \in Nat \ {0} /\ PacketSize <= FifoSize
  /\ Patience \subseteq Nat /\ None \notin Address
  /\ \A a \in Address : a \in Byte /\ NumBytes[a] \in Nat /\ Body(a) \in Nat
                        /\ Size(a) \in Nat /\ Size(a) = Body(a) + 1
                        /\ Body(a) = HeaderSize + StampSize + NumBytes[a]
  BY TransmitAssumption DEF Body, Size, Byte

LEMMA ByteMod ==
  ASSUME NEW n \in Nat
  PROVE  (n % ByteRange) \in Byte
  <1>1. (n % ByteRange) \in 0 .. ByteRange - 1
    BY Sizes
  <1> QED
    BY <1>1 DEF Byte

\* Byte i of a reply is one.
LEMMA ByteOfType ==
  ASSUME NEW a \in Address, NEW t \in Stamps, NEW v \in Contents, NEW i \in Nat, i >= 1
  PROVE  ByteOf(a, t, v, i) \in Byte
  <1>1. v \in Nat /\ t \in Byte /\ a \in Byte /\ 0 \in Byte
    BY TransmitAssumption DEF Byte
  <1>2. RawLength(a) \in Byte
    <2>1. NumBytes[a] + HeaderSize + StampSize - 1 \in Nat
      BY Sizes
    <2> QED
      BY <2>1, ByteMod DEF RawLength
  <1>3. ((v + i) % ByteRange) \in Byte
    <2>1. v + i \in Nat
      BY <1>1
    <2> QED
      BY <2>1, ByteMod
  <1>4. CASE i <= HeaderSize
    <2>1. i \in 1 .. HeaderSize
      BY <1>4, Sizes
    <2>2. Header(a)[i] = CASE i = 2 -> RawLength(a) [] i = 3 -> a [] OTHER -> 0
      BY <2>1 DEF Header
    <2>3. ByteOf(a, t, v, i) = Header(a)[i]
      <3>1. ~(i \in HeaderSize + 1 .. HeaderSize + StampSize)
        BY <1>4, Sizes
      <3> QED
        BY <1>4, <3>1 DEF ByteOf
    <2> QED
      BY <1>1, <1>2, <2>2, <2>3
  <1>5. CASE i \in HeaderSize + 1 .. HeaderSize + StampSize
    <2>1. ~(i <= HeaderSize)
      BY <1>5, Sizes
    <2> QED
      BY <1>1, <1>5, <2>1 DEF ByteOf
  <1>6. CASE ~(i <= HeaderSize) /\ i \notin HeaderSize + 1 .. HeaderSize + StampSize
    BY <1>3, <1>6 DEF ByteOf
  <1> QED
    BY <1>4, <1>5, <1>6

-----------------------------------------------------------------------------
(* TinyUSB's operations.                                                   *)

UsbOK(u) ==
  /\ u \in [fifo : Seq(Byte), packet : Seq(Byte), endpoint : Endpoint]
  /\ Len(u.fifo) <= FifoSize /\ Len(u.packet) <= PacketSize

Held(u) == Len(u.fifo) + Len(u.packet)

LEMMA SumBound ==
  ASSUME NEW m \in Nat, NEW n \in Nat
  PROVE  m <= m + n /\ m + n \in Nat
  OBVIOUS

LEMMA FlushFacts ==
  ASSUME NEW u, UsbOK(u), NEW f, f = tud_cdc_write_flush(u)
  PROVE  /\ UsbOK(f) /\ Len(f.fifo) <= Len(u.fifo) /\ Held(f) <= Held(u)
         /\ u.endpoint # "free" => f = u
         /\ f.endpoint = "free" => Len(f.fifo) = 0
         /\ u.endpoint = "free" /\ Len(u.fifo) <= PacketSize => Len(f.fifo) = 0
  <1>0. /\ u.fifo \in Seq(Byte) /\ u.packet \in Seq(Byte) /\ u.endpoint \in Endpoint
        /\ Len(u.fifo) \in Nat /\ Len(u.packet) \in Nat
    BY DEF UsbOK
  <1>1. CASE u.endpoint # "free" \/ u.fifo = <<>>
    <2>1. f = u
      BY <1>1 DEF tud_cdc_write_flush
    <2>2. u.endpoint = "free" => Len(f.fifo) = 0
      BY <1>1, <2>1
    <2> QED
      BY <1>0, <2>1, <2>2 DEF Held
  <1>2. CASE ~(u.endpoint # "free" \/ u.fifo = <<>>)
    <2> DEFINE n == IF Len(u.fifo) < PacketSize THEN Len(u.fifo) ELSE PacketSize
    <2>1. f = [fifo     |-> SubSeq(u.fifo, n + 1, Len(u.fifo)),
               packet   |-> SubSeq(u.fifo, 1, n),
               endpoint |-> "armed"]
      BY <1>2 DEF tud_cdc_write_flush
    <2>2. n \in Nat /\ n <= Len(u.fifo) /\ n <= PacketSize
          /\ (Len(u.fifo) <= PacketSize => n = Len(u.fifo))
      BY <1>0, Sizes
    <2> HIDE DEF n
    <2>3. /\ SubSeq(u.fifo, n + 1, Len(u.fifo)) \in Seq(Byte)
          /\ Len(SubSeq(u.fifo, n + 1, Len(u.fifo))) = Len(u.fifo) - n
          /\ SubSeq(u.fifo, 1, n) \in Seq(Byte) /\ Len(SubSeq(u.fifo, 1, n)) = n
      BY <1>0, <2>2
    <2>4. /\ f.fifo \in Seq(Byte) /\ f.packet \in Seq(Byte) /\ f.endpoint = "armed"
          /\ Len(f.fifo) = Len(u.fifo) - n /\ Len(f.packet) = n
          /\ f \in [fifo : Seq(Byte), packet : Seq(Byte), endpoint : Endpoint]
      BY <2>1, <2>3 DEF Endpoint
    <2>5. Len(u.fifo) <= FifoSize /\ u.endpoint = "free"
      BY <1>2 DEF UsbOK
    <2>6. UsbOK(f)
      BY <1>0, <2>2, <2>4, <2>5, Sizes DEF UsbOK
    <2> QED
      <3>1. Held(f) = Len(u.fifo) /\ Held(f) <= Held(u) /\ Len(f.fifo) <= Len(u.fifo)
        <4>1. /\ Len(f.fifo) = Len(u.fifo) - n /\ Len(f.packet) = n
              /\ n \in Nat /\ n <= Len(u.fifo)
          BY <2>2, <2>4
        <4>2. Len(f.fifo) + Len(f.packet) = Len(u.fifo)
          BY <1>0, <4>1
        <4>3. Held(f) = Len(u.fifo)
          BY <4>2 DEF Held
        <4>4. Len(u.fifo) <= Held(u)
          BY <1>0, SumBound DEF Held
        <4>5. Len(f.fifo) <= Len(u.fifo)
          BY <1>0, <4>1
        <4> QED
          BY <4>3, <4>4, <4>5
      <3>2. Len(u.fifo) <= PacketSize => Len(f.fifo) = 0
        BY <1>0, <2>2, <2>4
      <3>3. f.endpoint # "free"
        BY <2>4
      <3> QED
        BY <2>5, <2>6, <3>1, <3>2, <3>3
  <1> QED
    BY <1>1, <1>2

\* A byte put into the FIFO.
LEMMA PushedFifo ==
  ASSUME NEW u, UsbOK(u), NEW byte \in Byte, NEW p, p = [u EXCEPT !.fifo = Append(@, byte)]
  PROVE  /\ p \in [fifo : Seq(Byte), packet : Seq(Byte), endpoint : Endpoint]
         /\ p.fifo = Append(u.fifo, byte) /\ p.packet = u.packet /\ p.endpoint = u.endpoint
         /\ Len(p.fifo) = Len(u.fifo) + 1
  <1>1. /\ u \in [fifo : Seq(Byte), packet : Seq(Byte), endpoint : Endpoint]
        /\ u.fifo \in Seq(Byte)
    BY DEF UsbOK
  <1> DEFINE q == Append(u.fifo, byte)
  <1>2. q \in Seq(Byte) /\ Len(q) = Len(u.fifo) + 1
    BY <1>1, AppendProperties
  <1>3. p = [u EXCEPT !.fifo = q]
    OBVIOUS
  <1> HIDE DEF q
  <1>4. /\ p \in [fifo : Seq(Byte), packet : Seq(Byte), endpoint : Endpoint]
        /\ p.fifo = q /\ p.packet = u.packet /\ p.endpoint = u.endpoint
    BY <1>1, <1>2, <1>3
  <1> QED
    BY <1>2, <1>4 DEF q

LEMMA WriteFacts ==
  ASSUME NEW u, UsbOK(u), NEW byte \in Byte, NEW w, w = tud_cdc_write_char(u, byte)
  PROVE  /\ UsbOK(w) /\ Len(w.fifo) <= Len(u.fifo) + 1
         /\ w.endpoint = "free" => Len(w.fifo) < PacketSize
         /\ ~HasRoom(u) /\ u.endpoint # "free" => w = u
  <1> DEFINE pushed == IF HasRoom(u) THEN [u EXCEPT !.fifo = Append(@, byte)] ELSE u
  <1>0. /\ u.fifo \in Seq(Byte) /\ u.packet \in Seq(Byte) /\ u.endpoint \in Endpoint
        /\ Len(u.fifo) \in Nat /\ Len(u.fifo) <= FifoSize
        /\ u \in [fifo : Seq(Byte), packet : Seq(Byte), endpoint : Endpoint]
    BY DEF UsbOK
  <1>1. UsbOK(pushed) /\ Len(pushed.fifo) <= Len(u.fifo) + 1 /\ Len(pushed.fifo) \in Nat
    <2>1. CASE HasRoom(u)
      <3>1. /\ pushed \in [fifo : Seq(Byte), packet : Seq(Byte), endpoint : Endpoint]
            /\ pushed.fifo = Append(u.fifo, byte) /\ pushed.packet = u.packet
            /\ Len(pushed.fifo) = Len(u.fifo) + 1
        <4>1. pushed = [u EXCEPT !.fifo = Append(@, byte)]
          BY <2>1
        <4> HIDE DEF pushed
        <4> QED
          BY <4>1, PushedFifo
      <3>2. Len(pushed.fifo) = Len(u.fifo) + 1
        BY <3>1
      <3>3. Len(u.fifo) < FifoSize
        BY <2>1 DEF HasRoom
      <3> HIDE DEF pushed
      <3> QED
        BY <1>0, <3>1, <3>2, <3>3, Sizes DEF UsbOK
    <2>2. CASE ~HasRoom(u)
      BY <1>0, <2>2
    <2> QED
      BY <2>1, <2>2
  <1>2. w = IF Len(pushed.fifo) >= PacketSize THEN tud_cdc_write_flush(pushed) ELSE pushed
    BY DEF tud_cdc_write_char
  <1>3. ~HasRoom(u) => pushed = u /\ Len(u.fifo) = FifoSize
    BY <1>0, Sizes DEF HasRoom
  <1> HIDE DEF pushed
  <1>4. CASE Len(pushed.fifo) >= PacketSize
    <2>1. w = tud_cdc_write_flush(pushed)
      BY <1>2, <1>4
    <2>2. /\ UsbOK(w) /\ Len(w.fifo) <= Len(pushed.fifo)
          /\ pushed.endpoint # "free" => w = pushed
          /\ w.endpoint = "free" => Len(w.fifo) = 0
      BY <1>1, <2>1, FlushFacts
    <2>3. Len(w.fifo) \in Nat
      BY <2>2 DEF UsbOK
    <2> QED
      BY <1>0, <1>1, <1>3, <2>2, <2>3, Sizes
  <1>5. CASE ~(Len(pushed.fifo) >= PacketSize)
    <2>1. w = pushed
      BY <1>2, <1>5
    <2> QED
      BY <1>0, <1>1, <1>3, <1>5, <2>1, Sizes
  <1> QED
    BY <1>4, <1>5

LEMMA TaskFacts ==
  ASSUME NEW u, UsbOK(u), NEW t, t = tud_task(u)
  PROVE  /\ UsbOK(t) /\ Len(t.fifo) <= Len(u.fifo) /\ Held(t) <= Held(u)
         /\ u.endpoint # "taken" => t = u
         /\ u.endpoint = "taken" /\ t.endpoint = "free" => Len(t.fifo) = 0
         /\ u.endpoint = "taken" /\ Len(u.fifo) <= PacketSize => Len(t.fifo) = 0
  <1>0. /\ u.fifo \in Seq(Byte) /\ u.packet \in Seq(Byte)
        /\ u \in [fifo : Seq(Byte), packet : Seq(Byte), endpoint : Endpoint]
        /\ Len(u.fifo) \in Nat /\ Len(u.packet) \in Nat /\ Len(u.fifo) <= FifoSize
    BY DEF UsbOK
  <1>1. CASE u.endpoint = "taken"
    <2> DEFINE v == [u EXCEPT !.endpoint = "free", !.packet = <<>>]
    <2>1. t = tud_cdc_write_flush(v)
      BY <1>1 DEF tud_task
    <2>2. v.endpoint = "free" /\ v.fifo = u.fifo /\ v.packet = <<>>
      BY <1>0
    <2>3. v \in [fifo : Seq(Byte), packet : Seq(Byte), endpoint : Endpoint]
      <3>1. <<>> \in Seq(Byte) /\ "free" \in Endpoint
        BY DEF Endpoint
      <3> QED
        BY <1>0, <3>1
    <2> HIDE DEF v
    <2>4. UsbOK(v) /\ Held(v) <= Held(u)
      BY <1>0, <2>2, <2>3, Sizes DEF UsbOK, Held
    <2>5. /\ UsbOK(t) /\ Len(t.fifo) <= Len(v.fifo) /\ Held(t) <= Held(v)
          /\ t.endpoint = "free" => Len(t.fifo) = 0
          /\ Len(v.fifo) <= PacketSize => Len(t.fifo) = 0
      BY <2>1, <2>2, <2>4, FlushFacts
    <2>6. Held(t) \in Nat /\ Held(v) \in Nat /\ Held(u) \in Nat
      BY <1>0, <2>4, <2>5 DEF UsbOK, Held
    <2> QED
      BY <1>1, <2>2, <2>4, <2>5, <2>6
  <1>2. CASE u.endpoint # "taken"
    <2>1. t = u
      BY <1>2 DEF tud_task
    <2> QED
      BY <1>0, <1>2, <2>1 DEF Held
  <1> QED
    BY <1>1, <1>2

-----------------------------------------------------------------------------
(* The invariant.                                                          *)

Pushed == IF reply = None THEN 0 ELSE index - 1

\* Between two replies and within one: a free endpoint has no packet to take, and
\* once a byte of a reply is lost the FIFO is full and stays so until tud_task().
Shape ==
  /\ usb.endpoint = "free" => Len(usb.fifo) < PacketSize
  /\ cut /\ reply # None => Len(usb.fifo) = FifoSize /\ usb.endpoint # "free"
  /\ summed => reply # None /\ index > HeaderSize + StampSize /\ index <= Body(reply)
  /\ reply # None => sent[Len(sent)].address = reply

\* Each reply that has ended since a packet was last taken has left no more than
\* its share of a packet in the FIFO.
Room ==
  /\ ~cut
  /\ patience = 0 => reply = None \/ Len(usb.fifo) <= Pushed
  /\ patience > 0 =>
       /\ unpolled <= patience /\ (reply # None => unpolled < patience)
       /\ patience * Len(usb.fifo) <= unpolled * PacketSize + patience * Pushed

IInv == TypeOK /\ Shape /\ (KeepsUp => Room)

LEMMA Types ==
  ASSUME TypeOK
  PROVE  /\ UsbOK(usb) /\ index \in Nat /\ unpolled \in Nat /\ patience \in Nat
         /\ Len(usb.fifo) \in Nat /\ Len(usb.packet) \in Nat /\ checksum \in Byte
         /\ usb.fifo \in Seq(Byte) /\ usb.packet \in Seq(Byte) /\ usb.endpoint \in Endpoint
         /\ Len(usb.fifo) <= FifoSize
         /\ reply # None => reply \in Address /\ index >= 1 /\ index <= Size(reply) + 1
  <1>1. patience \in Nat
    BY Sizes DEF TypeOK
  <1>2. reply # None => reply \in Address /\ index \in 1 .. Size(reply) + 1
    BY DEF TypeOK
  <1>3. reply # None => index >= 1 /\ index <= Size(reply) + 1
    BY <1>2, Sizes
  <1>4. /\ usb \in [fifo : Seq(Byte), packet : Seq(Byte), endpoint : Endpoint]
        /\ Len(usb.fifo) <= FifoSize /\ Len(usb.packet) <= PacketSize
        /\ index \in Nat /\ unpolled \in Nat /\ checksum \in Byte
    BY DEF TypeOK
  <1>5. UsbOK(usb)
    BY <1>4 DEF UsbOK
  <1>6. /\ usb.fifo \in Seq(Byte) /\ usb.packet \in Seq(Byte) /\ usb.endpoint \in Endpoint
        /\ Len(usb.fifo) \in Nat /\ Len(usb.packet) \in Nat
    BY <1>4
  <1> QED
    BY <1>1, <1>2, <1>3, <1>4, <1>5, <1>6

LEMMA ByteNowType ==
  ASSUME TypeOK, reply # None
  PROVE  ByteNow \in Byte
  <1>1. reply \in Address /\ stamp \in Stamps /\ regs[reply] \in Contents
        /\ index \in Nat /\ index >= 1
    BY Types DEF TypeOK
  <1> QED
    BY <1>1, ByteOfType DEF ByteNow

LEMMA InitInv == Init => IInv
  <1> SUFFICES ASSUME Init PROVE IInv
    OBVIOUS
  <1>1. usb.fifo = <<>> /\ usb.packet = <<>> /\ usb.endpoint = "free" /\ Len(<<>>) = 0
    BY DEF Init
  <1>2. TypeOK
    <2>1. usb \in [fifo : Seq(Byte), packet : Seq(Byte), endpoint : Endpoint]
      BY DEF Init, Endpoint
    <2>2. 0 \in Byte
      BY Sizes DEF Byte
    <2>3. regs \in [Address -> Contents]
      BY DEF Init
    <2>4. Len(usb.fifo) <= FifoSize /\ Len(usb.packet) <= PacketSize
      BY <1>1, Sizes
    <2>5. \A S : <<>> \in Seq(S)
      OBVIOUS
    <2>6. /\ stream \in Seq(Byte) /\ got \in Seq(Seq(Byte)) /\ checksum \in Byte
          /\ sent \in Seq([address : Address, stamp : Stamps, data : Contents,
                           changed : BOOLEAN])
      BY <2>2, <2>5 DEF Init
    <2>7. /\ reply = None /\ index \in Nat /\ summed \in BOOLEAN /\ stamp \in Stamps
          /\ cut \in BOOLEAN /\ patience \in Patience /\ unpolled \in Nat
      BY DEF Init
    <2> QED
      BY <2>1, <2>3, <2>4, <2>6, <2>7 DEF TypeOK
  <1>3. Shape
    BY <1>1, Sizes DEF Init, Shape
  <1>4. Room
    <2>1. patience \in Nat /\ 0 * PacketSize = 0 /\ patience * 0 = 0
      BY Sizes DEF Init
    <2>2. patience * Len(usb.fifo) <= unpolled * PacketSize + patience * Pushed
      BY <1>1, <2>1 DEF Init, Pushed
    <2> QED
      BY <2>1, <2>2 DEF Init, Room
  <1> QED
    BY <1>2, <1>3, <1>4 DEF IInv

\* KeepsUp looks at the replies begun and at the PC.
LEMMA KeepsUpSame ==
  ASSUME UNCHANGED <<sent, patience>>
  PROVE  KeepsUp' <=> KeepsUp
  BY DEF KeepsUp

\* What KeepsUp says of the reply that is being sent.
LEMMA ReplyFits ==
  ASSUME TypeOK, Shape, KeepsUp, reply # None
  PROVE  IF patience = 0 THEN Size(reply) <= FifoSize ELSE patience * Size(reply) <= PacketSize
  <1>1. Len(sent) \in DOMAIN sent /\ sent[Len(sent)].address = reply
    BY DEF TypeOK, Shape
  <1> QED
    BY <1>1 DEF KeepsUp

LEMMA Products ==
  ASSUME NEW p \in Nat, NEW m \in Nat, NEW n \in Nat
  PROVE  /\ p * m \in Nat /\ p * (m + 1) = p * m + p
         /\ m <= n => p * m <= p * n
         /\ p > 0 /\ p * m <= p * n => m <= n
  <1>1. p * m \in Nat /\ p * (m + 1) = p * m + p
    OBVIOUS
  <1>2. ASSUME m <= n PROVE p * m <= p * n
    BY <1>2
  <1>3. ASSUME p > 0, p * m <= p * n, ~(m <= n) PROVE FALSE
    <2>1. n + 1 <= m
      BY <1>3
    <2>2. p * (n + 1) <= p * m
      BY <2>1
    <2>3. p * (n + 1) = p * n + p /\ p * n \in Nat /\ p * m \in Nat
      OBVIOUS
    <2> QED
      BY <1>3, <2>2, <2>3
  <1> QED
    BY <1>1, <1>2, <1>3

\* With k bytes of a reply of s pushed, u replies ended and l bytes in the FIFO.
LEMMA NextByteFits ==
  ASSUME NEW p \in Nat, p > 0, NEW u \in Nat, u < p, NEW pkt \in Nat, NEW l \in Nat,
         NEW k \in Nat, NEW s \in Nat, k < s, p * s <= pkt, p * l <= u * pkt + p * k
  PROVE  l < pkt
  <1>1. p * (k + 1) <= p * s /\ p * (k + 1) = p * k + p /\ p * k \in Nat
    BY Products
  <1>2. (u + 1) * pkt <= p * pkt
    <2>1. pkt * (u + 1) <= pkt * p
      BY Products
    <2> QED
      BY <2>1
  <1>3. (u + 1) * pkt = u * pkt + pkt /\ u * pkt \in Nat /\ p * pkt \in Nat
    OBVIOUS
  <1>4. p * l \in Nat /\ p * l < p * pkt
    <2>1. p * l \in Nat
      OBVIOUS
    <2> QED
      BY <1>1, <1>2, <1>3, <2>1
  <1>5. ASSUME pkt <= l PROVE FALSE
    <2>1. p * pkt <= p * l
      BY <1>5, Products
    <2> QED
      BY <1>3, <1>4, <2>1
  <1> QED
    BY <1>5

\* What ended replies leave, when one more has ended.
LEMMA ReplyEnded ==
  ASSUME NEW p \in Nat, p > 0, NEW u \in Nat, u < p, NEW pkt \in Nat, NEW l \in Nat,
         NEW s \in Nat, p * s <= pkt, p * l <= u * pkt + p * s
  PROVE  p * l <= (u + 1) * pkt /\ l <= pkt
  <1>1. (u + 1) * pkt = u * pkt + pkt /\ u * pkt \in Nat /\ p * l \in Nat /\ p * s \in Nat
    OBVIOUS
  <1>2. p * l <= (u + 1) * pkt
    BY <1>1
  <1>3. pkt * (u + 1) <= pkt * p
    BY Products
  <1>4. (u + 1) * pkt <= p * pkt /\ p * pkt \in Nat /\ (u + 1) * pkt \in Nat
    BY <1>3
  <1>5. p * l <= p * pkt
    BY <1>1, <1>2, <1>4
  <1> QED
    BY <1>2, <1>5, Products

-----------------------------------------------------------------------------
(* The steps of send_harp_reply().                                         *)

\* A byte of a reply is pushed, the last of them with a flush.
LEMMA Written ==
  ASSUME IInv, reply # None, index <= Size(reply), NEW byte \in Byte,
         usb' \in {tud_cdc_write_char(usb, byte),
                   tud_cdc_write_flush(tud_cdc_write_char(usb, byte))},
         cut' = (cut \/ ~HasRoom(usb)), index' = index + 1,
         UNCHANGED <<reply, sent, patience, unpolled>>
  PROVE  /\ UsbOK(usb') /\ index' \in 1 .. Size(reply) + 1 /\ cut' \in BOOLEAN
         /\ usb'.endpoint = "free" => Len(usb'.fifo) < PacketSize
         /\ cut' => Len(usb'.fifo) = FifoSize /\ usb'.endpoint # "free"
         /\ cut => usb' = usb
         /\ KeepsUp' => Room'
  <1> DEFINE w == tud_cdc_write_char(usb, byte)
  <1>0. /\ TypeOK /\ Shape /\ UsbOK(usb) /\ index \in Nat /\ index >= 1
        /\ Len(usb.fifo) \in Nat /\ Len(usb.fifo) <= FifoSize
        /\ reply \in Address /\ Size(reply) \in Nat
        /\ unpolled \in Nat /\ patience \in Nat
    BY Types, Sizes DEF IInv
  <1>1. /\ UsbOK(w) /\ Len(w.fifo) <= Len(usb.fifo) + 1
        /\ w.endpoint = "free" => Len(w.fifo) < PacketSize
        /\ ~HasRoom(usb) /\ usb.endpoint # "free" => w = usb
    BY <1>0, WriteFacts
  <1>2. /\ UsbOK(tud_cdc_write_flush(w)) /\ Len(tud_cdc_write_flush(w).fifo) <= Len(w.fifo)
        /\ w.endpoint # "free" => tud_cdc_write_flush(w) = w
        /\ tud_cdc_write_flush(w).endpoint = "free" => Len(tud_cdc_write_flush(w).fifo) = 0
    BY <1>1, FlushFacts
  <1> HIDE DEF w
  <1>3. usb' = w \/ usb' = tud_cdc_write_flush(w)
    BY DEF w
  <1>4. UsbOK(usb') /\ (usb'.endpoint = "free" => Len(usb'.fifo) < PacketSize)
    BY <1>1, <1>2, <1>3, Sizes
  <1>5. Len(usb'.fifo) <= Len(usb.fifo) + 1
    <2>1. Len(w.fifo) \in Nat /\ Len(tud_cdc_write_flush(w).fifo) \in Nat
      BY <1>1, <1>2 DEF UsbOK
    <2> QED
      BY <1>0, <1>1, <1>2, <1>3, <2>1
  <1>6. ~HasRoom(usb) => Len(usb.fifo) = FifoSize /\ usb.endpoint # "free" /\ usb' = usb
    <2>1. ~HasRoom(usb) => Len(usb.fifo) = FifoSize /\ usb.endpoint # "free"
      BY <1>0, Sizes DEF HasRoom, Shape
    <2> QED
      BY <1>1, <1>2, <1>3, <2>1
  <1>7. cut => ~HasRoom(usb)
    BY <1>0, Sizes DEF HasRoom, Shape
  <1>8. KeepsUp' => Room'
    <2> SUFFICES ASSUME KeepsUp' PROVE Room'
      OBVIOUS
    <2>1. KeepsUp /\ Room
      BY KeepsUpSame DEF IInv
    <2>2. Pushed = index - 1 /\ Pushed' = index /\ Pushed \in Nat
      BY <1>0 DEF Pushed
    <2>3. Len(usb'.fifo) \in Nat
      BY <1>4 DEF UsbOK
    <2>4. CASE patience = 0
      <3>1. Len(usb.fifo) <= index - 1
        BY <2>1, <2>2, <2>4 DEF Room
      <3>2. Size(reply) <= FifoSize
        BY <1>0, <2>1, <2>4, ReplyFits
      <3>3. HasRoom(usb)
        BY <1>0, <3>1, <3>2, Sizes DEF HasRoom
      <3>4. Len(usb'.fifo) <= Pushed'
        BY <1>0, <1>5, <2>2, <2>3, <3>1
      <3>5. ~cut' /\ patience' = 0
        BY <2>1, <2>4, <3>3 DEF Room
      <3> QED
        BY <3>4, <3>5 DEF Room
    <2>5. CASE patience > 0
      <3> DEFINE l == Len(usb.fifo)
                 k == index - 1
                 n == Len(usb'.fifo)
      <3>1. /\ patience * l <= unpolled * PacketSize + patience * k /\ unpolled < patience
            /\ k \in Nat /\ l \in Nat /\ n \in Nat /\ n <= l + 1
        BY <1>0, <1>5, <2>1, <2>2, <2>3, <2>5 DEF Room
      <3>2. patience * Size(reply) <= PacketSize
        BY <1>0, <2>1, <2>5, ReplyFits
      <3>3. k < Size(reply)
        BY <1>0
      <3> HIDE DEF l, k, n
      <3>4. l < PacketSize
        BY <1>0, <2>5, <3>1, <3>2, <3>3, NextByteFits, Sizes
      <3>5. HasRoom(usb)
        BY <1>0, <3>1, <3>4, Sizes DEF HasRoom, l
      <3>6. patience * n <= unpolled * PacketSize + patience * (k + 1)
        <4>1. /\ patience * n <= patience * (l + 1) /\ patience * (l + 1) = patience * l + patience
              /\ patience * (k + 1) = patience * k + patience
              /\ patience * n \in Nat /\ patience * l \in Nat /\ patience * k \in Nat
          BY <1>0, <3>1, Products
        <4>2. unpolled * PacketSize \in Nat
          BY <1>0, Sizes
        <4> QED
          BY <1>0, <3>1, <4>1, <4>2
      <3>7. k + 1 = Pushed'
        BY <1>0, <2>2 DEF k
      <3>8. ~cut' /\ patience' = patience /\ unpolled' = unpolled
        BY <2>1, <3>5 DEF Room
      <3>9. patience' * Len(usb'.fifo) <= unpolled' * PacketSize + patience' * Pushed'
        BY <3>6, <3>7, <3>8 DEF n
      <3>10. unpolled' < patience'
        BY <3>1, <3>8
      <3>11. patience' # 0
        BY <2>5, <3>8
      <3>12. unpolled' <= patience'
        BY <1>0, <3>8, <3>10
      <3> QED
        BY <3>8, <3>9, <3>10, <3>11, <3>12 DEF Room
    <2> QED
      BY <1>0, <2>4, <2>5
  <1>9. index' \in 1 .. Size(reply) + 1 /\ cut' \in BOOLEAN
    BY <1>0 DEF TypeOK
  <1> QED
    BY <1>4, <1>6, <1>7, <1>8, <1>9

LEMMA UsbType ==
  ASSUME UsbOK(usb')
  PROVE  /\ usb' \in [fifo : Seq(Byte), packet : Seq(Byte), endpoint : Endpoint]
         /\ Len(usb'.fifo) <= FifoSize /\ Len(usb'.packet) <= PacketSize
  BY DEF UsbOK

\* Every kind of byte.
LEMMA PushKeeps ==
  ASSUME IInv, PushHeaderByte \/ PushPayloadByte \/ PushChecksum
  PROVE  IInv' /\ (cut => usb' = usb)
  <1>0. /\ TypeOK /\ Shape /\ reply # None /\ reply \in Address
        /\ index \in Nat /\ index <= Size(reply)
        /\ UNCHANGED <<regs, reply, stamp, stream, got, sent, patience, unpolled>>
        /\ index' = index + 1 /\ cut' = (cut \/ ~HasRoom(usb))
    <2>1. reply # None /\ reply \in Address /\ index \in Nat
      BY Types DEF IInv, Shape, PushHeaderByte, PushPayloadByte, PushChecksum
    <2>2. index <= Size(reply)
      <3>1. CASE PushHeaderByte
        BY <2>1, <3>1, Sizes DEF PushHeaderByte
      <3>2. CASE PushPayloadByte
        BY <2>1, <3>2, Sizes DEF PushPayloadByte, IInv, Shape
      <3>3. CASE PushChecksum
        BY <2>1, <3>3, Sizes DEF PushChecksum
      <3> QED
        BY <3>1, <3>2, <3>3
    <2> QED
      BY <2>1, <2>2 DEF IInv, PushHeaderByte, PushPayloadByte, PushChecksum, Write, pc
  <1>1. \E byte \in Byte :
          usb' \in {tud_cdc_write_char(usb, byte),
                    tud_cdc_write_flush(tud_cdc_write_char(usb, byte))}
    <2>1. ByteNow \in Byte /\ checksum \in Byte
      BY <1>0, ByteNowType DEF TypeOK
    <2>2. CASE PushHeaderByte \/ PushPayloadByte
      BY <2>1, <2>2 DEF PushHeaderByte, PushPayloadByte, Write
    <2>3. CASE PushChecksum
      BY <2>1, <2>3 DEF PushChecksum, Flushed
    <2> QED
      BY <2>2, <2>3
  <1>2. PICK byte \in Byte : usb' \in {tud_cdc_write_char(usb, byte),
                                       tud_cdc_write_flush(tud_cdc_write_char(usb, byte))}
    BY <1>1
  <1>3. /\ UsbOK(usb') /\ index' \in 1 .. Size(reply) + 1 /\ cut' \in BOOLEAN
        /\ usb'.endpoint = "free" => Len(usb'.fifo) < PacketSize
        /\ cut' => Len(usb'.fifo) = FifoSize /\ usb'.endpoint # "free"
        /\ cut => usb' = usb
        /\ KeepsUp' => Room'
    BY <1>0, <1>2, Written
  <1>4. checksum' \in Byte
    <2>1. CASE PushHeaderByte
      <3>1. checksum + ByteNow \in Nat
        <4>1. checksum \in Byte /\ ByteNow \in Byte
          BY <1>0, ByteNowType DEF TypeOK
        <4> QED
          BY <4>1, Sizes DEF Byte
      <3> QED
        BY <2>1, <3>1, ByteMod DEF PushHeaderByte, AddToChecksum
    <2>2. CASE PushPayloadByte \/ PushChecksum
      BY <1>0, <2>2 DEF PushPayloadByte, PushChecksum, TypeOK
    <2> QED
      BY <2>1, <2>2
  <1>5. summed' = FALSE
    <2>1. CASE PushHeaderByte
      <3>1. ~summed
        BY <1>0, <2>1, Sizes DEF PushHeaderByte, Shape
      <3> QED
        BY <1>0, <2>1, <3>1 DEF PushHeaderByte, TypeOK
    <2>2. CASE PushPayloadByte
      BY <2>2 DEF PushPayloadByte
    <2>3. CASE PushChecksum
      <3>1. ~summed
        BY <1>0, <2>3, Sizes DEF PushChecksum, Shape
      <3> QED
        BY <1>0, <2>3, <3>1 DEF PushChecksum, TypeOK
    <2> QED
      BY <2>1, <2>2, <2>3
  <1>6. TypeOK'
    <2>1. index' \in Nat
      BY <1>0
    <2> QED
      BY <1>0, <1>3, <1>4, <1>5, <2>1, UsbType DEF TypeOK
  <1>7. Shape'
    BY <1>0, <1>3, <1>5 DEF Shape
  <1> QED
    BY <1>3, <1>6, <1>7 DEF IInv

LEMMA SumKeeps ==
  ASSUME IInv, SumPayloadByte
  PROVE  IInv'
  <1>0. /\ TypeOK /\ Shape /\ reply # None /\ reply \in Address /\ index \in Nat
        /\ index \in HeaderSize + StampSize + 1 .. Body(reply)
        /\ UNCHANGED <<regs, reply, index, stamp, usb, stream, got, sent, cut, patience, unpolled>>
        /\ summed' = TRUE
    BY Types DEF IInv, SumPayloadByte, pc
  <1>1. checksum' \in Byte
    <2>1. checksum \in Byte /\ ByteNow \in Byte
      BY <1>0, ByteNowType DEF TypeOK
    <2>2. checksum + ByteNow \in Nat
      BY <2>1, Sizes DEF Byte
    <2> QED
      BY <2>2, ByteMod DEF SumPayloadByte, AddToChecksum
  <1>2. TypeOK'
    BY <1>0, <1>1 DEF TypeOK
  <1>3. index > HeaderSize + StampSize /\ index <= Body(reply)
    BY <1>0, Sizes
  <1>4. Shape'
    BY <1>0, <1>3 DEF Shape
  <1>5. KeepsUp' => Room'
    BY <1>0, KeepsUpSame DEF IInv, Room, Pushed
  <1> QED
    BY <1>2, <1>4, <1>5 DEF IInv

LEMMA BeginKeeps ==
  ASSUME IInv, NEW a \in Address, NEW t \in Stamps, BeginReply(a, t)
  PROVE  IInv'
  <1> DEFINE r == [address |-> a, stamp |-> t, data |-> regs[a], changed |-> FALSE]
             R == [address : Address, stamp : Stamps, data : Contents, changed : BOOLEAN]
  <1>0. /\ TypeOK /\ Shape /\ reply = None /\ MayReply
        /\ reply' = a /\ index' = 1 /\ summed' = FALSE /\ checksum' = 0 /\ stamp' = t
        /\ sent' = Append(sent, r) /\ cut' = FALSE
        /\ UNCHANGED <<regs, usb, stream, got, patience, unpolled>>
    BY DEF IInv, BeginReply, pc
  <1>1. /\ sent' \in Seq(R) /\ Len(sent') = Len(sent) + 1 /\ sent'[Len(sent')] = r
        /\ \A i \in DOMAIN sent : i \in DOMAIN sent' /\ sent'[i] = sent[i]
    <2>1. r \in R /\ sent \in Seq(R)
      BY <1>0 DEF TypeOK
    <2> HIDE DEF r, R
    <2> QED
      BY <1>0, <2>1
  <1>2. TypeOK'
    <2>1. 1 \in 1 .. Size(a) + 1 /\ 0 \in Byte /\ a # None
      BY Sizes DEF Byte
    <2>2. sent' # <<>>
      BY <1>0, <1>1 DEF TypeOK
    <2> QED
      BY <1>0, <1>1, <2>1, <2>2 DEF TypeOK
  <1>3. Shape'
    BY <1>0, <1>1 DEF Shape
  <1>4. ASSUME KeepsUp' PROVE Room'
    <2>1. KeepsUp
      BY <1>0, <1>1, <1>4 DEF KeepsUp
    <2>2. Room /\ Pushed = 0 /\ Pushed' = 0
      <3>1. a # None
        BY Sizes
      <3> QED
        BY <1>0, <2>1, <3>1 DEF IInv, Pushed
    <2>3. CASE patience = 0
      BY <1>0, <2>2, <2>3 DEF MayReply, NothingPending, Room
    <2>4. CASE patience # 0
      BY <1>0, <2>2, <2>4 DEF MayReply, Room
    <2> QED
      BY <2>3, <2>4
  <1> QED
    BY <1>2, <1>3, <1>4 DEF IInv

\* tud_task() at the end of a reply and in the main loop.
LEMMA TaskKeeps ==
  ASSUME IInv, EndReply \/ TudTask
  PROVE  IInv' /\ Held(usb') <= Held(usb)
  <1>0. /\ TypeOK /\ Shape /\ UsbOK(usb) /\ reply' = None /\ cut' = cut
        /\ usb' = tud_task(usb)
        /\ UNCHANGED <<regs, index, summed, checksum, stamp, stream, got, sent, patience>>
        /\ Len(usb.fifo) \in Nat /\ unpolled \in Nat /\ patience \in Nat /\ index \in Nat
    BY Types DEF IInv, EndReply, Polled, TudTask, sending, pc
  <1>1. /\ UsbOK(usb') /\ Held(usb') <= Held(usb)
        /\ usb.endpoint # "taken" => usb' = usb
        /\ usb.endpoint = "taken" /\ usb'.endpoint = "free" => Len(usb'.fifo) = 0
        /\ usb.endpoint = "taken" /\ Len(usb.fifo) <= PacketSize => Len(usb'.fifo) = 0
    BY <1>0, TaskFacts
  <1>2. unpolled' = IF usb.endpoint = "taken" THEN 0 ELSE unpolled + 1
    BY DEF EndReply, TudTask
  <1>3. TypeOK'
    <2>1. unpolled' \in Nat
      BY <1>0, <1>2
    <2> QED
      BY <1>0, <1>1, <2>1, UsbType DEF TypeOK
  <1>4. summed' = FALSE
    <2>1. ~summed
      <3>1. CASE EndReply
        <4>1. reply \in Address /\ index = Size(reply) + 1
          BY <1>0, <3>1, Types DEF EndReply
        <4> QED
          BY <1>0, <4>1, Sizes DEF Shape
      <3>2. CASE TudTask
        BY <1>0, <3>2 DEF TudTask, Shape
      <3> QED
        BY <3>1, <3>2
    <2> QED
      BY <1>0, <2>1 DEF TypeOK
  <1>5. Shape'
    BY <1>0, <1>1, <1>4, Sizes DEF Shape
  <1>6. ASSUME KeepsUp' PROVE Room'
    <2>1. KeepsUp /\ Room /\ Pushed' = 0
      BY <1>0, <1>6, KeepsUpSame DEF IInv, Pushed
    <2>2. CASE patience = 0
      BY <1>0, <2>1, <2>2 DEF Room
    <2>3. CASE patience > 0
      <3>1. /\ patience * Len(usb.fifo) <= unpolled * PacketSize + patience * Pushed
            /\ unpolled <= patience /\ (reply # None => unpolled < patience) /\ ~cut
        BY <2>1, <2>3 DEF Room
      <3>2. /\ Len(usb.fifo) <= PacketSize
            /\ reply # None => patience * Len(usb.fifo) <= (unpolled + 1) * PacketSize
        <4>1. CASE reply = None
          <5>1. Pushed = 0
            BY <4>1 DEF Pushed
          <5>2. patience * Len(usb.fifo) <= unpolled * PacketSize
            <6>1. /\ patience * 0 = 0 /\ unpolled * PacketSize \in Nat
              BY <1>0, Sizes
            <6> QED
              BY <3>1, <5>1, <6>1
          <5>3. PacketSize * unpolled <= PacketSize * patience
            BY <1>0, <3>1, Products, Sizes
          <5>4. /\ patience * Len(usb.fifo) \in Nat /\ unpolled * PacketSize \in Nat
                /\ patience * PacketSize \in Nat
                /\ unpolled * PacketSize <= patience * PacketSize
            BY <1>0, <5>3, Products, Sizes
          <5>5. patience * Len(usb.fifo) <= patience * PacketSize
            BY <5>2, <5>4
          <5> QED
            BY <1>0, <2>3, <4>1, <5>5, Products, Sizes
        <4>2. CASE reply # None
          <5>1. Pushed = Size(reply) /\ Size(reply) \in Nat
            <6>1. EndReply /\ reply \in Address
              BY <1>0, <4>2, Types DEF TudTask
            <6> QED
              BY <4>2, <6>1, Sizes DEF EndReply, Pushed
          <5>2. patience * Size(reply) <= PacketSize
            BY <1>0, <2>1, <2>3, <4>2, ReplyFits
          <5> QED
            BY <1>0, <2>3, <3>1, <4>2, <5>1, <5>2, ReplyEnded, Sizes
        <4> QED
          BY <4>1, <4>2
      <3>3. CASE usb.endpoint = "taken"
        <4>1. Len(usb'.fifo) = 0 /\ unpolled' = 0
          BY <1>1, <1>2, <3>2, <3>3
        <4>2. patience * 0 = 0 /\ 0 * PacketSize = 0
          BY <1>0, Sizes
        <4>3. patience' * Len(usb'.fifo) <= unpolled' * PacketSize + patience' * Pushed'
          BY <1>0, <2>1, <4>1, <4>2
        <4> QED
          BY <1>0, <2>3, <3>1, <4>1, <4>3 DEF Room
      <3>4. CASE usb.endpoint # "taken"
        <4>1. reply # None /\ usb' = usb /\ unpolled' = unpolled + 1
          BY <1>1, <1>2, <3>4 DEF EndReply, TudTask
        <4>2. unpolled' <= patience'
          BY <1>0, <3>1, <4>1
        <4>3. patience * 0 = 0 /\ (unpolled + 1) * PacketSize \in Nat
          BY <1>0, Sizes
        <4>4. patience' * Len(usb'.fifo) <= unpolled' * PacketSize + patience' * Pushed'
          BY <1>0, <2>1, <3>2, <4>1, <4>3
        <4> QED
          BY <1>0, <2>3, <3>1, <4>2, <4>4 DEF Room
      <3> QED
        BY <3>3, <3>4
    <2> QED
      BY <1>0, <2>2, <2>3
  <1> QED
    BY <1>1, <1>3, <1>5, <1>6 DEF IInv

-----------------------------------------------------------------------------
(* The interrupt of the application, and the PC.                           *)

LEMMA LastOf ==
  ASSUME NEW S, NEW s \in Seq(S), s # <<>>
  PROVE  Len(s) \in DOMAIN s /\ s[Len(s)] \in S
  OBVIOUS

LEMMA InterruptKeeps ==
  ASSUME IInv, NEW a \in Shared, NEW v \in Contents, AppInterrupt(a, v)
  PROVE  IInv'
  <1> DEFINE R == [address : Address, stamp : Stamps, data : Contents, changed : BOOLEAN]
  <1>0. /\ TypeOK /\ Shape /\ regs' = [regs EXCEPT ![a] = v] /\ a \in Address
        /\ sent' = IF reply = a THEN [sent EXCEPT ![Len(sent)].changed = TRUE] ELSE sent
        /\ UNCHANGED <<reply, index, summed, checksum, stamp, usb, stream, got, cut,
                       patience, unpolled>>
    BY TransmitAssumption DEF IInv, AppInterrupt, sending, pc
  <1>1. /\ sent' \in Seq(R) /\ Len(sent') = Len(sent) /\ DOMAIN sent' = DOMAIN sent
        /\ \A i \in DOMAIN sent : sent'[i].address = sent[i].address
    <2>1. sent \in Seq(R)
      BY <1>0 DEF TypeOK
    <2>2. CASE reply # a
      BY <1>0, <2>1, <2>2
    <2>3. CASE reply = a
      <3>1. sent # <<>>
        BY <1>0, <2>3, Sizes DEF TypeOK
      <3>2. Len(sent) \in DOMAIN sent /\ sent[Len(sent)] \in R
        BY <2>1, <3>1, LastOf
      <3>3. /\ [sent[Len(sent)] EXCEPT !.changed = TRUE] \in R
            /\ [sent[Len(sent)] EXCEPT !.changed = TRUE].address = sent[Len(sent)].address
        BY <3>2
      <3>4. sent' = [sent EXCEPT ![Len(sent)] = [sent[Len(sent)] EXCEPT !.changed = TRUE]]
        BY <1>0, <2>3
      <3> HIDE DEF R
      <3> QED
        BY <2>1, <3>2, <3>3, <3>4
    <2> QED
      BY <2>2, <2>3
  <1>2. TypeOK'
    <2>1. regs' \in [Address -> Contents]
      BY <1>0 DEF TypeOK
    <2>2. reply # None => sent' # <<>>
      <3>1. reply # None => Len(sent) # 0
        BY <1>0 DEF TypeOK
      <3> QED
        BY <1>1, <3>1
    <2> QED
      BY <1>0, <1>1, <2>1, <2>2 DEF TypeOK
  <1>3. Shape'
    <2>1. reply # None => Len(sent) \in DOMAIN sent
      BY <1>0 DEF TypeOK
    <2> QED
      BY <1>0, <1>1, <2>1 DEF Shape
  <1>4. KeepsUp' => KeepsUp
    BY <1>0, <1>1 DEF KeepsUp
  <1>5. KeepsUp' => Room'
    BY <1>0, <1>4 DEF IInv, Room, Pushed
  <1> QED
    BY <1>2, <1>3, <1>5 DEF IInv

LEMMA PcKeeps ==
  ASSUME IInv, Pc
  PROVE  IInv' /\ Held(usb') = Held(usb)
  <1>0. /\ TypeOK /\ Shape /\ UsbOK(usb) /\ stream \in Seq(Byte) /\ got \in Seq(Seq(Byte))
        /\ usb.packet \in Seq(Byte)
        /\ usb \in [fifo : Seq(Byte), packet : Seq(Byte), endpoint : Endpoint]
        /\ UNCHANGED <<regs, reply, index, summed, checksum, stamp, sent, cut, patience, unpolled>>
    BY Types DEF IInv, TypeOK, Pc, PcPolls, PcTakesMessage, sending
  <1>1. /\ UsbOK(usb') /\ usb'.fifo = usb.fifo /\ usb'.packet = usb.packet
        /\ usb'.endpoint = "free" <=> usb.endpoint = "free"
        /\ stream' \in Seq(Byte) /\ got' \in Seq(Seq(Byte))
    <2>1. CASE PcPolls
      <3>1. usb' = [usb EXCEPT !.endpoint = "taken"] /\ usb.endpoint = "armed"
        BY <2>1 DEF PcPolls
      <3>2. /\ usb' \in [fifo : Seq(Byte), packet : Seq(Byte), endpoint : Endpoint]
            /\ usb'.fifo = usb.fifo /\ usb'.packet = usb.packet /\ usb'.endpoint = "taken"
        BY <1>0, <3>1 DEF Endpoint
      <3>3. UsbOK(usb')
        BY <1>0, <3>2 DEF UsbOK
      <3>4. stream' \in Seq(Byte) /\ got' = got
        BY <1>0, <2>1 DEF PcPolls
      <3> QED
        BY <1>0, <3>1, <3>2, <3>3, <3>4
    <2>2. CASE PcTakesMessage
      <3>1. /\ Len(stream) \in Nat /\ 2 \in 1 .. Len(stream) /\ Len(stream) >= stream[2] + 2
        BY <1>0, <2>2 DEF PcTakesMessage, HasMessage
      <3>2. stream[2] \in Nat
        BY <1>0, <3>1, Sizes DEF Byte
      <3>3. /\ SubSeq(stream, 1, stream[2] + 2) \in Seq(Byte)
            /\ SubSeq(stream, stream[2] + 3, Len(stream)) \in Seq(Byte)
        BY <1>0, <3>1, <3>2
      <3> QED
        BY <1>0, <2>2, <3>3 DEF PcTakesMessage
    <2> QED
      BY <2>1, <2>2 DEF Pc
  <1>2. TypeOK'
    BY <1>0, <1>1, UsbType DEF TypeOK
  <1>3. Shape'
    BY <1>0, <1>1 DEF Shape
  <1>4. KeepsUp' => Room'
    BY <1>0, <1>1, KeepsUpSame DEF IInv, Room, Pushed
  <1>5. Held(usb') = Held(usb)
    BY <1>1 DEF Held
  <1> QED
    BY <1>2, <1>3, <1>4, <1>5 DEF IInv

-----------------------------------------------------------------------------
(* The theorems.                                                           *)

LEMMA StutterKeeps ==
  ASSUME IInv, UNCHANGED vars
  PROVE  IInv'
  <1>1. /\ UNCHANGED <<regs, reply, index, summed, checksum, stamp, usb>>
        /\ UNCHANGED <<stream, got, sent, cut, patience, unpolled>>
    BY DEF vars, sending, pc
  <1>2. TypeOK'
    BY <1>1 DEF IInv, TypeOK
  <1>3. Shape'
    BY <1>1 DEF IInv, Shape
  <1>4. KeepsUp' => Room'
    BY <1>1, KeepsUpSame DEF IInv, Room, Pushed
  <1> QED
    BY <1>2, <1>3, <1>4 DEF IInv

LEMMA StepKeeps ==
  ASSUME IInv, [Next]_vars
  PROVE  IInv'
  <1>1. CASE Device
    <2>1. CASE PushHeaderByte \/ PushPayloadByte \/ PushChecksum
      BY <2>1, PushKeeps
    <2>2. CASE SumPayloadByte
      BY <2>2, SumKeeps
    <2>3. CASE EndReply \/ TudTask
      BY <2>3, TaskKeeps
    <2> QED
      BY <1>1, <2>1, <2>2, <2>3 DEF Device
  <1>2. CASE Pc
    BY <1>2, PcKeeps
  <1>3. CASE \E a \in Address, t \in Stamps : BeginReply(a, t)
    BY <1>3, BeginKeeps
  <1>4. CASE \E a \in Shared, v \in Contents : AppInterrupt(a, v)
    BY <1>4, InterruptKeeps
  <1>5. CASE UNCHANGED vars
    BY <1>5, StutterKeeps
  <1> QED
    BY <1>1, <1>2, <1>3, <1>4, <1>5 DEF Next

THEOREM Inductive == Spec => []IInv
  <1>1. Init => IInv
    BY InitInv
  <1>2. IInv /\ [Next]_vars => IInv'
    BY StepKeeps
  <1> QED
    BY <1>1, <1>2, PTL DEF Spec

\* Every variable keeps its type: the checksum stays a uint8_t, the FIFO and the
\* packet keep to their sizes, a reply is never written past its checksum.
THEOREM TypeCorrect == Spec => []TypeOK
  <1>1. IInv => TypeOK
    BY DEF IInv
  <1> QED
    BY <1>1, Inductive, PTL

\* A PC that takes a packet before as many replies have ended as fit in one, or
\* that waits for each reply, loses no byte of any, however many replies are
\* sent in a row.
THEOREM NoneCutCorrect == Spec => []NoneCut
  <1>1. IInv => NoneCut
    BY DEF IInv, NoneCut, Room
  <1> QED
    BY <1>1, Inductive, PTL

\* A step after which a byte of the reply has been lost adds nothing to what TinyUSB
\* holds, if one had been lost before it.
LEMMA LossStep ==
  ASSUME IInv, [Next]_vars, cut, cut'
  PROVE  Held(usb') <= Held(usb)
  <1>0. Len(usb.fifo) \in Nat /\ Len(usb.packet) \in Nat
    BY Types DEF IInv
  <1>1. CASE usb' = usb
    BY <1>0, <1>1 DEF Held
  <1>2. CASE PushHeaderByte \/ PushPayloadByte \/ PushChecksum
    BY <1>1, <1>2, PushKeeps
  <1>3. CASE EndReply \/ TudTask
    BY <1>3, TaskKeeps
  <1>4. CASE Pc
    <2>1. Held(usb') = Held(usb)
      BY <1>4, PcKeeps
    <2>2. Held(usb) \in Nat
      BY <1>0, SumBound DEF Held
    <2> QED
      BY <2>1, <2>2
  <1>5. CASE SumPayloadByte
    BY <1>1, <1>5 DEF SumPayloadByte
  <1>6. ~(\E a \in Address, t \in Stamps : BeginReply(a, t))
    BY DEF BeginReply
  <1>7. CASE \E a \in Shared, v \in Contents : AppInterrupt(a, v)
    BY <1>1, <1>7 DEF AppInterrupt
  <1>8. CASE UNCHANGED vars
    BY <1>1, <1>8 DEF vars
  <1> QED
    BY <1>2, <1>3, <1>4, <1>5, <1>6, <1>7, <1>8 DEF Next, Device

\* However slow the PC and however long the replies, what is lost of a reply is
\* its end: once a byte of it has been dropped, no later byte of it is sent.
THEOREM LossesAreTailsCorrect == Spec => LossesAreTails
  <1>1. IInv /\ [Next]_vars =>
          [cut /\ cut' =>
             Len(usb'.fifo) + Len(usb'.packet) <= Len(usb.fifo) + Len(usb.packet)]_vars
    BY LossStep DEF Held
  <1> QED
    BY <1>1, Inductive, PTL DEF Spec, LossesAreTails

-----------------------------------------------------------------------------
(* Sums and checksums.                                                     *)

LEMMA Least ==
  ASSUME NEW T, T \subseteq Nat, T # {}
  PROVE  \E m \in T : \A k \in T : ~(k < m)
  <1>1. PICK m \in T : \A k \in T : <<k, m>> \notin OpToRel(<, Nat)
    BY WFMin, NatLessThanWellFounded, Zenon
  <1>2. \A k \in T : k < m => <<k, m>> \in OpToRel(<, Nat)
    BY Zenon DEF OpToRel
  <1> QED
    BY <1>1, <1>2, Zenon

\* What holds of 0 and, with a number, of the next holds of all.
LEMMA Induction ==
  ASSUME NEW T, T \subseteq Nat, 0 \in T, \A n \in T : n + 1 \in T
  PROVE  T = Nat
  <1> SUFFICES ASSUME Nat \ T # {} PROVE FALSE
    OBVIOUS
  <1>1. Nat \ T \subseteq Nat
    OBVIOUS
  <1>2. PICK m \in Nat \ T : \A k \in Nat \ T : ~(k < m)
    BY <1>1, Least
  <1>3. m \in Nat /\ m # 0
    BY <1>2
  <1>4. m - 1 \in Nat /\ m - 1 < m /\ m = (m - 1) + 1
    BY <1>3
  <1>5. m - 1 \in T
    BY <1>2, <1>4
  <1> QED
    BY <1>2, <1>4, <1>5

Adds(g, n, s) == g = [i \in 0 .. n |-> IF i = 0 THEN 0 ELSE g[i - 1] + s[i]]

LEMMA AddsExists ==
  ASSUME NEW s, NEW n \in Nat
  PROVE  \E g : Adds(g, n, s)
  <1> DEFINE T == {k \in Nat : \E g : Adds(g, k, s)}
  <1>1. 0 \in T
    <2>1. Adds([i \in 0 .. 0 |-> 0], 0, s)
      BY DEF Adds
    <2> QED
      BY <2>1
  <1>2. ASSUME NEW k \in T PROVE k + 1 \in T
    <2>1. PICK g : Adds(g, k, s)
      BY <1>2
    <2> DEFINE h == [i \in 0 .. k + 1 |-> IF i = k + 1 THEN g[k] + s[k + 1] ELSE g[i]]
    <2>2. k \in Nat /\ k + 1 \in Nat
      OBVIOUS
    <2>3. ASSUME NEW i \in 0 .. k + 1
          PROVE  h[i] = IF i = 0 THEN 0 ELSE h[i - 1] + s[i]
      <3>1. CASE i = k + 1
        <4>1. h[i] = g[k] + s[k + 1] /\ h[k] = g[k] /\ i - 1 = k /\ i # 0
          BY <2>2, <3>1
        <4> QED
          BY <3>1, <4>1
      <3>2. CASE i # k + 1
        <4>1. i \in 0 .. k
          BY <2>2, <3>2
        <4>2. h[i] = g[i] /\ (i # 0 => h[i - 1] = g[i - 1])
          BY <2>2, <4>1
        <4>3. g[i] = IF i = 0 THEN 0 ELSE g[i - 1] + s[i]
          BY <2>1, <4>1 DEF Adds
        <4> QED
          BY <4>2, <4>3
      <3> QED
        BY <3>1, <3>2
    <2>4. h = [i \in 0 .. k + 1 |-> h[i]]
      OBVIOUS
    <2> HIDE DEF h
    <2>5. Adds(h, k + 1, s)
      BY <2>3, <2>4 DEF Adds
    <2> QED
      BY <2>2, <2>5
  <1> HIDE DEF T
  <1>3. T = Nat
    BY <1>1, <1>2, Induction DEF T
  <1> QED
    BY <1>3 DEF T

\* The sums are what their definition says they are.
LEMMA SumsFacts ==
  ASSUME NEW s \in Seq(Nat)
  PROVE  /\ Sums(s)[0] = 0
         /\ \A n \in 0 .. Len(s) : Sums(s)[n] \in Nat
         /\ \A n \in 1 .. Len(s) : Sums(s)[n] = Sums(s)[n - 1] + s[n]
  <1> DEFINE sum == CHOOSE g : Adds(g, Len(s), s)
             T == {n \in Nat : n <= Len(s) => sum[n] \in Nat}
  <1>1. Sums(s) = sum
    BY Zenon DEF Sums, Adds
  <1>2. Len(s) \in Nat
    OBVIOUS
  <1>3. Adds(sum, Len(s), s)
    BY <1>2, AddsExists, Zenon
  <1> HIDE DEF sum
  <1>4. \A n \in 0 .. Len(s) : sum[n] = IF n = 0 THEN 0 ELSE sum[n - 1] + s[n]
    BY <1>3 DEF Adds
  <1>5. sum[0] = 0
    BY <1>2, <1>4
  <1>6. \A n \in 1 .. Len(s) : sum[n] = sum[n - 1] + s[n]
    BY <1>4
  <1>7. 0 \in T
    BY <1>5
  <1>8. ASSUME NEW n \in T PROVE n + 1 \in T
    <2> SUFFICES ASSUME n + 1 <= Len(s) PROVE sum[n + 1] \in Nat
      OBVIOUS
    <2>1. n \in Nat /\ n + 1 \in 1 .. Len(s) /\ (n + 1) - 1 = n /\ n <= Len(s)
      BY <1>2
    <2>2. sum[n] \in Nat /\ s[n + 1] \in Nat
      BY <2>1
    <2>3. sum[n + 1] = sum[n] + s[n + 1]
      BY <1>6, <2>1
    <2> QED
      BY <2>2, <2>3
  <1>9. \A n \in 0 .. Len(s) : sum[n] \in Nat
    <2> HIDE DEF T
    <2>1. T = Nat
      BY <1>7, <1>8, Induction DEF T
    <2> QED
      BY <2>1 DEF T
  <1> QED
    BY <1>1, <1>5, <1>6, <1>9

\* The sum may be reduced to a byte with each addition.
LEMMA ModAdd ==
  ASSUME NEW m \in Nat \ {0}, NEW x \in Nat, NEW y \in Nat
  PROVE  ((x % m) + y) % m = (x + y) % m
  <1> DEFINE q == x \div m
             r == x % m
             k == (r + y) \div m
             z == (r + y) % m
             j == (x + y) \div m
             w == (x + y) % m
  <1>1. q \in Int /\ r \in 0 .. m - 1 /\ x = m * q + r
    OBVIOUS
  <1>2. r + y \in Nat
    BY <1>1
  <1>3. k \in Int /\ z \in 0 .. m - 1 /\ r + y = m * k + z
    BY <1>2
  <1>4. j \in Int /\ w \in 0 .. m - 1 /\ x + y = m * j + w
    OBVIOUS
  <1> HIDE DEF q, r, k, z, j, w
  <1>5. m * (j - q - k) = z - w
    BY <1>1, <1>3, <1>4
  <1>6. j - q - k < 1 /\ j - q - k > -1
    BY <1>1, <1>3, <1>4, <1>5
  <1>7. z = w
    BY <1>1, <1>3, <1>4, <1>5, <1>6
  <1> QED
    BY <1>7 DEF z, w, r

-----------------------------------------------------------------------------
(* What is under way to the PC.                                            *)

\* What TinyUSB still has to send, and with it what the PC has to cut up.
Waiting(u) == (IF u.endpoint = "armed" THEN u.packet ELSE <<>>) \o u.fifo
InFlight   == stream \o Waiting(usb)

LEMMA ConcatAppend ==
  ASSUME NEW S, NEW s \in Seq(S), NEW t \in Seq(S), NEW e \in S
  PROVE  s \o Append(t, e) = Append(s \o t, e)
  <1>1. /\ Append(t, e) = t \o <<e>> /\ <<e>> \in Seq(S) /\ s \o t \in Seq(S)
    BY AppendIsConcat, ConcatProperties
  <1>2. s \o (t \o <<e>>) = (s \o t) \o <<e>>
    BY <1>1, ConcatAssociative
  <1> QED
    BY <1>1, <1>2, AppendIsConcat

LEMMA WaitingType ==
  ASSUME NEW u, UsbOK(u)
  PROVE  /\ Waiting(u) \in Seq(Byte)
         /\ u.endpoint # "armed" => Waiting(u) = u.fifo
  <1>1. u.fifo \in Seq(Byte) /\ u.packet \in Seq(Byte) /\ <<>> \in Seq(Byte)
    BY DEF UsbOK
  <1> QED
    BY <1>1, ConcatProperties, ConcatEmptySeq DEF Waiting

\* Handing a packet to the endpoint neither loses nor moves a byte.
LEMMA FlushWaits ==
  ASSUME NEW u, UsbOK(u)
  PROVE  Waiting(tud_cdc_write_flush(u)) = Waiting(u)
  <1> DEFINE n == IF Len(u.fifo) < PacketSize THEN Len(u.fifo) ELSE PacketSize
             f == tud_cdc_write_flush(u)
  <1>1. u.fifo \in Seq(Byte) /\ Len(u.fifo) \in Nat
    BY DEF UsbOK
  <1>2. CASE u.endpoint # "free" \/ u.fifo = <<>>
    BY <1>2 DEF tud_cdc_write_flush
  <1>3. CASE ~(u.endpoint # "free" \/ u.fifo = <<>>)
    <2>1. f = [fifo     |-> SubSeq(u.fifo, n + 1, Len(u.fifo)),
               packet   |-> SubSeq(u.fifo, 1, n),
               endpoint |-> "armed"]
      BY <1>3 DEF tud_cdc_write_flush
    <2>2. n \in Nat /\ n <= Len(u.fifo)
      BY <1>1, Sizes
    <2> HIDE DEF n, f
    <2>3. 1 \in 1 .. Len(u.fifo) + 1 /\ n \in 1 - 1 .. Len(u.fifo) /\ Len(u.fifo) \in n .. Len(u.fifo)
      BY <1>1, <2>2
    <2>4. SubSeq(u.fifo, 1, n) \o SubSeq(u.fifo, n + 1, Len(u.fifo)) = SubSeq(u.fifo, 1, Len(u.fifo))
      BY <1>1, <2>3, ConcatAdjacentSubSeq
    <2>5. SubSeq(u.fifo, 1, Len(u.fifo)) = u.fifo
      BY <1>1, SubSeqFull
    <2>6. Waiting(f) = u.fifo
      BY <2>1, <2>4, <2>5 DEF Waiting
    <2>7. Waiting(u) = u.fifo
      BY <1>3, WaitingType
    <2> QED
      BY <2>6, <2>7 DEF f
  <1> QED
    BY <1>2, <1>3

\* A byte that the FIFO has room for goes to its end.
LEMMA WriteWaits ==
  ASSUME NEW u, UsbOK(u), HasRoom(u), NEW byte \in Byte
  PROVE  Waiting(tud_cdc_write_char(u, byte)) = Append(Waiting(u), byte)
  <1> DEFINE p == [u EXCEPT !.fifo = Append(@, byte)]
             front == IF u.endpoint = "armed" THEN u.packet ELSE <<>>
  <1>1. /\ u \in [fifo : Seq(Byte), packet : Seq(Byte), endpoint : Endpoint]
        /\ u.fifo \in Seq(Byte) /\ Len(u.fifo) \in Nat /\ front \in Seq(Byte)
        /\ Len(u.packet) <= PacketSize
    BY DEF UsbOK
  <1>2. /\ p \in [fifo : Seq(Byte), packet : Seq(Byte), endpoint : Endpoint]
        /\ p.fifo = Append(u.fifo, byte) /\ p.packet = u.packet /\ p.endpoint = u.endpoint
        /\ Len(p.fifo) = Len(u.fifo) + 1
    BY PushedFifo
  <1>3. tud_cdc_write_char(u, byte) \in {p, tud_cdc_write_flush(p)}
    BY DEF tud_cdc_write_char
  <1> HIDE DEF p, front
  <1>4. UsbOK(p)
    BY <1>1, <1>2, Sizes DEF UsbOK, HasRoom
  <1>5. Waiting(p) = front \o Append(u.fifo, byte) /\ Waiting(u) = front \o u.fifo
    BY <1>2 DEF Waiting, front
  <1>6. front \o Append(u.fifo, byte) = Append(front \o u.fifo, byte)
    BY <1>1, ConcatAppend
  <1> QED
    BY <1>3, <1>4, <1>5, <1>6, FlushWaits

LEMMA TaskWaits ==
  ASSUME NEW u, UsbOK(u)
  PROVE  Waiting(tud_task(u)) = Waiting(u)
  <1>1. CASE u.endpoint = "taken"
    <2> DEFINE v == [u EXCEPT !.endpoint = "free", !.packet = <<>>]
    <2>1. /\ u \in [fifo : Seq(Byte), packet : Seq(Byte), endpoint : Endpoint]
          /\ Len(u.fifo) <= FifoSize /\ <<>> \in Seq(Byte) /\ "free" \in Endpoint
      BY DEF UsbOK, Endpoint
    <2>2. /\ v \in [fifo : Seq(Byte), packet : Seq(Byte), endpoint : Endpoint]
          /\ v.fifo = u.fifo /\ v.packet = <<>> /\ v.endpoint = "free"
      BY <2>1
    <2>3. tud_task(u) = tud_cdc_write_flush(v)
      BY <1>1 DEF tud_task
    <2> HIDE DEF v
    <2>4. UsbOK(v)
      BY <2>1, <2>2, Sizes DEF UsbOK
    <2>5. Waiting(v) = u.fifo /\ Waiting(u) = u.fifo
      BY <1>1, <2>2, <2>4, WaitingType
    <2> QED
      BY <2>3, <2>4, <2>5, FlushWaits
  <1>2. CASE u.endpoint # "taken"
    BY <1>2 DEF tud_task
  <1> QED
    BY <1>1, <1>2

-----------------------------------------------------------------------------
(* What a reply should look like.                                          *)

Replies == [address : Address, stamp : Stamps, data : Contents, changed : BOOLEAN]

LEMMA BodyFacts ==
  ASSUME NEW r \in Replies
  PROVE  /\ r.address \in Address /\ BodyOf(r) \in Seq(Byte) /\ BodyOf(r) \in Seq(Nat)
         /\ Len(BodyOf(r)) = Body(r.address)
         /\ \A i \in 1 .. Body(r.address) :
              BodyOf(r)[i] = ByteOf(r.address, r.stamp, r.data, i)
  <1>1. /\ r.address \in Address /\ r.stamp \in Stamps /\ r.data \in Contents
        /\ Body(r.address) \in Nat
    BY Sizes DEF Replies
  <1>2. \A i \in 1 .. Body(r.address) : ByteOf(r.address, r.stamp, r.data, i) \in Byte
    BY <1>1, ByteOfType
  <1>3. BodyOf(r) \in [1 .. Body(r.address) -> Byte]
    BY <1>2 DEF BodyOf
  <1>4. BodyOf(r) \in Seq(Byte) /\ Len(BodyOf(r)) = Body(r.address)
    BY <1>1, <1>3
  <1>5. Byte \subseteq Nat
    BY Sizes DEF Byte
  <1>6. BodyOf(r) \in Seq(Nat)
    BY <1>4, <1>5, SeqMonotonic
  <1> QED
    BY <1>1, <1>4, <1>6 DEF BodyOf

\* The header of a reply, as the PC reads it.
LEMMA HeaderFacts ==
  ASSUME NEW a \in Address, NEW t \in Stamps, NEW v \in Contents
  PROVE  /\ ByteOf(a, t, v, 2) = RawLength(a) /\ ByteOf(a, t, v, 3) = a
         /\ Size(a) < ByteRange + 2 => RawLength(a) = Size(a) - 2
  <1>1. /\ HeaderSize \in Nat /\ StampSize \in Nat /\ 2 <= HeaderSize /\ 3 <= HeaderSize
        /\ NumBytes[a] \in Nat /\ ByteRange \in Nat \ {0}
        /\ Size(a) = HeaderSize + StampSize + NumBytes[a] + 1
    BY Sizes
  <1>2. \A i \in {2, 3} : /\ i \in 1 .. HeaderSize /\ i <= HeaderSize
                          /\ i \notin HeaderSize + 1 .. HeaderSize + StampSize
    BY <1>1
  <1>3. \A i \in {2, 3} : ByteOf(a, t, v, i) = Header(a)[i]
    BY <1>2 DEF ByteOf
  <1>4. Header(a)[2] = RawLength(a) /\ Header(a)[3] = a
    BY <1>2 DEF Header
  <1>5. ASSUME Size(a) < ByteRange + 2 PROVE RawLength(a) = Size(a) - 2
    <2>1. /\ NumBytes[a] + HeaderSize + StampSize - 1 = Size(a) - 2
          /\ Size(a) - 2 \in 0 .. ByteRange - 1
      BY <1>1, <1>5
    <2>2. (Size(a) - 2) % ByteRange = Size(a) - 2
      BY <1>1, <2>1
    <2> QED
      BY <2>1, <2>2 DEF RawLength
  <1> QED
    BY <1>3, <1>4, <1>5

LEMMA ExpectedFacts ==
  ASSUME NEW r \in Replies
  PROVE  /\ Expected(r) \in Seq(Byte) /\ Len(Expected(r)) = Size(r.address)
         /\ \A i \in 1 .. Body(r.address) :
              Expected(r)[i] = ByteOf(r.address, r.stamp, r.data, i)
         /\ Expected(r)[Size(r.address)] = Sums(BodyOf(r))[Body(r.address)] % ByteRange
         /\ Expected(r)[2] = RawLength(r.address) /\ Expected(r)[3] = r.address
         /\ 3 <= HeaderSize /\ HeaderSize + StampSize <= Body(r.address)
         /\ Size(r.address) \in Nat /\ 3 <= Size(r.address)
  <1> DEFINE last == Sums(BodyOf(r))[Body(r.address)] % ByteRange
  <1>1. /\ r.address \in Address /\ r.stamp \in Stamps /\ r.data \in Contents
        /\ Body(r.address) \in Nat /\ Size(r.address) = Body(r.address) + 1
        /\ HeaderSize \in Nat /\ 3 <= HeaderSize /\ HeaderSize + StampSize <= Body(r.address)
        /\ 3 <= Body(r.address)
    BY Sizes DEF Replies
  <1>2. last \in Byte
    <2>1. Sums(BodyOf(r))[Body(r.address)] \in Nat
      BY <1>1, BodyFacts, SumsFacts
    <2> QED
      BY <2>1, ByteMod
  <1>3. Expected(r) = Append(BodyOf(r), last)
    BY DEF Expected
  <1> HIDE DEF last
  <1>4. /\ Expected(r) \in Seq(Byte) /\ Len(Expected(r)) = Size(r.address)
        /\ \A i \in 1 .. Body(r.address) : Expected(r)[i] = BodyOf(r)[i]
        /\ Expected(r)[Size(r.address)] = last
    BY <1>1, <1>2, <1>3, BodyFacts, AppendProperties
  <1>5. 2 \in 1 .. Body(r.address) /\ 3 \in 1 .. Body(r.address)
    BY <1>1
  <1> QED
    BY <1>1, <1>4, <1>5, BodyFacts, HeaderFacts DEF last

\* Up to the payload, it does not depend on what the register holds.
LEMMA FrontFixed ==
  ASSUME NEW r \in Replies, NEW v \in Contents, NEW i \in Nat, i >= 1,
         i <= HeaderSize + StampSize
  PROVE  ByteOf(r.address, r.stamp, v, i) = Expected(r)[i]
  <1>1. i \in 1 .. Body(r.address)
    BY ExpectedFacts, BodyFacts, Sizes
  <1>2. Expected(r)[i] = ByteOf(r.address, r.stamp, r.data, i)
    BY <1>1, ExpectedFacts
  <1>3. i <= HeaderSize \/ i \in HeaderSize + 1 .. HeaderSize + StampSize
    BY Sizes
  <1>4. i <= HeaderSize => i \notin HeaderSize + 1 .. HeaderSize + StampSize
    BY Sizes
  <1> QED
    BY <1>2, <1>3, <1>4 DEF ByteOf

-----------------------------------------------------------------------------
(* The reply that is being sent.                                           *)

Last  == sent[Len(sent)]
Added == IF summed THEN index ELSE index - 1

\* It has the timestamp and, as long as no interrupt has changed that, the data it
\* began with, and its checksum is the sum of what has been added to it.
Sending ==
  reply # None =>
    /\ Last.stamp = stamp
    /\ ~Last.changed =>
         /\ Last.data = regs[reply]
         /\ index <= Size(reply) => checksum = Sums(BodyOf(Last))[Added] % ByteRange

LEMMA LastFacts ==
  ASSUME TypeOK, Shape, reply # None
  PROVE  /\ Last \in Replies /\ Last.address = reply /\ reply \in Address
         /\ Len(sent) \in Nat \ {0} /\ Len(sent) \in DOMAIN sent
         /\ Last.changed \in BOOLEAN /\ sent \in Seq(Replies)
  <1>1. sent \in Seq(Replies) /\ sent # <<>>
    BY DEF TypeOK, Replies
  <1>2. Len(sent) \in DOMAIN sent /\ Last \in Replies /\ Len(sent) \in Nat \ {0}
    BY <1>1, LastOf DEF Last
  <1> QED
    BY <1>1, <1>2, Types DEF Shape, Last, Replies

\* The first byte, or one more, is added.
LEMMA SumStep ==
  ASSUME TypeOK, Shape, Sending, reply # None, ~Last.changed, ~summed,
         index <= Body(reply), checksum' = (checksum + ByteNow) % ByteRange
  PROVE  checksum' = Sums(BodyOf(Last))[index] % ByteRange
  <1>1. /\ Last \in Replies /\ Last.address = reply /\ reply \in Address
        /\ index \in Nat /\ index >= 1
    BY LastFacts, Types
  <1>2. index \in 1 .. Body(reply) /\ index <= Size(reply) /\ index - 1 \in 0 .. Body(reply)
    BY <1>1, Sizes
  <1>3. checksum = Sums(BodyOf(Last))[index - 1] % ByteRange
    BY <1>2 DEF Sending, Added
  <1>4. ByteNow = BodyOf(Last)[index]
    BY <1>1, <1>2, BodyFacts DEF ByteNow, Sending
  <1>5. /\ Sums(BodyOf(Last))[index - 1] \in Nat
        /\ Sums(BodyOf(Last))[index] = Sums(BodyOf(Last))[index - 1] + BodyOf(Last)[index]
        /\ BodyOf(Last)[index] \in Nat
    BY <1>1, <1>2, BodyFacts, SumsFacts
  <1>6. /\ ByteRange \in Nat \ {0}
        /\ ((Sums(BodyOf(Last))[index - 1] % ByteRange) + BodyOf(Last)[index]) % ByteRange
             = (Sums(BodyOf(Last))[index - 1] + BodyOf(Last)[index]) % ByteRange
    BY <1>5, ModAdd, Sizes
  <1> QED
    BY <1>3, <1>4, <1>5, <1>6

LEMMA PushSending ==
  ASSUME IInv, Sending, PushHeaderByte \/ SumPayloadByte \/ PushPayloadByte \/ PushChecksum
  PROVE  Sending'
  <1>0. /\ TypeOK /\ Shape /\ reply # None /\ index \in Nat /\ reply \in Address
        /\ UNCHANGED <<regs, reply, stamp, sent>> /\ Last' = Last
        /\ Size(reply) = Body(reply) + 1 /\ Body(reply) \in Nat
    BY Types, Sizes
       DEF IInv, Shape, Last, PushHeaderByte, SumPayloadByte, PushPayloadByte, PushChecksum
  <1> SUFFICES ASSUME ~Last.changed, index' <= Size(reply)
               PROVE  checksum' = Sums(BodyOf(Last))[Added'] % ByteRange
    BY <1>0 DEF Sending
  <1>1. CASE PushHeaderByte
    <2>1. ~summed /\ index <= Body(reply)
      BY <1>0, <1>1, Sizes DEF PushHeaderByte, Shape
    <2>2. checksum' = (checksum + ByteNow) % ByteRange /\ index' = index + 1 /\ summed' = summed
      BY <1>1 DEF PushHeaderByte, AddToChecksum, Write
    <2>3. Added' = index
      BY <1>0, <2>1, <2>2 DEF Added
    <2> QED
      BY <1>0, <2>1, <2>2, <2>3, SumStep
  <1>2. CASE SumPayloadByte
    <2>1. ~summed /\ index <= Body(reply)
      BY <1>0, <1>2, Sizes DEF SumPayloadByte
    <2>2. checksum' = (checksum + ByteNow) % ByteRange /\ index' = index /\ summed' = TRUE
      BY <1>2 DEF SumPayloadByte, AddToChecksum
    <2>3. Added' = index
      BY <2>2 DEF Added
    <2> QED
      BY <1>0, <2>1, <2>2, <2>3, SumStep
  <1>3. CASE PushPayloadByte
    <2>1. summed /\ index' = index + 1 /\ summed' = FALSE /\ checksum' = checksum
      BY <1>3 DEF PushPayloadByte, Write
    <2>2. Added' = Added /\ index <= Size(reply)
      BY <1>0, <2>1 DEF Added
    <2> QED
      BY <1>0, <2>1, <2>2 DEF Sending
  <1>4. CASE PushChecksum
    BY <1>0, <1>4 DEF PushChecksum
  <1> QED
    BY <1>1, <1>2, <1>3, <1>4

LEMMA BeginSending ==
  ASSUME IInv, NEW a \in Address, NEW t \in Stamps, BeginReply(a, t)
  PROVE  Sending'
  <1> DEFINE r == [address |-> a, stamp |-> t, data |-> regs[a], changed |-> FALSE]
  <1>0. /\ reply' = a /\ index' = 1 /\ summed' = FALSE /\ checksum' = 0 /\ stamp' = t
        /\ sent' = Append(sent, r) /\ regs' = regs
    BY DEF BeginReply
  <1>1. r \in Replies
    BY DEF IInv, TypeOK, Replies
  <1>2. Last' = r
    <2>1. sent \in Seq(Replies)
      BY DEF IInv, TypeOK, Replies
    <2> HIDE DEF r
    <2> QED
      BY <1>0, <1>1, <2>1 DEF Last
  <1>3. Sums(BodyOf(r))[0] = 0
    BY <1>1, BodyFacts, SumsFacts
  <1>4. Added' = 0 /\ 0 % ByteRange = 0
    BY <1>0, Sizes DEF Added
  <1> QED
    BY <1>0, <1>2, <1>3, <1>4 DEF Sending

LEMMA InterruptSending ==
  ASSUME IInv, Sending, NEW a \in Shared, NEW v \in Contents, AppInterrupt(a, v)
  PROVE  Sending'
  <1>0. /\ TypeOK /\ Shape /\ regs' = [regs EXCEPT ![a] = v] /\ a \in Address
        /\ sent' = IF reply = a THEN [sent EXCEPT ![Len(sent)].changed = TRUE] ELSE sent
        /\ UNCHANGED <<reply, index, summed, checksum, stamp>>
        /\ regs \in [Address -> Contents]
    BY TransmitAssumption DEF IInv, AppInterrupt, sending, TypeOK
  <1> SUFFICES ASSUME reply # None PROVE Sending'
    BY <1>0 DEF Sending
  <1>1. CASE reply = a
    <2>1. /\ Last \in Replies /\ Len(sent) \in DOMAIN sent /\ sent \in Seq(Replies)
      BY <1>0, LastFacts
    <2>2. sent' = [sent EXCEPT ![Len(sent)] = [Last EXCEPT !.changed = TRUE]]
      BY <1>0, <1>1 DEF Last
    <2>3. /\ [Last EXCEPT !.changed = TRUE].changed = TRUE
          /\ [Last EXCEPT !.changed = TRUE].stamp = Last.stamp
          /\ [Last EXCEPT !.changed = TRUE] \in Replies
      BY <2>1 DEF Replies
    <2>4. Last' = [Last EXCEPT !.changed = TRUE]
      <3>1. Len(sent') = Len(sent) /\ sent'[Len(sent)] = [Last EXCEPT !.changed = TRUE]
        BY <2>1, <2>2, <2>3, ExceptSeq
      <3> QED
        BY <3>1 DEF Last
    <2> QED
      BY <1>0, <2>3, <2>4 DEF Sending
  <1>2. CASE reply # a
    <2>1. sent' = sent /\ regs'[reply] = regs[reply] /\ Last' = Last /\ Added' = Added
      <3>1. reply \in Address
        BY <1>0, Types
      <3> QED
        BY <1>0, <1>2, <3>1 DEF Last, Added
    <2> QED
      BY <1>0, <2>1 DEF Sending
  <1> QED
    BY <1>1, <1>2

LEMMA SendingKeeps ==
  ASSUME IInv, Sending, [Next]_vars
  PROVE  Sending'
  <1>1. CASE PushHeaderByte \/ SumPayloadByte \/ PushPayloadByte \/ PushChecksum
    BY <1>1, PushSending
  <1>2. CASE EndReply \/ TudTask
    <2>1. reply' = None
      BY <1>2 DEF EndReply, TudTask, sending
    <2> QED
      BY <2>1 DEF Sending
  <1>3. CASE Pc \/ UNCHANGED vars
    <2>1. UNCHANGED <<regs, reply, index, summed, checksum, stamp, sent>>
      BY <1>3 DEF Pc, PcPolls, PcTakesMessage, sending, vars
    <2> QED
      BY <2>1 DEF Sending, Last, Added
  <1>4. CASE \E a \in Address, t \in Stamps : BeginReply(a, t)
    BY <1>4, BeginSending
  <1>5. CASE \E a \in Shared, v \in Contents : AppInterrupt(a, v)
    BY <1>5, InterruptSending
  <1> QED
    BY <1>1, <1>2, <1>3, <1>4, <1>5 DEF Next, Device

-----------------------------------------------------------------------------
(* The stream is the replies, laid end to end.                             *)

\* byte is the reply's, if no interrupt may have changed that one.
Matches(r, i, byte) == i <= HeaderSize + StampSize \/ ~r.changed => byte = Expected(r)[i]

\* f gives each reply the number of bytes sent before it.  The PC has made
\* messages of the first; the rest, up to the byte that was pushed last, is in flight.
Laid(f) ==
  /\ f \in [1 .. Len(sent) + 1 -> Nat]
  /\ \A k \in 1 .. Len(sent) : f[k + 1] = f[k] + Size(sent[k].address)
  /\ \A j, k \in 1 .. Len(sent) + 1 : j <= k => f[j] <= f[k]
  /\ Len(got) <= Len(sent)
  /\ f[Len(got) + 1] + Len(InFlight) =
       IF reply = None THEN f[Len(sent) + 1] ELSE f[Len(sent)] + (index - 1)
  /\ \A k \in Len(got) + 1 .. Len(sent) : \A i \in 1 .. Size(sent[k].address) :
       f[k] - f[Len(got) + 1] + i <= Len(InFlight) =>
         Matches(sent[k], i, InFlight[f[k] - f[Len(got) + 1] + i])

GotWhole ==
  \A i \in 1 .. Len(got) :
    /\ Len(got[i]) = Size(sent[i].address) /\ got[i][3] = sent[i].address
    /\ ~sent[i].changed => got[i] = Expected(sent[i])

\* A reply as it was, but that an interrupt may have changed its data.
Later(r, q) ==
  /\ q.address = r.address /\ q.stamp = r.stamp /\ q.data = r.data
  /\ r.changed => q.changed

LEMMA LaterExpected ==
  ASSUME NEW r, NEW q, Later(r, q)
  PROVE  /\ Expected(q) = Expected(r)
         /\ \A i, byte : Matches(r, i, byte) => Matches(q, i, byte)
  <1>1. Expected(q) = Expected(r)
    BY DEF Later, Expected, BodyOf
  <1> QED
    BY <1>1 DEF Matches, Later

LEMMA StreamFacts ==
  ASSUME TypeOK
  PROVE  /\ sent \in Seq(Replies) /\ got \in Seq(Seq(Byte)) /\ stream \in Seq(Byte)
         /\ Waiting(usb) \in Seq(Byte) /\ InFlight \in Seq(Byte)
         /\ Len(InFlight) = Len(stream) + Len(Waiting(usb))
         /\ Len(sent) \in Nat /\ Len(got) \in Nat /\ Len(InFlight) \in Nat
         /\ Len(stream) \in Nat /\ Len(Waiting(usb)) \in Nat
         /\ \A k \in 1 .. Len(sent) : /\ sent[k] \in Replies /\ sent[k].address \in Address
                                      /\ Size(sent[k].address) \in Nat
                                      /\ 3 <= Size(sent[k].address)
  <1>1. sent \in Seq(Replies) /\ got \in Seq(Seq(Byte)) /\ stream \in Seq(Byte)
    BY DEF TypeOK, Replies
  <1>2. Waiting(usb) \in Seq(Byte)
    BY Types, WaitingType
  <1>3. InFlight \in Seq(Byte) /\ Len(InFlight) = Len(stream) + Len(Waiting(usb))
    BY <1>1, <1>2, ConcatProperties DEF InFlight
  <1>4. \A k \in 1 .. Len(sent) : sent[k] \in Replies
    BY <1>1, ElementOfSeq
  <1>5. \A k \in 1 .. Len(sent) : /\ sent[k].address \in Address
                                  /\ Size(sent[k].address) \in Nat
                                  /\ 3 <= Size(sent[k].address)
    BY <1>4, BodyFacts, ExpectedFacts
  <1>6. /\ Len(sent) \in Nat /\ Len(got) \in Nat /\ Len(InFlight) \in Nat
        /\ Len(stream) \in Nat /\ Len(Waiting(usb)) \in Nat
    BY <1>1, <1>2, <1>3
  <1> QED
    BY <1>1, <1>2, <1>3, <1>4, <1>5, <1>6

\* There is nothing to cut up, and no more to push, when all is a message.
LEMMA NotAllGot ==
  ASSUME TypeOK, Shape, NEW f, Laid(f),
         Len(InFlight) > 0 \/ (reply # None /\ index <= Size(reply))
  PROVE  Len(got) < Len(sent)
  <1>0. Len(sent) \in Nat /\ Len(got) \in Nat /\ Len(InFlight) \in Nat
    BY StreamFacts
  <1> SUFFICES ASSUME Len(got) = Len(sent) PROVE FALSE
    BY <1>0 DEF Laid
  <1>1. f[Len(sent) + 1] \in Nat
    BY <1>0 DEF Laid
  <1>2. CASE reply = None
    BY <1>0, <1>1, <1>2 DEF Laid
  <1>3. CASE reply # None
    <2>1. /\ Last.address = reply /\ reply \in Address /\ Len(sent) \in Nat \ {0}
          /\ index \in Nat /\ index <= Size(reply) + 1 /\ Size(reply) \in Nat
      BY <1>3, LastFacts, Types, Sizes
    <2>2. /\ f[Len(sent) + 1] = f[Len(sent)] + Size(reply) /\ f[Len(sent)] \in Nat
          /\ f[Len(sent) + 1] + Len(InFlight) = f[Len(sent)] + (index - 1)
      BY <1>3, <2>1 DEF Laid, Last
    <2> QED
      BY <1>0, <2>1, <2>2
  <1> QED
    BY <1>2, <1>3

\* Steps that leave what is in flight.
LEMMA LaidSame ==
  ASSUME TypeOK, NEW f, Laid(f), InFlight' = InFlight, got' = got, Len(sent') = Len(sent),
         \A k \in 1 .. Len(sent) : Later(sent[k], sent'[k]),
         (IF reply' = None THEN f[Len(sent) + 1] ELSE f[Len(sent)] + (index' - 1))
           = (IF reply = None THEN f[Len(sent) + 1] ELSE f[Len(sent)] + (index - 1))
  PROVE  Laid(f)'
  <1>1. \A k \in 1 .. Len(sent) : sent'[k].address = sent[k].address
    BY DEF Later
  <1>2. Len(got) \in Nat /\ Len(sent) \in Nat
    BY StreamFacts
  <1>3. ASSUME NEW k \in Len(got) + 1 .. Len(sent), NEW i \in 1 .. Size(sent[k].address),
               f[k] - f[Len(got) + 1] + i <= Len(InFlight)
        PROVE  Matches(sent'[k], i, InFlight[f[k] - f[Len(got) + 1] + i])
    <2>1. Matches(sent[k], i, InFlight[f[k] - f[Len(got) + 1] + i])
      BY <1>3 DEF Laid
    <2>2. Later(sent[k], sent'[k])
      BY <1>2
    <2> QED
      BY <2>1, <2>2, LaterExpected
  <1>4. /\ f \in [1 .. Len(sent') + 1 -> Nat]
        /\ \A j, k \in 1 .. Len(sent') + 1 : j <= k => f[j] <= f[k]
        /\ Len(got') <= Len(sent')
    BY DEF Laid
  <1>5. \A k \in 1 .. Len(sent') : f[k + 1] = f[k] + Size(sent'[k].address)
    BY <1>1 DEF Laid
  <1>6. f[Len(got') + 1] + Len(InFlight') =
          IF reply' = None THEN f[Len(sent') + 1] ELSE f[Len(sent')] + (index' - 1)
    BY DEF Laid
  <1>7. \A k \in Len(got') + 1 .. Len(sent') : \A i \in 1 .. Size(sent'[k].address) :
          f[k] - f[Len(got') + 1] + i <= Len(InFlight') =>
            Matches(sent'[k], i, InFlight'[f[k] - f[Len(got') + 1] + i])
    <2>1. \A k \in Len(got) + 1 .. Len(sent) : sent'[k].address = sent[k].address
      BY <1>1, <1>2
    <2> QED
      BY <1>3, <2>1
  <1> QED
    BY <1>4, <1>5, <1>6, <1>7 DEF Laid, Matches

\* A PC that keeps up is sent each byte, and it is the reply's.
LEMMA PushedByte ==
  ASSUME IInv, Sending, KeepsUp, PushHeaderByte \/ PushPayloadByte \/ PushChecksum
  PROVE  \E byte \in Byte : InFlight' = Append(InFlight, byte) /\ Matches(Last, index, byte)
  <1>0. /\ TypeOK /\ Shape /\ UsbOK(usb) /\ reply # None /\ index \in Nat /\ index >= 1
        /\ Last \in Replies /\ Last.address = reply /\ stream' = stream
        /\ Size(reply) = Body(reply) + 1 /\ Body(reply) \in Nat
        /\ regs[reply] \in Contents /\ checksum \in Byte /\ ByteNow \in Byte
    <2>1. TypeOK /\ Shape /\ reply # None
      BY DEF IInv, Shape, PushHeaderByte, PushPayloadByte, PushChecksum
    <2>2. stream' = stream
      BY DEF PushHeaderByte, PushPayloadByte, PushChecksum, pc
    <2>3. reply \in Address /\ regs[reply] \in Contents
      BY <2>1, Types DEF TypeOK
    <2> QED
      BY <2>1, <2>2, <2>3, Types, LastFacts, Sizes, ByteNowType
  <1>1. HasRoom(usb)
    <2>1. ~cut'
      <3>1. KeepsUp'
        <4>1. UNCHANGED <<sent, patience>>
          BY DEF PushHeaderByte, PushPayloadByte, PushChecksum
        <4> QED
          BY <4>1, KeepsUpSame
      <3> QED
        BY <3>1, PushKeeps DEF IInv, Room
    <2>2. cut' = (cut \/ ~HasRoom(usb))
      BY DEF PushHeaderByte, PushPayloadByte, PushChecksum, Write
    <2> QED
      BY <2>1, <2>2
  <1>2. ASSUME NEW byte \in Byte,
               usb' \in {tud_cdc_write_char(usb, byte),
                         tud_cdc_write_flush(tud_cdc_write_char(usb, byte))}
        PROVE  InFlight' = Append(InFlight, byte)
    <2> DEFINE w == tud_cdc_write_char(usb, byte)
    <2>1. UsbOK(w)
      BY <1>0, WriteFacts
    <2>2. Waiting(w) = Append(Waiting(usb), byte)
      BY <1>0, <1>1, WriteWaits
    <2>3. Waiting(tud_cdc_write_flush(w)) = Waiting(w)
      BY <2>1, FlushWaits
    <2>4. Waiting(usb') = Append(Waiting(usb), byte)
      BY <1>2, <2>2, <2>3
    <2>5. stream \in Seq(Byte) /\ Waiting(usb) \in Seq(Byte)
      BY <1>0, StreamFacts
    <2>6. InFlight' = stream \o Append(Waiting(usb), byte)
      BY <1>0, <2>4 DEF InFlight, Waiting
    <2> QED
      BY <2>5, <2>6, ConcatAppend DEF InFlight
  <1>3. CASE PushHeaderByte
    <2>1. ByteNow = Expected(Last)[index]
      <3>1. index <= HeaderSize + StampSize
        BY <1>3 DEF PushHeaderByte
      <3>2. ByteOf(Last.address, Last.stamp, regs[reply], index) = Expected(Last)[index]
        BY <1>0, <3>1, FrontFixed
      <3> QED
        BY <1>0, <3>2 DEF ByteNow, Sending
    <2>2. usb' = tud_cdc_write_char(usb, ByteNow)
      BY <1>3 DEF PushHeaderByte, Write
    <2> QED
      BY <1>0, <1>2, <2>1, <2>2 DEF Matches
  <1>4. CASE PushPayloadByte
    <2>1. index \in 1 .. Body(reply) /\ index > HeaderSize + StampSize
      BY <1>0, <1>4, Sizes DEF PushPayloadByte, Shape
    <2>2. ~Last.changed => ByteNow = Expected(Last)[index]
      BY <1>0, <2>1, ExpectedFacts DEF ByteNow, Sending
    <2>3. usb' = tud_cdc_write_char(usb, ByteNow)
      BY <1>4 DEF PushPayloadByte, Write
    <2>4. Matches(Last, index, ByteNow)
      BY <1>0, <2>1, <2>2, Sizes DEF Matches
    <2> QED
      BY <1>0, <1>2, <2>3, <2>4
  <1>5. CASE PushChecksum
    <2>1. index = Body(reply) + 1 /\ index = Size(reply)
      BY <1>0, <1>5 DEF PushChecksum
    <2>2. ~summed /\ Added = Body(reply)
      BY <1>0, <2>1 DEF Shape, Added
    <2>3. ~Last.changed => checksum = Expected(Last)[index]
      BY <1>0, <2>1, <2>2, ExpectedFacts DEF Sending
    <2>4. index > HeaderSize + StampSize
      BY <1>0, <2>1, ExpectedFacts, Sizes
    <2>5. Matches(Last, index, checksum)
      BY <1>0, <2>3, <2>4, Sizes DEF Matches
    <2>6. usb' \in {tud_cdc_write_char(usb, checksum),
                    tud_cdc_write_flush(tud_cdc_write_char(usb, checksum))}
      BY <1>5 DEF PushChecksum, Flushed
    <2> QED
      BY <1>0, <1>2, <2>5, <2>6
  <1> QED
    BY <1>3, <1>4, <1>5

\* The place of a byte, if it is the last of l, in a stream of which c + x bytes have
\* been pushed and b taken.
LEMMA LastPlace ==
  ASSUME NEW a \in Nat, NEW b \in Nat, NEW c \in Nat, NEW l \in Nat, NEW i \in Nat,
         NEW x \in Nat, NEW s \in Nat,
         a - b + i = l + 1, b + l = c + (x - 1), i <= s, x >= 1
  PROVE  a + i = c + x /\ ~(a + s <= c)
  OBVIOUS

LEMMA PushLaid ==
  ASSUME IInv, Sending, KeepsUp, PushHeaderByte \/ PushPayloadByte \/ PushChecksum,
         NEW f, Laid(f)
  PROVE  Laid(f)'
  <1>0. /\ TypeOK /\ Shape /\ reply # None /\ index \in Nat /\ index >= 1
        /\ index <= Size(reply) /\ Last.address = reply /\ Size(reply) \in Nat
        /\ index' = index + 1 /\ UNCHANGED <<reply, got, sent>>
        /\ Len(sent) \in Nat /\ Len(got) \in Nat /\ Len(InFlight) \in Nat
        /\ InFlight \in Seq(Byte)
    <2>1. TypeOK /\ Shape /\ reply # None /\ UNCHANGED <<reply, got, sent>> /\ index' = index + 1
      BY DEF IInv, Shape, PushHeaderByte, PushPayloadByte, PushChecksum, Write, pc
    <2>2. index \in Nat /\ index >= 1 /\ reply \in Address /\ Size(reply) \in Nat
          /\ Size(reply) = Body(reply) + 1 /\ Body(reply) \in Nat
          /\ HeaderSize + StampSize <= Body(reply)
      BY <2>1, Types, Sizes, LastFacts, ExpectedFacts
    <2>3. index <= Size(reply)
      BY <2>1, <2>2, Sizes DEF PushHeaderByte, PushPayloadByte, PushChecksum, Shape
    <2> QED
      BY <2>1, <2>2, <2>3, LastFacts, StreamFacts
  <1> DEFINE n == Len(sent)
             g == Len(got)
             L == Len(InFlight)
  <1>1. g < n
    BY <1>0, NotAllGot
  <1>2. PICK byte \in Byte : InFlight' = Append(InFlight, byte) /\ Matches(Last, index, byte)
    BY PushedByte
  <1>3. /\ Len(InFlight') = L + 1 /\ InFlight'[L + 1] = byte
        /\ \A p \in 1 .. L : InFlight'[p] = InFlight[p]
    <2>1. InFlight \in Seq(Byte)
      BY <1>0
    <2> DEFINE s == InFlight
               t == InFlight'
    <2>2. s \in Seq(Byte) /\ t = Append(s, byte)
      BY <1>2, <2>1
    <2> HIDE DEF s, t
    <2>3. /\ Len(t) = Len(s) + 1 /\ t[Len(s) + 1] = byte
          /\ \A p \in 1 .. Len(s) : t[p] = s[p]
      BY <2>2, AppendProperties
    <2> QED
      BY <2>3, Zenon DEF s, t
  <1>4. f[g + 1] \in Nat /\ f[n] \in Nat /\ f[g + 1] <= f[n] /\ f[g + 1] + L = f[n] + (index - 1)
    <2>1. g + 1 \in 1 .. n + 1 /\ n \in 1 .. n + 1 /\ g + 1 <= n
      BY <1>0, <1>1
    <2>2. /\ f \in [1 .. n + 1 -> Nat]
          /\ \A j, k \in 1 .. n + 1 : j <= k => f[j] <= f[k]
      BY DEF Laid
    <2>3. f[g + 1] + L = f[n] + (index - 1)
      BY <1>0 DEF Laid
    <2> HIDE DEF n, g, L
    <2> QED
      BY <2>1, <2>2, <2>3
  <1>5. ASSUME NEW k \in g + 1 .. n, NEW i \in 1 .. Size(sent[k].address),
               f[k] - f[g + 1] + i <= L + 1
        PROVE  Matches(sent[k], i, InFlight'[f[k] - f[g + 1] + i])
    <2> DEFINE p == f[k] - f[g + 1] + i
    <2>1. /\ k \in 1 .. n /\ f[k] \in Nat /\ f[g + 1] <= f[k]
          /\ Size(sent[k].address) \in Nat /\ f[k + 1] = f[k] + Size(sent[k].address)
      <3>1. k \in 1 .. n /\ k \in 1 .. n + 1 /\ g + 1 \in 1 .. n + 1 /\ g + 1 <= k
        BY <1>0, <1>1
      <3> QED
        BY <1>0, <3>1, StreamFacts DEF Laid
    <2>2. p \in Nat /\ p >= 1 /\ i \in Nat /\ i >= 1 /\ i <= Size(sent[k].address)
      <3> DEFINE a == f[k]
                 b == f[g + 1]
                 s == Size(sent[k].address)
      <3>1. a \in Nat /\ b \in Nat /\ b <= a /\ s \in Nat /\ i \in 1 .. s /\ p = a - b + i
        BY <1>4, <2>1
      <3> HIDE DEF n, g, L, p, a, b, s
      <3>2. p \in Nat /\ p >= 1 /\ i \in Nat /\ i >= 1 /\ i <= s
        BY <3>1
      <3> QED
        BY <3>2 DEF s
    <2>3. CASE p <= L
      <3>1. Matches(sent[k], i, InFlight[p])
        BY <2>3 DEF Laid
      <3>2. InFlight'[p] = InFlight[p]
        BY <1>0, <1>3, <2>2, <2>3
      <3> QED
        BY <3>1, <3>2
    <2>4. CASE p = L + 1
      <3>1. f[k] + i = f[n] + index /\ ~(f[k] + Size(sent[k].address) <= f[n])
        <4> DEFINE a == f[k]
                   b == f[g + 1]
                   c == f[n]
                   s == Size(sent[k].address)
        <4>1. /\ a \in Nat /\ b \in Nat /\ c \in Nat /\ L \in Nat /\ i \in Nat /\ s \in Nat
              /\ index \in Nat /\ index >= 1 /\ i <= s
          BY <1>0, <1>4, <2>1, <2>2
        <4>2. a - b + i = L + 1 /\ b + L = c + (index - 1)
          BY <1>4, <2>4
        <4> HIDE DEF n, g, L, p, a, b, c, s
        <4>3. a + i = c + index /\ ~(a + s <= c)
          BY <4>1, <4>2, LastPlace
        <4> QED
          BY <4>3 DEF a, c, s
      <3>2. k = n
        <4> SUFFICES ASSUME k < n PROVE FALSE
          BY <1>0, <2>1
        <4>1. k + 1 \in 1 .. n + 1 /\ n \in 1 .. n + 1 /\ k + 1 <= n
          BY <1>0, <2>1
        <4>2. f[k + 1] <= f[n]
          BY <4>1 DEF Laid
        <4> QED
          BY <2>1, <3>1, <4>2
      <3>3. i = index
        BY <1>0, <1>4, <2>2, <3>1, <3>2
      <3> QED
        BY <1>2, <1>3, <2>4, <3>2, <3>3 DEF Last
    <2> QED
      BY <1>0, <1>5, <2>2, <2>3, <2>4
  <1>6. f[g + 1] + (L + 1) = f[n] + (index' - 1)
    <2> DEFINE a == f[g + 1]
               c == f[n]
               j == index'
    <2>1. /\ a \in Nat /\ c \in Nat /\ L \in Nat /\ index \in Nat
          /\ a + L = c + (index - 1) /\ j = index + 1
      BY <1>0, <1>4
    <2> HIDE DEF a, c, n, g, L, j
    <2>2. a + (L + 1) = c + (j - 1)
      BY <2>1
    <2> QED
      BY <2>2 DEF a, c, j
  <1> QED
    BY <1>0, <1>3, <1>5, <1>6 DEF Laid, Matches

\* Steps that only move what is in flight, or nothing of it.
LEMMA MoveLaid ==
  ASSUME IInv, NEW f, Laid(f),
         SumPayloadByte \/ EndReply \/ TudTask \/ PcPolls \/ UNCHANGED vars
  PROVE  Laid(f)' /\ UNCHANGED <<got, sent>>
  <1>0. /\ TypeOK /\ Shape /\ UsbOK(usb) /\ UNCHANGED <<got, sent>>
        /\ Len(sent) \in Nat
    BY Types, StreamFacts
       DEF IInv, SumPayloadByte, EndReply, TudTask, PcPolls, vars, sending, pc
  <1>1. InFlight' = InFlight
    <2>1. CASE SumPayloadByte \/ UNCHANGED vars
      <3>1. usb' = usb /\ stream' = stream
        BY <2>1 DEF SumPayloadByte, vars, pc
      <3> QED
        BY <3>1 DEF InFlight, Waiting
    <2>2. CASE EndReply \/ TudTask
      <3>1. usb' = tud_task(usb) /\ stream' = stream
        BY <2>2 DEF EndReply, Polled, TudTask, pc
      <3>2. Waiting(usb)' = Waiting(tud_task(usb))
        BY <3>1 DEF Waiting
      <3> QED
        BY <1>0, <3>1, <3>2, TaskWaits DEF InFlight
    <2>3. CASE PcPolls
      <3>1. /\ usb \in [fifo : Seq(Byte), packet : Seq(Byte), endpoint : Endpoint]
            /\ usb.endpoint = "armed" /\ usb' = [usb EXCEPT !.endpoint = "taken"]
            /\ stream' = stream \o usb.packet /\ stream \in Seq(Byte)
            /\ usb.packet \in Seq(Byte) /\ usb.fifo \in Seq(Byte)
        BY <1>0, <2>3, Types DEF PcPolls, UsbOK, TypeOK
      <3>2. usb'.endpoint = "taken" /\ usb'.fifo = usb.fifo
        BY <3>1
      <3>3. Waiting(usb) = usb.packet \o usb.fifo
        BY <3>1 DEF Waiting
      <3>4. Waiting(usb)' = usb.fifo
        BY <3>1, <3>2, ConcatEmptySeq DEF Waiting
      <3>5. (stream \o usb.packet) \o usb.fifo = stream \o (usb.packet \o usb.fifo)
        BY <3>1, ConcatAssociative
      <3> QED
        BY <3>1, <3>3, <3>4, <3>5 DEF InFlight
    <2> QED
      BY <2>1, <2>2, <2>3
  <1>2. (IF reply' = None THEN f[Len(sent) + 1] ELSE f[Len(sent)] + (index' - 1))
          = (IF reply = None THEN f[Len(sent) + 1] ELSE f[Len(sent)] + (index - 1))
    <2>1. CASE UNCHANGED <<reply, index>>
      BY <2>1
    <2>2. CASE EndReply
      <3>1. reply # None /\ reply' = None /\ index = Size(reply) + 1
        BY <2>2 DEF EndReply
      <3>2. Last.address = reply /\ Len(sent) \in 1 .. Len(sent) /\ Size(reply) \in Nat
        BY <1>0, <3>1, LastFacts, Sizes
      <3>3. f[Len(sent) + 1] = f[Len(sent)] + Size(reply)
        BY <3>2 DEF Laid, Last
      <3>4. index - 1 = Size(reply)
        BY <3>1, <3>2
      <3> QED
        BY <3>1, <3>3, <3>4
    <2>3. UNCHANGED <<reply, index>> \/ EndReply
      BY DEF SumPayloadByte, TudTask, PcPolls, vars, sending
    <2> QED
      BY <2>1, <2>2, <2>3
  <1>3. \A k \in 1 .. Len(sent) : Later(sent[k], sent'[k])
    BY <1>0 DEF Later
  <1>4. got' = got /\ Len(sent') = Len(sent)
    BY <1>0
  <1> QED
    BY <1>0, <1>1, <1>2, <1>3, <1>4, LaidSame

LEMMA InterruptLater ==
  ASSUME IInv, NEW a \in Shared, NEW v \in Contents, AppInterrupt(a, v)
  PROVE  Len(sent') = Len(sent) /\ \A k \in 1 .. Len(sent) : Later(sent[k], sent'[k])
  <1>0. /\ TypeOK /\ Shape /\ a # None
        /\ sent' = IF reply = a THEN [sent EXCEPT ![Len(sent)].changed = TRUE] ELSE sent
    BY TransmitAssumption DEF IInv, AppInterrupt
  <1>1. CASE reply # a
    BY <1>0, <1>1 DEF Later
  <1>2. CASE reply = a
    <2>1. /\ Last \in Replies /\ Len(sent) \in 1 .. Len(sent) /\ sent \in Seq(Replies)
      BY <1>0, <1>2, LastFacts
    <2>2. sent' = [sent EXCEPT ![Len(sent)] = [Last EXCEPT !.changed = TRUE]]
      BY <1>0, <1>2 DEF Last
    <2>3. [Last EXCEPT !.changed = TRUE] \in Replies /\ Later(Last, [Last EXCEPT !.changed = TRUE])
      BY <2>1 DEF Replies, Later
    <2>4. /\ Len(sent') = Len(sent)
          /\ \A j \in 1 .. Len(sent) :
               sent'[j] = IF j = Len(sent) THEN [Last EXCEPT !.changed = TRUE] ELSE sent[j]
      BY <2>1, <2>2, <2>3, ExceptSeq
    <2>5. \A r : Later(r, r)
      BY DEF Later
    <2> QED
      BY <2>3, <2>4, <2>5 DEF Last
  <1> QED
    BY <1>1, <1>2

LEMMA InterruptLaid ==
  ASSUME IInv, NEW f, Laid(f), NEW a \in Shared, NEW v \in Contents, AppInterrupt(a, v)
  PROVE  Laid(f)' /\ got' = got
  <1>0. TypeOK /\ UNCHANGED <<reply, index, usb, stream, got>>
    BY DEF IInv, AppInterrupt, sending, pc
  <1>1. InFlight' = InFlight
    BY <1>0 DEF InFlight, Waiting
  <1> QED
    BY <1>0, <1>1, InterruptLater, LaidSame

\* A reply that begins is laid after the others.
LEMMA BeginLaid ==
  ASSUME IInv, NEW f, Laid(f), NEW a \in Address, NEW t \in Stamps, BeginReply(a, t)
  PROVE  /\ \E h : Laid(h)'
         /\ got' = got /\ \A k \in 1 .. Len(sent) : sent'[k] = sent[k]
  <1> DEFINE r == [address |-> a, stamp |-> t, data |-> regs[a], changed |-> FALSE]
             n == Len(sent)
             g == Len(got)
             L == Len(InFlight)
  <1>0. /\ TypeOK /\ Shape /\ reply = None /\ reply' = a /\ a # None /\ index' = 1
        /\ sent' = Append(sent, r) /\ UNCHANGED <<usb, stream, got>>
        /\ n \in Nat /\ g \in Nat /\ L \in Nat /\ Size(a) \in Nat
        /\ r \in Replies /\ sent \in Seq(Replies)
    BY Sizes, StreamFacts DEF IInv, BeginReply, pc, TypeOK, Replies
  <1>1. /\ Len(sent') = n + 1 /\ sent'[n + 1] = r
        /\ \A k \in 1 .. n : sent'[k] = sent[k]
    <2> HIDE DEF r
    <2> QED
      BY <1>0, AppendProperties
  <1>2. InFlight' = InFlight
    BY <1>0 DEF InFlight, Waiting
  <1>3. /\ f \in [1 .. n + 1 -> Nat] /\ g <= n /\ f[g + 1] + L = f[n + 1]
        /\ \A k \in 1 .. n : f[k + 1] = f[k] + Size(sent[k].address)
        /\ \A j, k \in 1 .. n + 1 : j <= k => f[j] <= f[k]
    BY <1>0 DEF Laid
  <1>4. \E h : h = [k \in 1 .. n + 2 |-> IF k <= n + 1 THEN f[k] ELSE f[n + 1] + Size(a)]
    OBVIOUS
  <1>5. PICK h : h = [k \in 1 .. n + 2 |-> IF k <= n + 1 THEN f[k] ELSE f[n + 1] + Size(a)]
    BY <1>4
  <1> DEFINE e == f[n + 1] + Size(a)
  <1>6. /\ h \in [1 .. n + 2 -> Nat] /\ (\A k \in 1 .. n + 1 : h[k] = f[k])
        /\ h[n + 2] = e /\ e \in Nat /\ f[n + 1] <= e /\ f[n + 1] \in Nat
    <2>1. f[n + 1] \in Nat /\ \A k \in 1 .. n + 1 : f[k] \in Nat
      BY <1>0, <1>3
    <2>2. e \in Nat /\ f[n + 1] <= e
      BY <1>0, <2>1
    <2>3. /\ \A k \in 1 .. n + 1 : k \in 1 .. n + 2 /\ k <= n + 1
          /\ n + 2 \in 1 .. n + 2 /\ ~(n + 2 <= n + 1)
          /\ \A k \in 1 .. n + 2 : k <= n + 1 => k \in 1 .. n + 1
      BY <1>0
    <2> QED
      BY <1>5, <2>1, <2>2, <2>3
  <1>7. ASSUME NEW k \in 1 .. n + 1 PROVE h[k + 1] = h[k] + Size(sent'[k].address)
    <2>1. CASE k = n + 1
      <3>1. k + 1 = n + 2 /\ sent'[k].address = a /\ k \in 1 .. n + 1
        BY <1>0, <1>1, <2>1
      <3> QED
        BY <1>6, <2>1, <3>1
    <2>2. CASE k # n + 1
      <3>1. k \in 1 .. n /\ k \in 1 .. n + 1 /\ k + 1 \in 1 .. n + 1
        BY <1>0, <2>2
      <3> QED
        BY <1>1, <1>3, <1>6, <3>1
    <2> QED
      BY <2>1, <2>2
  <1>8. ASSUME NEW j \in 1 .. n + 2, NEW k \in 1 .. n + 2, j <= k PROVE h[j] <= h[k]
    <2>1. CASE k <= n + 1
      <3>1. j \in 1 .. n + 1 /\ k \in 1 .. n + 1
        BY <1>0, <1>8, <2>1
      <3> QED
        BY <1>3, <1>6, <1>8, <3>1
    <2>2. CASE k = n + 2 /\ j <= n + 1
      <3>1. j \in 1 .. n + 1 /\ n + 1 \in 1 .. n + 1 /\ j <= n + 1
        BY <1>0, <2>2
      <3>2. h[j] = f[j] /\ f[j] <= f[n + 1] /\ f[j] \in Nat
        BY <1>3, <1>6, <3>1
      <3> HIDE DEF e
      <3> QED
        BY <1>6, <2>2, <3>2
    <2>3. CASE k = n + 2 /\ j = n + 2
      BY <1>6, <2>3
    <2> QED
      BY <1>0, <1>8, <2>1, <2>2, <2>3
  <1>9. h[g + 1] = f[g + 1] /\ h[n + 1] = f[n + 1] /\ f[g + 1] \in Nat
    <2>1. g + 1 \in 1 .. n + 1 /\ n + 1 \in 1 .. n + 1
      BY <1>0, <1>3
    <2> QED
      BY <1>3, <1>6, <2>1
  <1>10. ASSUME NEW k \in g + 1 .. n + 1, NEW i \in 1 .. Size(sent'[k].address),
                h[k] - h[g + 1] + i <= L
         PROVE  Matches(sent'[k], i, InFlight[h[k] - h[g + 1] + i])
    <2>1. CASE k <= n
      <3>1. k \in 1 .. n /\ k \in g + 1 .. n /\ k \in 1 .. n + 1
        BY <1>0, <2>1
      <3>2. sent'[k] = sent[k] /\ h[k] = f[k]
        BY <1>1, <1>6, <3>1
      <3> QED
        BY <1>9, <1>10, <3>1, <3>2 DEF Laid
    <2>2. CASE k = n + 1
      <3>1. f[n + 1] - f[g + 1] + i <= L
        BY <1>9, <1>10, <2>2
      <3>2. i \in Nat /\ i >= 1
        <4>1. sent'[k].address = a
          BY <1>1, <2>2
        <4> QED
          BY <1>0, <4>1
      <3> DEFINE b == f[g + 1]
                 c == f[n + 1]
      <3>3. b \in Nat /\ c \in Nat /\ b + L = c /\ c - b + i <= L
        BY <1>3, <1>6, <1>9, <3>1
      <3> HIDE DEF b, c, n, g, L
      <3>4. FALSE
        BY <1>0, <3>2, <3>3
      <3> QED
        BY <3>4
    <2> QED
      BY <1>0, <2>1, <2>2
  <1>11. h[g + 1] + L = h[n + 1] + (1 - 1)
    BY <1>0, <1>3, <1>6, <1>9
  <1>12. /\ h \in [1 .. Len(sent') + 1 -> Nat] /\ Len(got') <= Len(sent')
         /\ \A j, k \in 1 .. Len(sent') + 1 : j <= k => h[j] <= h[k]
    <2>1. Len(sent') + 1 = n + 2 /\ Len(got') = g /\ g <= n + 1
      BY <1>0, <1>1, <1>3
    <2> QED
      BY <1>1, <1>6, <1>8, <2>1
  <1>13. Laid(h)'
    <2> HIDE DEF n, g, L, r, e
    <2>1. \A k \in 1 .. Len(sent') : h[k + 1] = h[k] + Size(sent'[k].address)
      BY <1>1, <1>7
    <2>2. h[Len(got') + 1] + Len(InFlight') = h[Len(sent')] + (index' - 1) /\ reply' # None
      BY <1>0, <1>1, <1>2, <1>11 DEF g, L
    <2>3. \A k \in Len(got') + 1 .. Len(sent') : \A i \in 1 .. Size(sent'[k].address) :
            h[k] - h[Len(got') + 1] + i <= Len(InFlight') =>
              Matches(sent'[k], i, InFlight'[h[k] - h[Len(got') + 1] + i])
      BY <1>0, <1>1, <1>2, <1>10 DEF g, L
    <2> QED
      BY <1>12, <2>1, <2>2, <2>3 DEF Laid, Matches
  <1> QED
    BY <1>0, <1>1, <1>13

\* A sequence cut in two.
LEMMA CutFront ==
  ASSUME NEW S, NEW s \in Seq(S), NEW z \in Nat, z >= 1, z <= Len(s)
  PROVE  /\ SubSeq(s, 1, z) \in Seq(S) /\ Len(SubSeq(s, 1, z)) = z
         /\ \A i \in 1 .. z : SubSeq(s, 1, z)[i] = s[i]
         /\ SubSeq(s, z + 1, Len(s)) \in Seq(S)
         /\ Len(SubSeq(s, z + 1, Len(s))) = Len(s) - z
         /\ \A i \in 1 .. Len(s) - z : SubSeq(s, z + 1, Len(s))[i] = s[z + i]
  <1>1. Len(s) \in Nat /\ \A i \in 1 .. Len(s) : s[i] \in S
    OBVIOUS
  <1>2. /\ SubSeq(s, 1, z) \in Seq(S) /\ Len(SubSeq(s, 1, z)) = z
        /\ \A i \in 1 .. z : SubSeq(s, 1, z)[i] = s[i]
    BY <1>1
  <1>3. /\ SubSeq(s, z + 1, Len(s)) \in Seq(S)
        /\ Len(SubSeq(s, z + 1, Len(s))) = Len(s) - z
    BY <1>1
  <1>4. ASSUME NEW i \in 1 .. Len(s) - z
        PROVE  SubSeq(s, z + 1, Len(s))[i] = s[z + i]
    <2>1. /\ i \in 1 .. Len(s) - (z + 1) + 1 /\ (z + 1) + i - 1 = z + i
          /\ z + 1 \in Int /\ Len(s) \in Int
          /\ \A j \in z + 1 .. Len(s) : j \in 1 .. Len(s)
      BY <1>1
    <2> QED
      BY <1>1, <2>1, SubSeqProperties
  <1> QED
    BY <1>2, <1>3, <1>4

\* q is s without its first z elements.
Drops(q, s, z) == Len(q) = Len(s) - z /\ \A p \in 1 .. Len(s) - z : q[p] = s[z + p]

LEMMA DropFront ==
  ASSUME NEW S, NEW s \in Seq(S), NEW w \in Seq(S), NEW z \in Nat, z >= 1, z <= Len(s),
         NEW rest, rest = SubSeq(s, z + 1, Len(s))
  PROVE  rest \o w \in Seq(S) /\ Drops(rest \o w, s \o w, z)
  <1>1. /\ rest \in Seq(S) /\ Len(rest) = Len(s) - z
        /\ \A i \in 1 .. Len(s) - z : rest[i] = s[z + i]
    BY CutFront
  <1>2. Len(s) \in Nat /\ Len(w) \in Nat /\ Len(rest) \in Nat
    BY <1>1
  <1>3. /\ Len(s \o w) = Len(s) + Len(w)
        /\ \A i \in 1 .. Len(s) + Len(w) :
             (s \o w)[i] = IF i <= Len(s) THEN s[i] ELSE w[i - Len(s)]
    BY ConcatProperties
  <1>4. /\ rest \o w \in Seq(S) /\ Len(rest \o w) = Len(rest) + Len(w)
        /\ \A i \in 1 .. Len(rest) + Len(w) :
             (rest \o w)[i] = IF i <= Len(rest) THEN rest[i] ELSE w[i - Len(rest)]
    BY <1>1, ConcatProperties
  <1>5. ASSUME NEW p \in 1 .. Len(s \o w) - z PROVE (rest \o w)[p] = (s \o w)[z + p]
    <2>1. p \in 1 .. Len(rest) + Len(w) /\ z + p \in 1 .. Len(s) + Len(w)
      BY <1>1, <1>2, <1>3
    <2>2. CASE p <= Len(rest)
      <3>1. p \in 1 .. Len(s) - z /\ z + p <= Len(s)
        BY <1>1, <1>2, <2>1, <2>2
      <3> QED
        BY <1>1, <1>3, <1>4, <2>1, <2>2, <3>1
    <2>3. CASE ~(p <= Len(rest))
      <3>1. ~(z + p <= Len(s)) /\ z + p - Len(s) = p - Len(rest)
        <4> DEFINE a == Len(rest)
                   b == Len(s)
        <4>1. a \in Nat /\ b \in Nat /\ p \in Int /\ a = b - z /\ ~(p <= a)
          BY <1>1, <1>2, <2>1, <2>3
        <4> HIDE DEF a, b
        <4>2. ~(z + p <= b) /\ z + p - b = p - a
          BY <4>1
        <4> QED
          BY <4>2 DEF a, b
      <3>2. (rest \o w)[p] = w[p - Len(rest)]
        BY <1>4, <2>1, <2>3
      <3>3. (s \o w)[z + p] = w[z + p - Len(s)]
        BY <1>3, <2>1, <3>1
      <3> QED
        BY <3>1, <3>2, <3>3
    <2> QED
      BY <2>2, <2>3
  <1>6. Len(rest \o w) = Len(s \o w) - z
    <2> DEFINE a == Len(rest)
               b == Len(s)
               c == Len(w)
    <2>1. a \in Nat /\ b \in Nat /\ c \in Nat /\ a = b - z
      BY <1>1, <1>2
    <2> HIDE DEF a, b, c
    <2>2. a + c = b + c - z
      BY <2>1
    <2> QED
      BY <1>3, <1>4, <2>2 DEF a, b, c
  <1> QED
    BY <1>4, <1>5, <1>6 DEF Drops

\* What the PC has not made a message of begins with the next reply.
LEMMA HeadMatches ==
  ASSUME TypeOK, NEW f, Laid(f), Len(got) < Len(sent),
         NEW i \in 1 .. Size(sent[Len(got) + 1].address), i <= Len(stream)
  PROVE  Matches(sent[Len(got) + 1], i, stream[i])
  <1> DEFINE k == Len(got) + 1
  <1>0. /\ Len(got) \in Nat /\ Len(sent) \in Nat /\ Len(stream) \in Nat
        /\ Len(InFlight) = Len(stream) + Len(Waiting(usb)) /\ Len(Waiting(usb)) \in Nat
        /\ stream \in Seq(Byte) /\ Waiting(usb) \in Seq(Byte)
    BY StreamFacts
  <1>1. k \in 1 .. Len(sent) /\ k \in Len(got) + 1 .. Len(sent) /\ Size(sent[k].address) \in Nat
    BY <1>0, StreamFacts
  <1>2. f[k] \in Nat
    BY <1>0, <1>1 DEF Laid
  <1>3. i \in Nat /\ i >= 1 /\ i <= Len(InFlight) /\ f[k] - f[k] + i = i
    BY <1>0, <1>1, <1>2
  <1>4. Matches(sent[k], i, InFlight[i])
    BY <1>1, <1>3 DEF Laid
  <1>5. InFlight[i] = stream[i]
    BY <1>0, <1>3, ConcatProperties DEF InFlight
  <1> QED
    BY <1>4, <1>5

LEMMA HeadLength ==
  ASSUME TypeOK, KeepsUp, NEW f, Laid(f), Len(got) < Len(sent), Len(stream) >= 2
  PROVE  stream[2] + 2 = Size(sent[Len(got) + 1].address)
  <1> DEFINE r == sent[Len(got) + 1]
             z == Size(r.address)
  <1>1. Len(got) + 1 \in 1 .. Len(sent) /\ Len(got) + 1 \in DOMAIN sent
    BY StreamFacts
  <1>2. r \in Replies /\ r.address \in Address /\ z \in Nat /\ 3 <= z
    BY <1>1, StreamFacts
  <1>3. z < ByteRange + 2
    BY <1>1 DEF KeepsUp
  <1>4. 2 \in 1 .. z /\ 2 <= HeaderSize + StampSize
    BY <1>2, Sizes
  <1>5. stream[2] = Expected(r)[2]
    <2>1. Matches(r, 2, stream[2])
      BY <1>4, HeadMatches
    <2> QED
      BY <1>4, <2>1 DEF Matches
  <1>6. Expected(r)[2] = RawLength(r.address)
    BY <1>2, ExpectedFacts
  <1>7. RawLength(r.address) = z - 2
    BY <1>2, <1>3, HeaderFacts DEF Replies
  <1> QED
    BY <1>2, <1>5, <1>6, <1>7

\* What the PC makes a message of is the next reply.
LEMMA TakeLaid ==
  ASSUME IInv, KeepsUp, NEW f, Laid(f), PcTakesMessage
  PROVE  /\ Laid(f)' /\ sent' = sent /\ Len(got) < Len(sent)
         /\ \E m \in Seq(Byte) :
              /\ got' = Append(got, m) /\ Len(m) = Size(sent[Len(got) + 1].address)
              /\ \A i \in 1 .. Len(m) : Matches(sent[Len(got) + 1], i, m[i])
  <1> DEFINE n == Len(sent)
             g == Len(got)
             L == Len(InFlight)
             k0 == g + 1
             r == sent[k0]
             z == Size(r.address)
             m == SubSeq(stream, 1, z)
             rest == SubSeq(stream, z + 1, Len(stream))
  <1>0. /\ TypeOK /\ Shape /\ UNCHANGED <<reply, index, usb, sent>> /\ HasMessage
        /\ n \in Nat /\ g \in Nat /\ L \in Nat /\ Len(stream) \in Nat
        /\ L = Len(stream) + Len(Waiting(usb)) /\ Len(Waiting(usb)) \in Nat
        /\ stream \in Seq(Byte) /\ Waiting(usb) \in Seq(Byte) /\ InFlight \in Seq(Byte)
        /\ got \in Seq(Seq(Byte)) /\ Len(stream) >= 2
    BY StreamFacts DEF IInv, PcTakesMessage, HasMessage, sending
  <1>1. g < n
    <2>1. L > 0
      BY <1>0
    <2> QED
      BY <1>0, <2>1, NotAllGot
  <1>2. /\ k0 \in 1 .. n /\ k0 \in g + 1 .. n /\ r \in Replies /\ r.address \in Address
        /\ z \in Nat /\ 3 <= z
    BY <1>0, <1>1, StreamFacts
  <1>4. f[k0] \in Nat
    BY <1>0, <1>2 DEF Laid
  <1>5. ASSUME NEW i \in 1 .. z, i <= Len(stream)
        PROVE  Matches(r, i, stream[i])
    BY <1>0, <1>1, <1>5, HeadMatches
  <1>6. stream[2] + 2 = z
    BY <1>0, <1>1, HeadLength
  <1>7. z <= Len(stream) /\ got' = Append(got, m) /\ stream' = rest
    <2>1. stream[2] + 3 = z + 1
      <3>1. stream[2] \in Nat
        <4>1. 2 \in 1 .. Len(stream)
          BY <1>0
        <4>2. stream[2] \in Byte
          BY <1>0, <4>1, ElementOfSeq
        <4> QED
          BY <4>2, Sizes DEF Byte
      <3> QED
        BY <1>2, <1>6, <3>1
    <2> QED
      BY <1>6, <2>1 DEF PcTakesMessage, HasMessage
  <1>8. m \in Seq(Byte) /\ Len(m) = z /\ \A i \in 1 .. z : m[i] = stream[i]
    <2> DEFINE y == z
    <2>1. y \in Nat /\ y >= 1 /\ y <= Len(stream)
      BY <1>2, <1>7
    <2> HIDE DEF y
    <2>2. /\ SubSeq(stream, 1, y) \in Seq(Byte) /\ Len(SubSeq(stream, 1, y)) = y
          /\ \A i \in 1 .. y : SubSeq(stream, 1, y)[i] = stream[i]
      BY <1>0, <2>1, CutFront
    <2> QED
      BY <2>2 DEF y
  <1>9. \A i \in 1 .. z : Matches(r, i, m[i])
    <2> SUFFICES ASSUME NEW i \in 1 .. z PROVE Matches(r, i, m[i])
      OBVIOUS
    <2>1. i <= Len(stream)
      BY <1>0, <1>2, <1>7
    <2>2. Matches(r, i, stream[i])
      BY <1>5, <2>1
    <2>3. m[i] = stream[i]
      BY <1>8
    <2> QED
      BY <2>2, <2>3
  <1>10. /\ InFlight' = rest \o Waiting(usb) /\ InFlight' \in Seq(Byte)
         /\ Len(InFlight') = L - z
         /\ \A p \in 1 .. L - z : InFlight'[p] = InFlight[z + p]
    <2>1. InFlight' = rest \o Waiting(usb)
      BY <1>0, <1>7 DEF InFlight, Waiting
    <2> DEFINE y == z
               w == Waiting(usb)
    <2>2. y \in Nat /\ y >= 1 /\ y <= Len(stream) /\ rest = SubSeq(stream, y + 1, Len(stream))
      BY <1>2, <1>7
    <2>3. InFlight = stream \o w /\ w \in Seq(Byte) /\ stream \in Seq(Byte)
      BY <1>0 DEF InFlight
    <2> HIDE DEF y, w, rest
    <2>4. rest \o w \in Seq(Byte) /\ Drops(rest \o w, stream \o w, y)
      BY <2>2, <2>3, DropFront, Zenon
    <2>5. InFlight' \in Seq(Byte) /\ Drops(InFlight', InFlight, z)
      BY <2>1, <2>3, <2>4 DEF y, w
    <2> QED
      BY <2>1, <2>5 DEF Drops
  <1>11. Len(got') = k0
    <2> HIDE DEF m
    <2>1. got \in Seq(Seq(Byte)) /\ m \in Seq(Byte) /\ got' = Append(got, m)
      BY <1>0, <1>7, <1>8
    <2> QED
      BY <2>1, AppendProperties
  <1>12. f[k0 + 1] = f[k0] + z /\ k0 + 1 \in 1 .. n + 1
    BY <1>0, <1>2 DEF Laid
  <1>13. ASSUME NEW k \in k0 + 1 .. n, NEW i \in 1 .. Size(sent[k].address),
                f[k] - f[k0 + 1] + i <= L - z
         PROVE  Matches(sent[k], i, InFlight'[f[k] - f[k0 + 1] + i])
    <2> DEFINE p == f[k] - f[k0 + 1] + i
    <2>1. /\ k \in 1 .. n /\ k \in 1 .. n + 1 /\ k \in g + 1 .. n /\ k0 + 1 <= k
          /\ i \in Nat /\ i >= 1
      <3>1. k \in 1 .. n
        BY <1>0
      <3>2. Size(sent[k].address) \in Nat
        BY <1>0, <3>1, StreamFacts
      <3> QED
        BY <1>0, <3>1, <3>2
    <2>2. f[k] \in Nat /\ f[k0 + 1] <= f[k] /\ f[k0 + 1] \in Nat
      BY <1>0, <1>2, <1>12, <2>1 DEF Laid
    <2>3. p \in 1 .. L - z /\ f[k] - f[k0] + i = z + p /\ f[k] - f[k0] + i <= L
      <3>1. p \in Nat /\ p >= 1
        BY <2>1, <2>2
      <3>2. f[k] - f[k0] + i = z + p
        <4> DEFINE a == f[k]
                   b == f[k0]
                   c == f[k0 + 1]
                   y == z
        <4>1. /\ a \in Nat /\ b \in Nat /\ c \in Nat /\ y \in Nat /\ i \in Nat
              /\ c = b + y /\ p = a - c + i
          BY <1>2, <1>4, <1>12, <2>1, <2>2
        <4> HIDE DEF a, b, c, y, p
        <4>2. a - b + i = y + p
          BY <4>1
        <4> QED
          BY <4>2 DEF a, b, y
      <3> DEFINE y == z
                 q == f[k] - f[k0] + i
      <3>3. p \in Nat /\ p >= 1 /\ p <= L - y /\ y \in Nat /\ L \in Nat /\ q = y + p
        BY <1>0, <1>2, <1>13, <3>1, <3>2
      <3> HIDE DEF p, L, y, q
      <3>4. p \in 1 .. L - y /\ q <= L
        BY <3>3
      <3> QED
        BY <3>3, <3>4 DEF y, q
    <2>4. Matches(sent[k], i, InFlight[f[k] - f[k0] + i])
      BY <2>1, <2>3 DEF Laid
    <2> QED
      BY <1>10, <2>3, <2>4
  <1>14. Laid(f)'
    <2>1. f[k0 + 1] + (L - z) = f[k0] + L
      BY <1>0, <1>2, <1>4, <1>12
    <2>2. f[k0] + L = IF reply = None THEN f[n + 1] ELSE f[n] + (index - 1)
      BY DEF Laid
    <2>3. k0 <= n
      BY <1>0, <1>1
    <2> HIDE DEF m, rest, z, r, k0, g, L
    <2>4. /\ f \in [1 .. Len(sent') + 1 -> Nat] /\ Len(got') <= Len(sent')
          /\ \A j, k \in 1 .. Len(sent') + 1 : j <= k => f[j] <= f[k]
          /\ \A k \in 1 .. Len(sent') : f[k + 1] = f[k] + Size(sent'[k].address)
      BY <1>0, <1>11, <2>3 DEF Laid
    <2>5. f[Len(got') + 1] + Len(InFlight') =
            IF reply' = None THEN f[Len(sent') + 1] ELSE f[Len(sent')] + (index' - 1)
      BY <1>0, <1>10, <1>11, <2>1, <2>2
    <2>6. \A k \in Len(got') + 1 .. Len(sent') : \A i \in 1 .. Size(sent'[k].address) :
            f[k] - f[Len(got') + 1] + i <= Len(InFlight') =>
              Matches(sent'[k], i, InFlight'[f[k] - f[Len(got') + 1] + i])
      <3>1. Len(got') + 1 = k0 + 1 /\ Len(sent') = n /\ sent' = sent /\ Len(InFlight') = L - z
        BY <1>0, <1>10, <1>11
      <3> SUFFICES ASSUME NEW k \in k0 + 1 .. n, NEW i \in 1 .. Size(sent[k].address),
                          f[k] - f[k0 + 1] + i <= L - z
                   PROVE  Matches(sent[k], i, InFlight'[f[k] - f[k0 + 1] + i])
        BY <3>1, Zenon
      <3> QED
        BY <1>13, Zenon
    <2> QED
      BY <2>4, <2>5, <2>6 DEF Laid, Matches
  <1> QED
    BY <1>0, <1>1, <1>7, <1>8, <1>9, <1>14

\* The invariant of the stream: to a PC that keeps up, the replies are laid end to
\* end, and what it has made of the first of them is right.
StreamInv ==
  /\ IInv /\ Sending
  /\ KeepsUp => (\E f : Laid(f)) /\ GotWhole

LEMMA InitStream == Init => StreamInv
  <1> SUFFICES ASSUME Init PROVE StreamInv
    OBVIOUS
  <1>1. IInv /\ TypeOK
    BY InitInv DEF IInv
  <1>2. Sending
    BY DEF Init, Sending
  <1>3. /\ reply = None /\ sent = <<>> /\ got = <<>> /\ stream = <<>>
        /\ usb.endpoint = "free" /\ usb.fifo = <<>>
    BY DEF Init
  <1>4. Waiting(usb) = <<>>
    BY <1>1, <1>3, Types, WaitingType
  <1>5. InFlight = <<>> /\ Len(InFlight) = 0 /\ Len(sent) = 0 /\ Len(got) = 0
    <2>1. <<>> \o <<>> = <<>>
      OBVIOUS
    <2> QED
      BY <1>3, <1>4, <2>1 DEF InFlight
  <1>6. Laid([k \in 1 .. 1 |-> 0])
    BY <1>3, <1>5 DEF Laid
  <1>7. GotWhole
    BY <1>5 DEF GotWhole
  <1> QED
    BY <1>1, <1>2, <1>6, <1>7 DEF StreamInv

\* The messages already made stay right: a reply's data may only be marked as changed.
LEMMA GotStays ==
  ASSUME TypeOK, Len(got) <= Len(sent), GotWhole, got' = got,
         \A k \in 1 .. Len(sent) : Later(sent[k], sent'[k])
  PROVE  GotWhole'
  <1>1. ASSUME NEW i \in 1 .. Len(got)
        PROVE  /\ Len(got[i]) = Size(sent'[i].address) /\ got[i][3] = sent'[i].address
               /\ ~sent'[i].changed => got[i] = Expected(sent'[i])
    <2>1. i \in 1 .. Len(sent)
      BY StreamFacts
    <2>2. Later(sent[i], sent'[i])
      BY <2>1
    <2>3. Expected(sent'[i]) = Expected(sent[i]) /\ sent'[i].address = sent[i].address
          /\ (sent[i].changed => sent'[i].changed)
      BY <2>2, LaterExpected DEF Later
    <2> QED
      BY <2>3 DEF GotWhole
  <1> QED
    BY <1>1 DEF GotWhole, Expected, BodyOf

\* A message made of a reply's bytes is the reply.
LEMMA MessageWhole ==
  ASSUME NEW r \in Replies, NEW m \in Seq(Byte), Len(m) = Size(r.address),
         \A i \in 1 .. Len(m) : Matches(r, i, m[i])
  PROVE  m[3] = r.address /\ (~r.changed => m = Expected(r))
  <1>1. /\ Expected(r) \in Seq(Byte) /\ Len(Expected(r)) = Len(m)
        /\ Expected(r)[3] = r.address
        /\ 3 \in 1 .. Len(m) /\ 3 <= HeaderSize + StampSize
    BY ExpectedFacts, Sizes
  <1>2. m[3] = r.address
    BY <1>1 DEF Matches
  <1>3. ASSUME ~r.changed PROVE m = Expected(r)
    <2>1. \A i \in 1 .. Len(m) : m[i] = Expected(r)[i]
      BY <1>3 DEF Matches
    <2> QED
      BY <1>1, <2>1, SeqEqual
  <1> QED
    BY <1>2, <1>3

LEMMA GotGrows ==
  ASSUME TypeOK, GotWhole, sent' = sent, Len(got) < Len(sent), NEW m \in Seq(Byte),
         got' = Append(got, m), Len(m) = Size(sent[Len(got) + 1].address),
         \A i \in 1 .. Len(m) : Matches(sent[Len(got) + 1], i, m[i])
  PROVE  GotWhole'
  <1>1. got \in Seq(Seq(Byte)) /\ Len(got) \in Nat /\ Len(sent) \in Nat
    BY StreamFacts
  <1>2. /\ Len(got') = Len(got) + 1 /\ got'[Len(got) + 1] = m
        /\ \A i \in 1 .. Len(got) : got'[i] = got[i]
    BY <1>1, AppendProperties
  <1>3. sent[Len(got) + 1] \in Replies
    <2>1. Len(got) + 1 \in 1 .. Len(sent)
      BY <1>1
    <2> QED
      BY <2>1, StreamFacts
  <1>4. /\ m[3] = sent[Len(got) + 1].address
        /\ ~sent[Len(got) + 1].changed => m = Expected(sent[Len(got) + 1])
    BY <1>3, MessageWhole
  <1>5. ASSUME NEW i \in 1 .. Len(got) + 1
        PROVE  /\ Len(got'[i]) = Size(sent[i].address) /\ got'[i][3] = sent[i].address
               /\ ~sent[i].changed => got'[i] = Expected(sent[i])
    <2>1. CASE i = Len(got) + 1
      BY <1>2, <1>4, <2>1
    <2>2. CASE i # Len(got) + 1
      <3>1. i \in 1 .. Len(got)
        BY <1>1, <2>2
      <3> QED
        BY <1>2, <3>1 DEF GotWhole
    <2> QED
      BY <2>1, <2>2
  <1> QED
    BY <1>2, <1>5 DEF GotWhole, Expected, BodyOf

\* A PC that keeps up has kept up.
LEMMA KeptUp ==
  ASSUME IInv, [Next]_vars, KeepsUp'
  PROVE  KeepsUp
  <1>1. CASE UNCHANGED <<sent, patience>>
    BY <1>1, KeepsUpSame
  <1>2. CASE \E a \in Address, t \in Stamps : BeginReply(a, t)
    <2>1. PICK a \in Address, t \in Stamps : BeginReply(a, t)
      BY <1>2
    <2> DEFINE r == [address |-> a, stamp |-> t, data |-> regs[a], changed |-> FALSE]
    <2>2. sent' = Append(sent, r) /\ patience' = patience
      BY <2>1 DEF BeginReply
    <2>3. r \in Replies /\ sent \in Seq(Replies)
      BY DEF IInv, TypeOK, Replies
    <2> HIDE DEF r
    <2>4. \A i \in DOMAIN sent : i \in DOMAIN sent' /\ sent'[i] = sent[i]
      BY <2>2, <2>3
    <2> QED
      BY <2>2, <2>4 DEF KeepsUp
  <1>3. CASE \E a \in Shared, v \in Contents : AppInterrupt(a, v)
    <2>1. PICK a \in Shared, v \in Contents : AppInterrupt(a, v)
      BY <1>3
    <2>2. Len(sent') = Len(sent) /\ \A k \in 1 .. Len(sent) : Later(sent[k], sent'[k])
      BY <2>1, InterruptLater
    <2>3. patience' = patience
      BY <2>1 DEF AppInterrupt
    <2>4. DOMAIN sent = 1 .. Len(sent) /\ DOMAIN sent' = 1 .. Len(sent')
      BY StepKeeps DEF IInv, TypeOK
    <2> QED
      BY <2>2, <2>3, <2>4 DEF KeepsUp, Later
  <1>4. UNCHANGED <<sent, patience>> \/ (\E a \in Address, t \in Stamps : BeginReply(a, t))
          \/ (\E a \in Shared, v \in Contents : AppInterrupt(a, v))
    BY DEF Next, Device, Pc, PushHeaderByte, SumPayloadByte, PushPayloadByte, PushChecksum,
           EndReply, TudTask, PcPolls, PcTakesMessage, vars
  <1> QED
    BY <1>1, <1>2, <1>3, <1>4

LEMMA StreamKeeps ==
  ASSUME StreamInv, [Next]_vars
  PROVE  StreamInv'
  <1>0. IInv /\ Sending /\ TypeOK
    BY DEF StreamInv, IInv
  <1>1. IInv' /\ Sending'
    BY <1>0, StepKeeps, SendingKeeps
  <1>2. ASSUME KeepsUp' PROVE (\E f : Laid(f)') /\ GotWhole'
    <2>1. KeepsUp /\ GotWhole /\ \E f : Laid(f)
      BY <1>0, <1>2, KeptUp DEF StreamInv
    <2>2. PICK f : Laid(f)
      BY <2>1
    <2>3. Len(got) <= Len(sent) /\ \A r : Later(r, r)
      BY <2>2 DEF Laid, Later
    <2>4. CASE PushHeaderByte \/ PushPayloadByte \/ PushChecksum
      <3>1. Laid(f)'
        BY <1>0, <2>1, <2>2, <2>4, PushLaid
      <3>2. UNCHANGED <<got, sent>>
        BY <2>4 DEF PushHeaderByte, PushPayloadByte, PushChecksum, pc
      <3> QED
        BY <1>0, <2>1, <2>3, <3>1, <3>2, GotStays
    <2>5. CASE SumPayloadByte \/ EndReply \/ TudTask \/ PcPolls \/ UNCHANGED vars
      <3>1. Laid(f)' /\ UNCHANGED <<got, sent>>
        BY <1>0, <2>2, <2>5, MoveLaid
      <3> QED
        BY <1>0, <2>1, <2>3, <3>1, GotStays
    <2>6. CASE PcTakesMessage
      <3>1. Laid(f)' /\ sent' = sent /\ Len(got) < Len(sent)
        BY <1>0, <2>1, <2>2, <2>6, TakeLaid
      <3>2. PICK m \in Seq(Byte) :
              /\ got' = Append(got, m) /\ Len(m) = Size(sent[Len(got) + 1].address)
              /\ \A i \in 1 .. Len(m) : Matches(sent[Len(got) + 1], i, m[i])
        BY <1>0, <2>1, <2>2, <2>6, TakeLaid
      <3>3. GotWhole'
        BY <1>0, <2>1, <3>1, <3>2, GotGrows
      <3> QED
        BY <3>1, <3>3
    <2>7. CASE \E a \in Address, t \in Stamps : BeginReply(a, t)
      <3>1. PICK a \in Address, t \in Stamps : BeginReply(a, t)
        BY <2>7
      <3>2. /\ \E h : Laid(h)'
            /\ got' = got /\ \A k \in 1 .. Len(sent) : sent'[k] = sent[k]
        BY <1>0, <2>2, <3>1, BeginLaid
      <3>3. \A k \in 1 .. Len(sent) : Later(sent[k], sent'[k])
        BY <2>3, <3>2
      <3> QED
        BY <1>0, <2>1, <2>3, <3>2, <3>3, GotStays
    <2>8. CASE \E a \in Shared, v \in Contents : AppInterrupt(a, v)
      <3>1. PICK a \in Shared, v \in Contents : AppInterrupt(a, v)
        BY <2>8
      <3>2. Laid(f)' /\ got' = got
        BY <1>0, <2>2, <3>1, InterruptLaid
      <3>3. \A k \in 1 .. Len(sent) : Later(sent[k], sent'[k])
        BY <1>0, <3>1, InterruptLater
      <3> QED
        BY <1>0, <2>1, <2>3, <3>2, <3>3, GotStays
    <2> QED
      BY <2>4, <2>5, <2>6, <2>7, <2>8 DEF Next, Device, Pc
  <1> QED
    BY <1>1, <1>2 DEF StreamInv

\* A PC that keeps up makes of the stream the replies it was sent, each of them
\* whole, once and in order, for every size of reply, FIFO and packet and however
\* many there are; one whose data no interrupt changed under way has the right
\* checksum.
THEOREM RepliesWholeCorrect == Spec => []RepliesWhole
  <1>1. Init => StreamInv
    BY InitStream
  <1>2. StreamInv /\ [Next]_vars => StreamInv'
    BY StreamKeeps
  <1>3. StreamInv => RepliesWhole
    <2> SUFFICES ASSUME StreamInv, KeepsUp
                 PROVE  /\ Len(got) <= Len(sent)
                        /\ \A i \in DOMAIN got :
                             IF sent[i].changed
                             THEN got[i][3] = sent[i].address /\ Len(got[i]) = Size(sent[i].address)
                             ELSE got[i] = Expected(sent[i])
      BY DEF RepliesWhole
    <2>1. GotWhole /\ Len(got) <= Len(sent)
      BY DEF StreamInv, Laid
    <2>2. DOMAIN got = 1 .. Len(got)
      BY DEF StreamInv, IInv, TypeOK
    <2> QED
      BY <2>1, <2>2 DEF GotWhole
  <1> QED
    BY <1>1, <1>2, <1>3, PTL DEF Spec

-----------------------------------------------------------------------------
(* Nothing is left behind.                                                 *)

\* Once a reply is written, a free endpoint has nothing behind it.
Drained ==
  usb.endpoint = "free" /\ (reply = None \/ index > Size(reply)) => usb.fifo = <<>>

LEMMA DrainedKeeps ==
  ASSUME IInv, Drained, [Next]_vars
  PROVE  Drained'
  <1>0. /\ TypeOK /\ Shape /\ UsbOK(usb) /\ index \in Nat
        /\ (reply # None => reply \in Address)
    BY Types DEF IInv
  <1>1. \A u : UsbOK(u) /\ Len(u.fifo) = 0 => u.fifo = <<>>
    BY EmptySeq DEF UsbOK
  <1>2. CASE PushHeaderByte \/ PushPayloadByte
    <2>1. reply' = reply /\ reply # None /\ index' = index + 1 /\ index <= Body(reply)
      <3>1. reply' = reply /\ reply # None /\ index' = index + 1
        BY <1>0, <1>2 DEF PushHeaderByte, PushPayloadByte, Write, Shape
      <3>2. index <= Body(reply)
        BY <1>0, <1>2, <3>1, Sizes DEF PushHeaderByte, PushPayloadByte, Shape
      <3> QED
        BY <3>1, <3>2
    <2>2. ~(index' > Size(reply))
      BY <1>0, <2>1, Sizes
    <2> QED
      BY <2>1, <2>2 DEF Drained
  <1>3. CASE PushChecksum
    <2> DEFINE w == tud_cdc_write_char(usb, checksum)
    <2>1. UsbOK(w)
      BY <1>0, WriteFacts, Types
    <2>2. usb' = tud_cdc_write_flush(w)
      BY <1>3 DEF PushChecksum, Flushed
    <2> HIDE DEF w
    <2>3. UsbOK(usb') /\ (usb'.endpoint = "free" => Len(usb'.fifo) = 0)
      BY <2>1, <2>2, FlushFacts
    <2> QED
      BY <1>1, <2>3 DEF Drained
  <1>4. CASE EndReply \/ TudTask
    <2>1. usb' = tud_task(usb)
      BY <1>4 DEF EndReply, TudTask, Polled
    <2>2. /\ UsbOK(usb') /\ (usb.endpoint # "taken" => usb' = usb)
          /\ usb.endpoint = "taken" /\ usb'.endpoint = "free" => Len(usb'.fifo) = 0
      BY <1>0, <2>1, TaskFacts
    <2>3. reply = None \/ index > Size(reply)
      BY <1>0, <1>4, Sizes DEF EndReply, TudTask
    <2> QED
      BY <1>1, <2>2, <2>3 DEF Drained
  <1>5. CASE PcPolls
    <2>1. usb'.endpoint = "taken"
      BY <1>0, <1>5 DEF PcPolls, UsbOK
    <2> QED
      BY <2>1 DEF Drained
  <1>6. CASE \E a \in Address, t \in Stamps : BeginReply(a, t)
    <2>1. PICK a \in Address, t \in Stamps : BeginReply(a, t)
      BY <1>6
    <2>2. reply' = a /\ index' = 1 /\ a # None /\ Size(a) \in Nat /\ Size(a) >= 1
      BY <2>1, Sizes DEF BeginReply
    <2> QED
      BY <2>2 DEF Drained
  <1>7. CASE UNCHANGED <<reply, index, usb>>
    BY <1>7 DEF Drained
  <1>8. SumPayloadByte \/ PcTakesMessage \/ (\E a \in Shared, v \in Contents : AppInterrupt(a, v))
          \/ UNCHANGED vars => UNCHANGED <<reply, index, usb>>
    BY DEF SumPayloadByte, PcTakesMessage, AppInterrupt, vars, sending
  <1> QED
    BY <1>2, <1>3, <1>4, <1>5, <1>6, <1>7, <1>8 DEF Next, Device, Pc

LEMMA AllArrived ==
  ASSUME StreamInv, Drained
  PROVE  NothingLeftBehind
  <1> SUFFICES ASSUME KeepsUp, NothingPends, Len(got) # Len(sent) PROVE FALSE
    BY DEF NothingLeftBehind
  <1>0. /\ TypeOK /\ Shape /\ UsbOK(usb) /\ reply = None /\ usb.endpoint = "free" /\ ~HasMessage
        /\ Len(got) \in Nat /\ Len(sent) \in Nat /\ Len(stream) \in Nat
        /\ Len(InFlight) = Len(stream) + Len(Waiting(usb))
    BY StreamFacts, Types DEF StreamInv, IInv, NothingPends
  <1>1. PICK f : Laid(f)
    BY DEF StreamInv
  <1> DEFINE k == Len(got) + 1
             z == Size(sent[k].address)
  <1>2. Len(got) < Len(sent)
    BY <1>0, <1>1 DEF Laid
  <1>3. k \in 1 .. Len(sent) /\ z \in Nat /\ 3 <= z
    BY <1>0, <1>2, StreamFacts
  <1>4. Len(Waiting(usb)) = 0
    <2>1. Waiting(usb) = usb.fifo /\ usb.fifo = <<>> /\ Len(<<>>) = 0
      BY <1>0, WaitingType DEF Drained
    <2> QED
      BY <2>1
  <1>5. /\ f[k] \in Nat /\ f[k + 1] = f[k] + z /\ f[k + 1] <= f[Len(sent) + 1]
        /\ f[k] + Len(InFlight) = f[Len(sent) + 1] /\ f[Len(sent) + 1] \in Nat
    <2>1. /\ k \in 1 .. Len(sent) + 1 /\ k + 1 \in 1 .. Len(sent) + 1 /\ k + 1 <= Len(sent) + 1
          /\ Len(sent) + 1 \in 1 .. Len(sent) + 1
      BY <1>0, <1>3
    <2> QED
      BY <1>0, <1>1, <1>3, <2>1 DEF Laid
  <1>6. Len(stream) >= z
    <2> DEFINE a == f[k]
               b == f[Len(sent) + 1]
               l == Len(stream)
    <2>1. a \in Nat /\ b \in Nat /\ l \in Nat /\ z \in Nat /\ a + z <= b /\ a + l = b
      BY <1>0, <1>3, <1>4, <1>5
    <2> HIDE DEF a, b, l, z
    <2>2. l >= z
      BY <2>1
    <2> QED
      BY <2>2 DEF l
  <1>7. Len(stream) >= 2
    BY <1>0, <1>3, <1>6
  <1>8. stream[2] + 2 = z
    BY <1>0, <1>1, <1>2, <1>7, HeadLength
  <1> QED
    BY <1>0, <1>6, <1>7, <1>8 DEF HasMessage

\* To a PC that keeps up nothing of a reply is left behind: when no packet is under
\* way and no message to be made, it has made all the replies.
THEOREM NothingLeftBehindCorrect == Spec => []NothingLeftBehind
  <1>1. Init => StreamInv /\ Drained
    BY InitStream DEF Init, Drained
  <1>2. StreamInv /\ Drained /\ [Next]_vars => StreamInv' /\ Drained'
    BY StreamKeeps, DrainedKeeps DEF StreamInv
  <1>3. StreamInv /\ Drained => NothingLeftBehind
    BY AllArrived
  <1> QED
    BY <1>1, <1>2, <1>3, PTL DEF Spec
=============================================================================
