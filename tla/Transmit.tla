------------------------------ MODULE Transmit ------------------------------
(***************************************************************************)
(* The way of a reply to the PC: send_harp_reply() pushes it byte by byte  *)
(* into TinyUSB's transmit FIFO, which drops what it has no room for; USB  *)
(* packets leave as the PC polls for them; the PC cuts the stream into     *)
(* messages by their raw_length.  The serial port is open throughout.      *)
(***************************************************************************)
EXTENDS Integers, Sequences

CONSTANTS
  ByteRange,   \* number of values of a uint8_t
  HeaderSize,  \* sizeof(msg_header_t), 5
  StampSize,   \* bytes of R_TIMESTAMP_SECOND and R_TIMESTAMP_MICRO, 6
  NumBytes,    \* the registers' sizes, by address
  Contents,    \* what a register may hold
  Shared,      \* the registers that interrupts of the application write
  Stamps,      \* values of the bytes of a timestamp
  FifoSize,    \* CFG_TUD_CDC_TX_BUFSIZE, 256
  PacketSize,  \* USBD_CDC_IN_OUT_MAX_SIZE, 64
  Patience,    \* how many replies may end before the PC takes a packet; 0 for
               \* a PC that has read everything before it causes a reply
  MaxReplies,  \* bound: replies in a behaviour
  None

Byte    == 0 .. ByteRange - 1
Address == DOMAIN NumBytes

ASSUME TransmitAssumption ==
  /\ HeaderSize \in Nat /\ HeaderSize > 2 /\ StampSize \in Nat
  /\ ByteRange \in Nat \ {0}
  /\ Address \subseteq Byte /\ NumBytes \in [Address -> Byte]
  /\ Shared \subseteq Address /\ Contents \subseteq Byte /\ Stamps \subseteq Byte
  /\ FifoSize \in Nat /\ PacketSize \in Nat \ {0} /\ PacketSize <= FifoSize
  /\ Patience \subseteq Nat /\ MaxReplies \in Nat
  /\ None \notin Address

VARIABLES
  regs,      \* the contents of the registers
  reply,     \* the address a reply is being sent for, or None
  index,     \* the next byte of the reply, from 1
  summed,    \* that byte has been added to the checksum, not yet written
  checksum,
  stamp,     \* the timestamp of the reply
  usb,       \* the transmit FIFO, the IN packet, and who has it
  stream,    \* bytes the PC has received and not yet made a message of
  got,       \* the messages it has made of them
  sent,      \* history: the replies begun, whether their data changed meanwhile
  cut,       \* history: a byte of the last reply was dropped
  patience,  \* the PC's, chosen once
  unpolled   \* replies ended since tud_task() last saw a packet taken

sending == <<reply, index, summed, checksum, stamp>>
pc      == <<stream, got>>
vars    == <<regs, sending, usb, pc, sent, cut, patience, unpolled>>

Endpoint == {"free", "armed", "taken"}

\* Body bytes of a reply: all but the checksum.
Body(a) == HeaderSize + StampSize + NumBytes[a]
Size(a) == Body(a) + 1

TypeOK ==
  /\ regs \in [Address -> Contents]
  /\ reply \in Address \cup {None} /\ index \in Nat /\ summed \in BOOLEAN
  /\ checksum \in Byte /\ stamp \in Stamps
  /\ usb \in [fifo : Seq(Byte), packet : Seq(Byte), endpoint : Endpoint]
  /\ Len(usb.fifo) <= FifoSize /\ Len(usb.packet) <= PacketSize
  /\ stream \in Seq(Byte) /\ got \in Seq(Seq(Byte))
  /\ sent \in Seq([address : Address, stamp : Stamps, data : Contents, changed : BOOLEAN])
  /\ cut \in BOOLEAN /\ patience \in Patience /\ unpolled \in Nat
  /\ reply # None => index \in 1 .. Size(reply) + 1 /\ sent # <<>>

Init ==
  /\ \E v \in Contents : regs = [a \in Address |-> v]
  /\ reply = None /\ index = 1 /\ summed = FALSE /\ checksum = 0 /\ stamp \in Stamps
  /\ usb = [fifo |-> <<>>, packet |-> <<>>, endpoint |-> "free"]
  /\ stream = <<>> /\ got = <<>> /\ sent = <<>> /\ cut = FALSE
  /\ patience \in Patience /\ unpolled = 0

-----------------------------------------------------------------------------
(* TinyUSB, as the core uses it.                                           *)

\* A packet is handed to the endpoint if that is free.
tud_cdc_write_flush(u) ==
  LET n == IF Len(u.fifo) < PacketSize THEN Len(u.fifo) ELSE PacketSize
  IN IF u.endpoint # "free" \/ u.fifo = <<>> THEN u
     ELSE [fifo     |-> SubSeq(u.fifo, n + 1, Len(u.fifo)),
           packet   |-> SubSeq(u.fifo, 1, n),
           endpoint |-> "armed"]

HasRoom(u) == Len(u.fifo) < FifoSize

\* A full packet is flushed at once.
tud_cdc_write_char(u, byte) ==
  LET pushed == IF HasRoom(u) THEN [u EXCEPT !.fifo = Append(@, byte)] ELSE u
  IN IF Len(pushed.fifo) >= PacketSize THEN tud_cdc_write_flush(pushed) ELSE pushed

\* Mutated form of the next definition: the next packet is left in the FIFO.
TaskNoNext(u) ==
  IF u.endpoint = "taken" THEN [u EXCEPT !.endpoint = "free", !.packet = <<>>] ELSE u

\* A packet the PC has taken is followed by the next.
tud_task(u) ==
  IF u.endpoint = "taken"
  THEN tud_cdc_write_flush([u EXCEPT !.endpoint = "free", !.packet = <<>>])
  ELSE u

-----------------------------------------------------------------------------
(* send_harp_reply()                                                       *)

\* Mutated forms of the next definitions: a length without the checksum, a sum
\* that is no longer a uint8_t, tud_task() called when the FIFO is full, no flush, no
\* tud_task() at the end.
RawLengthShort(a) == (NumBytes[a] + HeaderSize + StampSize - 2) % ByteRange
AddToChecksumWide(byte) == checksum' = checksum + byte
WriteMakingRoom(byte) ==
  LET u == IF HasRoom(usb) THEN usb ELSE tud_task(usb)
  IN /\ usb' = tud_cdc_write_char(u, byte)
     /\ cut' = (cut \/ ~HasRoom(u))
     /\ index' = index + 1
NotFlushed(u) == u
NotPolled(u)  == u

\* The number of bytes that follow raw_length, a uint8_t: num_bytes + 10.
RawLength(a) == (NumBytes[a] + HeaderSize + StampSize - 1) % ByteRange

Header(a) == [i \in 1 .. HeaderSize |->
                CASE i = 2 -> RawLength(a) [] i = 3 -> a [] OTHER -> 0]

\* Byte i of the reply to a read of a at time t, if a holds v: header, seconds
\* and microseconds, payload.
ByteOf(a, t, v, i) ==
  CASE i <= HeaderSize                                 -> Header(a)[i]
    [] i \in HeaderSize + 1 .. HeaderSize + StampSize -> t
    [] OTHER                                           -> (v + i) % ByteRange

ByteNow == ByteOf(reply, stamp, regs[reply], index)

NothingPending == usb.fifo = <<>> /\ usb.endpoint = "free" /\ stream = <<>>

MayReply == IF patience = 0 THEN NothingPending ELSE unpolled < patience

BeginReply(a, t) ==
  /\ reply = None /\ MayReply /\ Len(sent) < MaxReplies
  /\ reply' = a /\ index' = 1 /\ summed' = FALSE /\ checksum' = 0 /\ stamp' = t
  /\ sent' = Append(sent, [address |-> a, stamp |-> t, data |-> regs[a], changed |-> FALSE])
  /\ cut' = FALSE
  /\ UNCHANGED <<regs, usb, pc, patience, unpolled>>

AddToChecksum(byte) == checksum' = (checksum + byte) % ByteRange

Write(byte) ==
  /\ usb' = tud_cdc_write_char(usb, byte)
  /\ cut' = (cut \/ ~HasRoom(usb))
  /\ index' = index + 1

\* Nobody else writes the header or, meanwhile, the timestamp registers.
PushHeaderByte ==
  /\ reply # None /\ index <= HeaderSize + StampSize
  /\ AddToChecksum(ByteNow) /\ Write(ByteNow)
  /\ UNCHANGED <<regs, reply, summed, stamp, pc, sent, patience, unpolled>>

\* "checksum += byte" and "tud_cdc_write_char(byte)" each read the register.
SumPayloadByte ==
  /\ reply # None /\ index \in HeaderSize + StampSize + 1 .. Body(reply) /\ ~summed
  /\ AddToChecksum(ByteNow) /\ summed' = TRUE
  /\ UNCHANGED <<regs, reply, index, stamp, usb, pc, sent, cut, patience, unpolled>>

PushPayloadByte ==
  /\ summed
  /\ Write(ByteNow) /\ summed' = FALSE
  /\ UNCHANGED <<regs, reply, checksum, stamp, pc, sent, patience, unpolled>>

Flushed(u) == tud_cdc_write_flush(u)

\* The checksum, and the flush of what is no full packet.
PushChecksum ==
  /\ reply # None /\ index = Size(reply)
  /\ usb' = Flushed(tud_cdc_write_char(usb, checksum))
  /\ cut' = (cut \/ ~HasRoom(usb))
  /\ index' = index + 1
  /\ UNCHANGED <<regs, reply, summed, checksum, stamp, pc, sent, patience, unpolled>>

Polled(u) == tud_task(u)

EndReply ==
  /\ reply # None /\ index = Size(reply) + 1
  /\ usb' = Polled(usb)
  /\ unpolled' = IF usb.endpoint = "taken" THEN 0 ELSE unpolled + 1
  /\ reply' = None
  /\ UNCHANGED <<regs, index, summed, checksum, stamp, pc, sent, cut, patience>>

-----------------------------------------------------------------------------
(* The main loop, an interrupt of the application, and the PC.             *)

TudTask ==
  /\ reply = None /\ usb.endpoint = "taken"
  /\ usb' = tud_task(usb) /\ unpolled' = 0
  /\ UNCHANGED <<regs, sending, pc, sent, cut, patience>>

\* A register changes, perhaps the one that is being sent; bounded to one reply
\* in a behaviour.
AppInterrupt(a, v) ==
  /\ regs[a] # v /\ \A i \in DOMAIN sent : ~sent[i].changed
  /\ regs' = [regs EXCEPT ![a] = v]
  /\ sent' = IF reply = a THEN [sent EXCEPT ![Len(sent)].changed = TRUE] ELSE sent
  /\ UNCHANGED <<sending, usb, pc, cut, patience, unpolled>>

\* A message is raw_length + 2 bytes: msg_size() of its header.
HasMessage == Len(stream) >= 2 /\ Len(stream) >= stream[2] + 2

\* The PC makes messages of what it has before it polls for more.
PcPolls ==
  /\ usb.endpoint = "armed" /\ ~HasMessage
  /\ usb' = [usb EXCEPT !.endpoint = "taken"]
  /\ stream' = stream \o usb.packet
  /\ UNCHANGED <<regs, sending, got, sent, cut, patience, unpolled>>

PcTakesMessage ==
  /\ HasMessage
  /\ got' = Append(got, SubSeq(stream, 1, stream[2] + 2))
  /\ stream' = SubSeq(stream, stream[2] + 3, Len(stream))
  /\ UNCHANGED <<regs, sending, usb, sent, cut, patience, unpolled>>

Device == PushHeaderByte \/ SumPayloadByte \/ PushPayloadByte \/ PushChecksum \/ EndReply \/ TudTask
Pc     == PcPolls \/ PcTakesMessage

Next == \/ Device \/ Pc
        \/ \E a \in Address, t \in Stamps : BeginReply(a, t)
        \/ \E a \in Shared, v \in Contents : AppInterrupt(a, v)

Spec == Init /\ [][Next]_vars

\* Handlers do not block, and a PC that holds the port open polls it.
FairSpec == Spec /\ WF_vars(Device) /\ WF_vars(Pc)

-----------------------------------------------------------------------------

\* The sums of the first bytes of s.
Sums(s) ==
  LET sum[n \in 0 .. Len(s)] == IF n = 0 THEN 0 ELSE sum[n - 1] + s[n]
  IN sum

\* What a reply should look like: its body as it was when it began, and the
\* 8-bit sum of that.
BodyOf(r) == [i \in 1 .. Body(r.address) |-> ByteOf(r.address, r.stamp, r.data, i)]
Expected(r) == Append(BodyOf(r), Sums(BodyOf(r))[Body(r.address)] % ByteRange)

\* The PC keeps up: it takes a packet before so many replies have ended that
\* they no longer fit in one, or it waits for each reply and they fit in the
\* FIFO.  Their lengths must fit in a raw_length.
KeepsUp ==
  \A i \in DOMAIN sent :
    /\ Size(sent[i].address) < ByteRange + 2
    /\ IF patience = 0 THEN Size(sent[i].address) <= FifoSize
                        ELSE patience * Size(sent[i].address) <= PacketSize

\* "Call tud_task to handle case we issue multiple harp replies in a row": to a PC
\* that keeps up, however many there are, no byte is lost.
NoneCut == KeepsUp => ~cut

\* What that PC makes of the stream are the replies, whole, once and in order; a
\* checksum is wrong only if an interrupt changed the data under way.
RepliesWhole ==
  KeepsUp => /\ Len(got) <= Len(sent)
             /\ \A i \in DOMAIN got :
                  IF sent[i].changed
                  THEN got[i][3] = sent[i].address /\ Len(got[i]) = Size(sent[i].address)
                  ELSE got[i] = Expected(sent[i])

\* "Send usb packet, even if not full": when no packet is under way and the PC has
\* made all the messages it can, nothing of a reply is left behind.
NothingPends == reply = None /\ usb.endpoint = "free" /\ ~HasMessage
NothingLeftBehind == KeepsUp /\ NothingPends => Len(got) = Len(sent)

\* ... and that is reached: none of them waits for another reply.
RepliesArrive == []<>(KeepsUp => Len(got) = Len(sent))

\* However far behind the PC is, what is lost of a reply is its end: after a
\* byte that was dropped, no other byte of it gets in.
LossesAreTails ==
  [][cut /\ cut' => Len(usb'.fifo) + Len(usb'.packet) <= Len(usb.fifo) + Len(usb.packet)]_vars

\* "... to handle case we issue multiple harp replies in a row": nothing is lost,
\* however slow the PC.
NothingLost == ~cut
=============================================================================
