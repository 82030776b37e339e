------------------------------ MODULE CdcInput ------------------------------
(***************************************************************************)
(* The serial receiver of HarpCore: process_cdc_input() gathers the bytes  *)
(* of a message in rx_buffer_ and raises new_msg_; run() then hands the    *)
(* message to the handlers of the registers, which reply, and clears it.   *)
(*                                                                         *)
(* Bytes are numbers, of which the receiver looks at one: the raw_length.  *)
(* ByteRange stands for 256 and HeaderSize for the 5 of msg_header_t.      *)
(***************************************************************************)
EXTENDS Integers, Sequences

CONSTANTS
  ByteRange,    \* number of values of a uint8_t
  HeaderSize,   \* sizeof(msg_header_t)
  FifoSize,     \* CFG_TUD_CDC_RX_BUFSIZE
  Messages,     \* what the PC sends, as sequences of bytes
  MaxInFlight,  \* how many messages the PC sends ahead of their replies
  MaxSent,      \* bound: messages sent in a behaviour
  MaxCuts       \* bound: times the PC closes the port on bytes under way

BufSize == ByteRange - 1        \* MAX_PACKET_SIZE
Byte    == 0 .. ByteRange - 1

ASSUME CdcAssumption ==
  /\ HeaderSize \in Nat /\ HeaderSize > 1
  /\ ByteRange \in Nat /\ ByteRange > HeaderSize + 1
  /\ FifoSize \in Nat \ {0}
  /\ MaxInFlight \in Nat /\ MaxSent \in Nat /\ MaxCuts \in Nat

\* A Harp message holds a header and a checksum, fits in the receive buffer,
\* and its second byte counts the bytes that follow it.
ASSUME MessagesAssumption ==
  \A m \in Messages : /\ m \in Seq(Byte)
                      /\ Len(m) \in HeaderSize + 1 .. BufSize
                      /\ m[2] = Len(m) - 2

VARIABLES
  wire,              \* bytes the PC has written, not yet in the device
  fifo,              \* TinyUSB's receive FIFO
  rx_buffer_,
  rx_buffer_index_,  \* total_bytes_read_ is a reference to it
  new_msg_,
  replied,           \* the PC has the reply to the message in the buffer
  sent, handled,     \* history: messages sent by the PC, seen by the handlers
  cuts               \* times the port was closed on bytes under way

pcs  == <<sent, cuts>>
vars == <<wire, fifo, rx_buffer_, rx_buffer_index_, new_msg_, replied, pcs, handled>>

TypeOK ==
  /\ wire \in Seq(Byte)
  /\ fifo \in Seq(Byte) /\ Len(fifo) <= FifoSize
  /\ rx_buffer_ \in [0 .. BufSize - 1 -> Byte]
  /\ rx_buffer_index_ \in Byte
  /\ new_msg_ \in BOOLEAN /\ replied \in BOOLEAN
  /\ sent \in Seq(Messages) /\ handled \in Seq(Seq(Byte)) /\ cuts \in 0 .. MaxCuts

Init ==
  /\ wire = <<>> /\ fifo = <<>>
  /\ rx_buffer_ = [i \in 0 .. BufSize - 1 |-> 0]
  /\ rx_buffer_index_ = 0 /\ new_msg_ = FALSE /\ replied = FALSE
  /\ sent = <<>> /\ handled = <<>> /\ cuts = 0

\* Mutated forms of the next definitions: the checksum left out, a size that is
\* no longer a uint8_t, and a comparison off by one.
MsgSizeNoChecksum(buffer)   == (buffer[1] + 1) % ByteRange
MsgSizeWide(buffer)         == buffer[1] + 2
CompleteLate(buffer, total) ==
  total >= HeaderSize /\ total > (buffer[1] + 2) % ByteRange

\* header.msg_size() of the header in a buffer, a uint8_t.
MsgSize(buffer) == (buffer[1] + 2) % ByteRange

-----------------------------------------------------------------------------

\* A message counts as answered when its reply is in, or it has been handled
\* without one.
Answered == Len(handled) + IF replied THEN 1 ELSE 0

PcSends(m) ==
  /\ Len(sent) < MaxSent
  /\ Len(sent) - Answered < MaxInFlight
  /\ wire' = wire \o m
  /\ sent' = Append(sent, m)
  /\ UNCHANGED <<fifo, rx_buffer_, rx_buffer_index_, new_msg_, replied, handled, cuts>>

\* The PC closes the port: what has not reached the device is lost.  Nobody
\* tells the receiver; a reset of the bus empties TinyUSB's FIFO as well.
PcCloses ==
  /\ wire # <<>> /\ cuts < MaxCuts
  /\ cuts' = cuts + 1
  /\ wire' = <<>> /\ fifo' \in {fifo, <<>>}
  /\ UNCHANGED <<rx_buffer_, rx_buffer_index_, new_msg_, replied, sent, handled>>

\* tud_task(), which run() and every reply call: a USB packet of n bytes comes
\* in.  Bytes that do not fit wait on the PC's side.
UsbDelivers(n) ==
  /\ n <= Len(wire) /\ Len(fifo) + n <= FifoSize
  /\ fifo' = fifo \o SubSeq(wire, 1, n)
  /\ wire' = SubSeq(wire, n + 1, Len(wire))
  /\ UNCHANGED <<rx_buffer_, rx_buffer_index_, new_msg_, replied, pcs, handled>>

\* A mutated form of the next definition: the header not looked at.
MaxBytesToReadAll == BufSize - rx_buffer_index_

\* max_bytes_to_read: the rest of the message once its header is in.
MaxBytesToRead ==
  IF rx_buffer_index_ >= HeaderSize THEN MsgSize(rx_buffer_) - rx_buffer_index_
                                    ELSE BufSize - rx_buffer_index_

BytesRead == IF Len(fifo) < MaxBytesToRead THEN Len(fifo) ELSE MaxBytesToRead

\* tud_cdc_read() copies n bytes of the FIFO to the end of what is there.
Filled(n) ==
  [i \in 0 .. BufSize - 1 |->
     IF i \in rx_buffer_index_ .. rx_buffer_index_ + n - 1
     THEN fifo[i - rx_buffer_index_ + 1] ELSE rx_buffer_[i]]

Complete(buffer, total) == total >= HeaderSize /\ total >= MsgSize(buffer)

process_cdc_input ==
  /\ ~new_msg_ /\ fifo # <<>>
  /\ LET n == BytesRead
         total == rx_buffer_index_ + n
     IN /\ rx_buffer_' = Filled(n)
        /\ fifo' = SubSeq(fifo, n + 1, Len(fifo))
        /\ new_msg_' = Complete(Filled(n), total)
        /\ rx_buffer_index_' = IF Complete(Filled(n), total) THEN 0 ELSE total
  /\ UNCHANGED <<wire, replied, pcs, handled>>

\* The message in the buffer: get_buffered_msg().
BufferedMsg == [i \in 1 .. MsgSize(rx_buffer_) |-> rx_buffer_[i - 1]]

\* The handler of a register replies, and send_harp_reply() ends with tud_task():
\* the PC may have the reply, and send on, while the message is in the buffer.
Reply ==
  /\ new_msg_ /\ ~replied
  /\ replied' = TRUE
  /\ UNCHANGED <<wire, fifo, rx_buffer_, rx_buffer_index_, new_msg_, pcs, handled>>

\* handle_buffered_core_message(), handle_buffered_app_message() or, for an
\* address neither knows, the end of run(): each path clears the message, with
\* or without a reply.
HandleMessage ==
  /\ new_msg_
  /\ new_msg_' = FALSE /\ replied' = FALSE
  /\ handled' = Append(handled, BufferedMsg)
  /\ UNCHANGED <<wire, fifo, rx_buffer_, rx_buffer_index_, pcs>>

Next ==
  \/ (\E m \in Messages : PcSends(m)) \/ PcCloses
  \/ \E n \in 1 .. FifoSize : UsbDelivers(n)
  \/ process_cdc_input
  \/ Reply
  \/ HandleMessage

Spec == Init /\ [][Next]_vars

\* The loop goes on and the PC's bytes go through.
FairSpec ==
  /\ Spec
  /\ WF_vars(process_cdc_input) /\ WF_vars(HandleMessage)
  /\ WF_vars(\E n \in 1 .. FifoSize : UsbDelivers(n))

-----------------------------------------------------------------------------

\* Whatever bytes arrive, reads stay in rx_buffer_, the uint8_t index does not
\* wrap, and once the header is in there is a positive number of bytes to read:
\* "header.msg_size() - total_bytes_read_" never turns into a huge unsigned one.
ReadsFit ==
  ~new_msg_ => MaxBytesToRead \in 1 .. BufSize - rx_buffer_index_

\* "Always clear any unhandled messages, so we don't lock up": whatever the
\* receiver makes of the bytes, and wherever the PC cut them off, it takes in all
\* of them.
NeverLocksUp == <>[](wire = <<>> /\ fifo = <<>> /\ ~new_msg_)

\* "If the header has arrived, only read up to the full payload": the read that
\* completes a message whose header was in takes the rest of it and no more, also
\* when the header is that of a message the PC cut off or of bytes out of step.
CompletesExactly ==
  [][~new_msg_ /\ new_msg_' /\ rx_buffer_index_ >= HeaderSize =>
       rx_buffer_index_ + Len(fifo) - Len(fifo') = MsgSize(rx_buffer_')]_vars

\* To a PC that waits for each reply, though not for the message to be cleared,
\* every message is handled whole, once, in order ...
Channel == INSTANCE MessageChannel
             WITH pending <- SubSeq(sent, Len(handled) + 1, Len(sent))
DeliversMessages == Channel!Safety

\* ... and it is handled at last: none waits for bytes that are in already, or for
\* the next message to push it through.
HandlesAll == Channel!Liveness

\* "Only read up to the full payload so we can process one message at a time":
\* the read that completes a message takes nothing that comes after it.
ReadsOneMessage ==
  [][~new_msg_ /\ new_msg_' =>
       rx_buffer_index_ + Len(fifo) - Len(fifo') = MsgSize(rx_buffer_')]_vars
=============================================================================
