-------------------------- MODULE RegistersProofs --------------------------
(***************************************************************************)
(* Theorems about the registers, for every number of application registers *)
(* and every set of requests, whatever the lengths of their payloads.      *)
(***************************************************************************)
EXTENDS Registers, TLAPS

\* What a register file is good for: every register holds what fits in it, and
\* the read-only ones what they held at power-up.
Good(r) ==
  /\ DOMAIN r = Address /\ \A a \in Address : Fits(a, r[a])
  /\ \A a \in CoreAddress : WriteHandler[a] = "write_to_read_only_reg_error" => r[a] = 0

\* A message is there when it is looked at.
HasMessage ==
  /\ at = "dispatch" => msg \in Requests
  /\ at = "write_ctrl" =>
       msg \in Requests /\ msg.type = "WRITE" /\ msg.address = OPERATION_CTRL

IInv == TypeOK /\ ReadOnlyKept /\ TimestampAgrees /\ HasMessage

LEMMA Addresses ==
  /\ CoreAddress = 0 .. 17 /\ CoreAddress \subseteq Address
  /\ AppAddress \subseteq Address /\ AppAddress \subseteq 32 .. AddressCount - 1
  /\ AppReadOnly \subseteq AppAddress
  /\ TIMESTAMP_SECOND = 8 /\ TIMESTAMP_MICRO = 9 /\ OPERATION_CTRL = 10 /\ RESET_DEF = 11
  /\ AddressCount \in Nat /\ AddressCount > 32
  BY RegistersAssumption
     DEF CoreAddress, AppAddress, Address, CORE_REG_COUNT, APP_REG_START_ADDRESS,
         TIMESTAMP_SECOND, TIMESTAMP_MICRO, OPERATION_CTRL, RESET_DEF

\* The loop variable of a dump goes up by one, and past its last value to 0.
LEMMA NextAddressIs ==
  ASSUME NEW n \in Nat, NEW a \in 0 .. n - 1
  PROVE  ((a + 1) % n) = IF a + 1 = n THEN 0 ELSE a + 1
  <1> DEFINE q == (a + 1) \div n
             x == (a + 1) % n
  <1>1. n \in Nat \ {0} /\ q \in Int /\ x \in 0 .. n - 1 /\ a + 1 = n * q + x
    OBVIOUS
  <1> HIDE DEF q, x
  <1>2. q > -1 /\ q < 2
    <2>1. CASE q <= -1
      <3>1. n * q <= -n
        BY <1>1, <2>1
      <3> QED
        BY <1>1, <3>1
    <2>2. CASE q >= 2
      <3>1. n * q >= n + n
        BY <1>1, <2>2
      <3> QED
        BY <1>1, <3>1
    <2> QED
      BY <1>1, <2>1, <2>2
  <1>3. q = 0 \/ q = 1
    BY <1>1, <1>2
  <1>4. n * 0 = 0 /\ n * 1 = n
    OBVIOUS
  <1>5. x = IF a + 1 = n THEN 0 ELSE a + 1
    BY <1>1, <1>3, <1>4
  <1> QED
    BY <1>5 DEF x

LEMMA ReadOnlyAddresses ==
  ASSUME NEW a \in CoreAddress
  PROVE  /\ WriteHandler[a] = "write_to_read_only_reg_error" => a \in 0 .. 7 \cup 16 .. 17
         /\ WriteHandler[a] = "write_reg_generic" => a \in 12 .. 15
         /\ WriteHandler[a] = "write_timestamp_second" => a = TIMESTAMP_SECOND
         /\ WriteHandler[a] = "write_timestamp_microsecond" => a = TIMESTAMP_MICRO
  BY Addresses DEF WriteHandler

LEMMA OrdinaryFits ==
  ASSUME NEW a \in Address, a \in 12 .. AddressCount - 1 \/ a \in 0 .. 7, NEW v \in Content
  PROVE  Fits(a, v)
  BY Addresses DEF Fits

\* A write of what fits to a register that is not read-only.
LEMMA GoodWrite ==
  ASSUME NEW r, Good(r), NEW x \in Address, NEW v, Fits(x, v),
         x \notin 0 .. 7 \cup 16 .. 17
  PROVE  Good([r EXCEPT ![x] = v])
  <1> DEFINE s == [r EXCEPT ![x] = v]
  <1>1. DOMAIN s = Address /\ s[x] = v /\ \A a \in Address \ {x} : s[a] = r[a]
    BY DEF Good
  <1> HIDE DEF s
  <1>2. \A a \in Address : Fits(a, s[a])
    BY <1>1 DEF Good
  <1>3. ASSUME NEW a \in CoreAddress, WriteHandler[a] = "write_to_read_only_reg_error"
        PROVE  s[a] = 0
    BY <1>1, <1>3, ReadOnlyAddresses, Addresses DEF Good
  <1>4. Good(s)
    BY <1>1, <1>2, <1>3 DEF Good
  <1> QED
    BY <1>4 DEF s

LEMMA GoodStamped ==
  ASSUME Good(regs), time \in Times, NEW a
  PROVE  Good(Stamped(a))
  <1> DEFINE r == [regs EXCEPT ![TIMESTAMP_SECOND] = time]
  <1>1. /\ TIMESTAMP_SECOND \in Address /\ TIMESTAMP_MICRO \in Address
        /\ Fits(TIMESTAMP_SECOND, time) /\ Fits(TIMESTAMP_MICRO, time)
    BY Addresses DEF Fits
  <1>2. Good(r)
    BY <1>1, GoodWrite, Addresses
  <1> HIDE DEF r
  <1>3. Good([r EXCEPT ![TIMESTAMP_MICRO] = time])
    BY <1>1, <1>2, GoodWrite, Addresses
  <1>4. Stamped(a) = [r EXCEPT ![TIMESTAMP_MICRO] = time]
    BY DEF Stamped, r
  <1> QED
    BY <1>3, <1>4

\* The mode is a field of a register that holds a control byte.
LEMMA GoodMode ==
  ASSUME NEW r, Good(r), NEW m \in Modes
  PROVE  Good([r EXCEPT ![OPERATION_CTRL].OP_MODE = m])
  <1> DEFINE c == [r[OPERATION_CTRL] EXCEPT !.OP_MODE = m]
  <1>1. OPERATION_CTRL \in Address /\ OPERATION_CTRL = 10
    BY Addresses
  <1>2. r[OPERATION_CTRL] \in CtrlByte /\ ~r[OPERATION_CTRL].DUMP
    BY <1>1, Addresses DEF Good, Fits
  <1>3. c \in CtrlByte /\ ~c.DUMP
    BY <1>2 DEF CtrlByte
  <1> HIDE DEF c
  <1>4. Fits(OPERATION_CTRL, c)
    BY <1>1, <1>3, Addresses DEF Fits
  <1>5. Good([r EXCEPT ![OPERATION_CTRL] = c])
    BY <1>1, <1>4, GoodWrite
  <1>6. [r EXCEPT ![OPERATION_CTRL] = c] = [r EXCEPT ![OPERATION_CTRL].OP_MODE = m]
    BY DEF c
  <1> QED
    BY <1>5, <1>6

LEMMA GoodApp ==
  ASSUME Good(regs), NEW v \in Values
  PROVE  Good(AppUpdated(v))
  <1> DEFINE s == AppUpdated(v)
  <1>1. DOMAIN s = Address
    BY DEF AppUpdated
  <1>2. \A a \in Address : s[a] = IF a \in AppReadOnly THEN v ELSE regs[a]
    BY DEF AppUpdated
  <1> HIDE DEF s
  <1>3. \A a \in AppReadOnly : a \in Address /\ a \in 32 .. AddressCount - 1 /\ Fits(a, v)
    BY Addresses, OrdinaryFits DEF Content
  <1>4. \A a \in Address : Fits(a, s[a])
    BY <1>2, <1>3 DEF Good
  <1>5. \A a \in CoreAddress : a \in Address /\ a \notin AppReadOnly
    BY <1>3, Addresses
  <1>6. Good(s)
    BY <1>1, <1>2, <1>4, <1>5 DEF Good
  <1> QED
    BY <1>6 DEF s

LEMMA GenericAddress ==
  ASSUME NEW a, a \in 12 .. 15 \/ a \in AppAddress
  PROVE  a \in 12 .. AddressCount - 1 /\ a \notin 0 .. 7 \cup 16 .. 17 /\ a \in Address
  <1>1. CASE a \in 12 .. 15
    <2>1. a \in CoreAddress
      BY <1>1, Addresses
    <2> QED
      BY <1>1, <2>1, Addresses
  <1>2. CASE a \in AppAddress
    <2>1. a \in 32 .. AddressCount - 1 /\ a \in Address
      BY <1>2, Addresses
    <2> QED
      BY <2>1
  <1> QED
    BY <1>1, <1>2

\* What lands in a register written generically: a part of the payload, or what
\* follows it in the buffer.
LEMMA GoodCopied ==
  ASSUME Good(regs), NEW m \in Requests, m.address \in Address,
         m.address \in 12 .. 15 \/ m.address \in AppAddress
  PROVE  Good(Copied(m))
  <1> DEFINE v == IF m.payload = <<>> THEN Leftover ELSE m.payload[1]
  <1>1. m.address \in 12 .. AddressCount - 1 /\ m.address \notin 0 .. 7 \cup 16 .. 17
    BY GenericAddress
  <1>2. m.payload \in Seq(Values)
    <2>1. m.payload \in Seq(Part(m.address))
      BY RegistersAssumption
    <2>2. m.address \notin {TIMESTAMP_SECOND, TIMESTAMP_MICRO, OPERATION_CTRL, RESET_DEF}
      BY <1>1, Addresses
    <2>3. Part(m.address) = Values
      BY <2>2 DEF Part
    <2> QED
      BY <2>1, <2>3
  <1>3. v \in Content
    BY <1>2 DEF Content
  <1> HIDE DEF v
  <1>4. Fits(m.address, v)
    BY <1>1, <1>3, OrdinaryFits
  <1>5. Good([regs EXCEPT ![m.address] = v])
    BY <1>1, <1>4, GoodWrite
  <1> QED
    BY <1>5 DEF Copied, v

-----------------------------------------------------------------------------

LEMMA InitGood == Init => IInv
  <1> SUFFICES ASSUME Init PROVE IInv
    OBVIOUS
  <1>1. \A a \in Address : Fits(a, PowerUp[a])
    <2> SUFFICES ASSUME NEW a \in Address PROVE Fits(a, PowerUp[a])
      OBVIOUS
    <2>1. 0 \in Content
      BY RegistersAssumption DEF Content
    <2>2. CASE a = OPERATION_CTRL
      BY <2>2, Addresses DEF Fits, PowerUp, CtrlByte, Modes
    <2>3. CASE a # OPERATION_CTRL
      BY <2>1, <2>3 DEF Fits, PowerUp
    <2> QED
      BY <2>2, <2>3
  <1>2. \A a \in CoreAddress :
          WriteHandler[a] = "write_to_read_only_reg_error" => PowerUp[a] = 0
    BY Addresses, ReadOnlyAddresses DEF PowerUp
  <1>3. DOMAIN PowerUp = Address
    BY DEF PowerUp
  <1> QED
    BY <1>1, <1>2, <1>3, Addresses
       DEF Init, IInv, TypeOK, At, ReadOnlyKept, TimestampAgrees, HasMessage

\* The register file as IInv has it.
LEMMA GoodRegs == IInv => Good(regs)
  BY DEF IInv, TypeOK, ReadOnlyKept, Good

\* What an answer of at most one reply keeps.
LEMMA ReplyTypes ==
  ASSUME NEW t \in ReplyType, NEW a \in 0 .. AddressCount - 1
  PROVE  /\ Reply(t, a) \in Seq(ReplyHeader)
         /\ Len(Reply(t, a)) <= 1
         /\ Nothing \in Seq(ReplyHeader)
         /\ Len(Nothing) <= 1
  <1>1. [type |-> t, address |-> a] \in ReplyHeader
    BY DEF ReplyHeader
  <1> QED
    BY <1>1 DEF Reply, Nothing

\* A step that sends nothing itself keeps IInv if it leaves the register file
\* good and the rest in its types.
LEMMA Quiet ==
  ASSUME IInv, last' = last, Good(regs'),
         time' \in Times, at' \in At \ {"dispatch", "write_ctrl"},
         address' \in 0 .. AddressCount - 1, msg' \in Requests \cup {None},
         to_send' \in Seq(ReplyHeader),
         Len(to_send') <= 1
  PROVE  IInv'
  BY DEF IInv, TypeOK, ReadOnlyKept, TimestampAgrees, HasMessage, Good

\* The loop outside the handlers.
LEMMA LoopKeeps ==
  ASSUME IInv, Loop \/ \E t \in Times : TimeMoves(t)
  PROVE  IInv'
  <1> USE GoodRegs
  <1>1. ASSUME NEW t \in Times, TimeMoves(t) PROVE IInv'
    BY <1>1 DEF TimeMoves, IInv, TypeOK, ReadOnlyKept, TimestampAgrees,
                HasMessage
  <1>2. ASSUME NEW m \in Requests, Receive(m) PROVE IInv'
    BY <1>2 DEF Receive, IInv, TypeOK, At, ReadOnlyKept, TimestampAgrees,
                HasMessage
  <1>3. ASSUME NEW due \in BOOLEAN, NEW m \in Modes, UpdateState(due, m) PROVE IInv'
    <2>1. Good(regs')
      BY <1>3, GoodMode DEF UpdateState
    <2>2. /\ to_send' \in Seq(ReplyHeader)
          /\ Len(to_send') <= 1
      <3>1. "EVENT" \in ReplyType /\ TIMESTAMP_SECOND \in 0 .. AddressCount - 1
        BY Addresses DEF ReplyType
      <3>2. to_send' = Reply("EVENT", TIMESTAMP_SECOND) \/ to_send' = Nothing
        BY <1>3 DEF UpdateState
      <3> QED
        BY <3>1, <3>2, ReplyTypes
    <2> QED
      BY <1>3, <2>1, <2>2, Quiet DEF UpdateState, At, IInv, TypeOK
  <1>4. ASSUME NEW v \in Values, UpdateAppState(v) PROVE IInv'
    <2>1. Good(regs')
      BY <1>4, GoodApp DEF UpdateAppState
    <2> QED
      BY <1>4, <2>1, Quiet DEF UpdateAppState, At, IInv, TypeOK
  <1> QED
    BY <1>1, <1>2, <1>3, <1>4 DEF Loop

\* send_harp_reply(): the reply shows what the register holds, stamped.
LEMMA SendReplyKeeps ==
  ASSUME IInv, SendReply
  PROVE  IInv'
  <1> DEFINE reply == Head(to_send)
             a == reply.address
  <1>1. reply \in ReplyHeader /\ to_send' \in Seq(ReplyHeader) /\ Len(to_send') <= 1
    <2>1. to_send \in Seq(ReplyHeader) /\ to_send # <<>> /\ Len(to_send) <= 1
      BY DEF IInv, TypeOK, SendReply
    <2>2. to_send' = Tail(to_send)
      BY DEF SendReply
    <2> QED
      BY <2>1, <2>2
  <1>2. CASE a \notin Address
    <2>1. Good(regs') /\ last' = last /\ at' = "stopped"
      BY <1>2, GoodRegs DEF SendReply
    <2> QED
      BY <1>1, <2>1, Quiet DEF SendReply, At, IInv, TypeOK
  <1>3. CASE a \in Address
    <2>1. /\ last' = [type |-> reply.type, address |-> a,
                      stamp |-> time, payload |-> Stamped(a)[a]]
          /\ regs' = Stamped(a) /\ at' = at
          /\ UNCHANGED <<time, msg, address>>
      BY <1>3 DEF SendReply, Stamped
    <2>2. Good(Stamped(a))
      BY GoodRegs, GoodStamped DEF IInv, TypeOK
    <2>3. Fits(a, Stamped(a)[a])
      BY <1>3, <2>2 DEF Good
    <2>4. TimestampAgrees'
      <3>1. DOMAIN regs = Address
        BY DEF IInv, TypeOK
      <3>2. a \in {TIMESTAMP_SECOND, TIMESTAMP_MICRO} => Stamped(a)[a] = time
        BY <1>3, <3>1, Addresses DEF Stamped
      <3> QED
        BY <2>1, <3>2 DEF TimestampAgrees
    <2>6. ReadOnlyKept' /\ DOMAIN regs' = Address /\ \A x \in Address : Fits(x, regs'[x])
      BY <2>1, <2>2 DEF Good, ReadOnlyKept
    <2>7. last'.type \in ReplyType /\ last'.address \in Address
      BY <1>1, <1>3, <2>1 DEF ReplyHeader
    <2>8. HasMessage'
      BY <2>1 DEF HasMessage, IInv
    <2> QED
      BY <1>1, <2>1, <2>4, <2>6, <2>7, <2>8 DEF IInv, TypeOK
  <1> QED
    BY <1>2, <1>3

\* Handlers that answer with at most one reply.
LEMMA AnswerKeeps ==
  ASSUME IInv, NEW new_regs, Good(new_regs), NEW t \in ReplyType,
         NEW a \in 0 .. AddressCount - 1, NEW replies, replies \in {Reply(t, a), Nothing},
         Answer(new_regs, replies), time' \in Times
  PROVE  IInv'
  <1>1. /\ to_send' \in Seq(ReplyHeader)
        /\ Len(to_send') <= 1
    <2>1. to_send' = replies
      BY DEF Answer
    <2>2. /\ Reply(t, a) \in Seq(ReplyHeader) /\ Len(Reply(t, a)) <= 1
          /\ Nothing \in Seq(ReplyHeader) /\ Len(Nothing) <= 1
      BY ReplyTypes
    <2>3. CASE replies = Reply(t, a)
      BY <2>1, <2>2, <2>3, Zenon
    <2>4. CASE replies = Nothing
      BY <2>1, <2>2, <2>4, Zenon
    <2> QED
      BY <2>3, <2>4
  <1> QED
    BY <1>1, Quiet DEF Answer, At, IInv, TypeOK

\* What a handler takes from a payload is one of its elements.
LEMMA FirstOfSeq ==
  ASSUME NEW S, NEW s \in Seq(S), s # <<>>
  PROVE  s[1] \in S
  <1>1. Len(s) \in Nat /\ Len(s) # 0
    OBVIOUS
  <1>2. 1 \in 1 .. Len(s)
    BY <1>1
  <1> QED
    BY <1>2

\* What write_operation_ctrl() is given.
LEMMA CtrlPayload ==
  ASSUME NEW m \in Requests, m.address = OPERATION_CTRL, m.type = "WRITE"
  PROVE  m.payload[1] \in CtrlByte
  <1>1. Part(OPERATION_CTRL) = CtrlByte /\ OPERATION_CTRL \in Special
    BY Addresses DEF Part, Special
  <1>2. /\ m.payload \in Seq(Part(m.address))
        /\ m.type = "WRITE" /\ m.address \in Special => m.payload # <<>>
    BY RegistersAssumption, Zenon
  <1>3. m.payload \in Seq(CtrlByte) /\ m.payload # <<>>
    BY <1>1, <1>2
  <1> QED
    BY <1>3, FirstOfSeq

\* What write_timestamp_second() is given.
LEMMA TimesPayload ==
  ASSUME NEW m \in Requests, m.address = TIMESTAMP_SECOND, m.type = "WRITE"
  PROVE  m.payload[1] \in Times
  <1>1. Part(TIMESTAMP_SECOND) = Times /\ TIMESTAMP_SECOND \in Special
    BY Addresses DEF Part, Special
  <1>2. /\ m.payload \in Seq(Part(m.address))
        /\ m.type = "WRITE" /\ m.address \in Special => m.payload # <<>>
    BY RegistersAssumption, Zenon
  <1>3. m.payload \in Seq(Times) /\ m.payload # <<>>
    BY <1>1, <1>2
  <1> QED
    BY <1>3, FirstOfSeq

\* The handlers of the core's registers, but for those of OPERATION_CTRL.
LEMMA CoreHandlerKeeps ==
  ASSUME IInv, NEW a \in CoreAddress,
         ReadCore(a) \/ WriteReadOnly(a) \/ WriteGeneric(a) \/ WriteTimestamp(a)
  PROVE  IInv'
  <1> USE GoodRegs
  <1>1. /\ a \in 0 .. AddressCount - 1 /\ a \in Address /\ time \in Times
        /\ {"READ", "WRITE", "WRITE_ERROR"} \subseteq ReplyType
    <2>1. a \in 0 .. AddressCount - 1 /\ a \in Address
      BY Addresses
    <2>2. time \in Times
      BY DEF IInv, TypeOK
    <2>3. {"READ", "WRITE", "WRITE_ERROR"} \subseteq ReplyType
      BY DEF ReplyType
    <2> QED
      BY <2>1, <2>2, <2>3
  <1>2. CASE ReadCore(a)
    <2> DEFINE r == IF a \in {TIMESTAMP_SECOND, TIMESTAMP_MICRO} THEN Stamped(a) ELSE regs
    <2>1. Good(r)
      BY <1>1, GoodStamped
    <2> HIDE DEF r
    <2>2. Answer(r, Reply("READ", a)) /\ time' = time
      BY <1>2 DEF ReadCore, r
    <2> QED
      BY <1>1, <2>1, <2>2, AnswerKeeps
  <1>3. CASE WriteReadOnly(a)
    BY <1>1, <1>3, AnswerKeeps DEF WriteReadOnly
  <1>4. CASE WriteGeneric(a)
    <2>1. msg \in Requests /\ msg.address = a /\ a \in 12 .. 15
      BY <1>4, ReadOnlyAddresses DEF WriteGeneric, Calls, Dispatched, IInv, HasMessage
    <2>2. Good(Copied(msg))
      BY <1>1, <2>1, GoodCopied
    <2>3. GenericReply \in {Reply("WRITE", a), Nothing}
      BY <2>1 DEF GenericReply
    <2>4. Answer(Copied(msg), GenericReply) /\ time' = time
      BY <1>4 DEF WriteGeneric
    <2> QED
      BY <1>1, <2>2, <2>3, <2>4, AnswerKeeps
  <1>5. CASE WriteTimestamp(a)
    <2>1. msg \in Requests /\ msg.address = a /\ msg.type = "WRITE"
      BY <1>5 DEF WriteTimestamp, Calls, Dispatched, IInv, HasMessage
    <2>2. a = TIMESTAMP_SECOND => time' \in Times
      <3> SUFFICES ASSUME a = TIMESTAMP_SECOND PROVE time' \in Times
        OBVIOUS
      <3>1. msg.payload[1] \in Times
        BY <2>1, TimesPayload
      <3>2. WriteHandler[a] # "write_timestamp_microsecond"
        BY ReadOnlyAddresses, Addresses
      <3>3. time' = msg.payload[1]
        BY <1>5, <3>2 DEF WriteTimestamp
      <3> QED
        BY <3>1, <3>3
    <2>3. a # TIMESTAMP_SECOND => time' \in Times
      BY <1>5, ReadOnlyAddresses DEF WriteTimestamp
    <2>4. Answer(regs, Reply("WRITE", a))
      BY <1>5 DEF WriteTimestamp
    <2> QED
      BY <1>1, <2>2, <2>3, <2>4, AnswerKeeps
  <1> QED
    BY <1>2, <1>3, <1>4, <1>5

\* write_operation_ctrl(), in one step or in two.
LEMMA OperationCtrlKeeps ==
  ASSUME IInv, WriteOperationCtrl \/ \E due \in BOOLEAN : ForceState(due)
  PROVE  IInv'
  <1> USE GoodRegs
  <1> DEFINE byte == msg.payload[1]
  <1>1. /\ {"WRITE", "EVENT"} \subseteq ReplyType
        /\ {TIMESTAMP_SECOND, OPERATION_CTRL} \subseteq 0 .. AddressCount - 1
    BY Addresses DEF ReplyType
  <1>2. CASE WriteOperationCtrl
    <2>1. msg \in Requests /\ msg.address = OPERATION_CTRL /\ msg.type = "WRITE"
      BY <1>2 DEF WriteOperationCtrl, Calls, Dispatched, IInv, HasMessage
    <2>3. byte \in CtrlByte
      BY <2>1, CtrlPayload
    <2> HIDE DEF byte
    <2>4. WithoutDump(byte) \in CtrlByte /\ ~WithoutDump(byte).DUMP
      BY <2>3 DEF CtrlByte, WithoutDump
    <2>5. Fits(OPERATION_CTRL, WithoutDump(byte))
      BY <2>4, Addresses DEF Fits
    <2>6. Good([regs EXCEPT ![OPERATION_CTRL] = WithoutDump(byte)])
      BY <2>5, GoodWrite, Addresses
    <2>7. /\ regs' = [regs EXCEPT ![OPERATION_CTRL] = WithoutDump(byte)]
          /\ to_send' \in {Reply("WRITE", OPERATION_CTRL), Nothing}
          /\ at' \in {"dump_core", "replying"}
          /\ UNCHANGED <<time, msg, address, last>>
      BY <1>2 DEF WriteOperationCtrl, byte
    <2>8. to_send' \in Seq(ReplyHeader) /\ Len(to_send') <= 1
      BY <1>1, <2>7, ReplyTypes
    <2> QED
      BY <2>6, <2>7, <2>8, Quiet DEF At, IInv, TypeOK
  <1>3. ASSUME NEW due \in BOOLEAN, ForceState(due) PROVE IInv'
    <2>1. msg \in Requests /\ msg.address = OPERATION_CTRL /\ msg.type = "WRITE"
      BY <1>3 DEF ForceState, Calls, Dispatched, IInv, HasMessage
    <2>2. to_send' \in {Reply("EVENT", TIMESTAMP_SECOND), Nothing}
      BY <1>3 DEF ForceState
    <2>3. to_send' \in Seq(ReplyHeader) /\ Len(to_send') <= 1
      BY <1>1, <2>2, ReplyTypes
    <2> QED
      BY <1>3, <2>1, <2>3
         DEF ForceState, IInv, TypeOK, At, ReadOnlyKept, TimestampAgrees,
             HasMessage
  <1> QED
    BY <1>2, <1>3

LEMMA ResetKeeps ==
  ASSUME IInv, NEW v \in Values, WriteResetDev(v)
  PROVE  IInv'
  <1> DEFINE byte == msg.payload[1]
             r == IF byte.RST_DEV /\ ~byte.RST_DFU
                  THEN [AppUpdated(v) EXCEPT ![OPERATION_CTRL].OP_MODE = "STANDBY"]
                  ELSE regs
  <1>1. Good(r)
    <2>1. "STANDBY" \in Modes
      BY DEF Modes
    <2>2. Good([AppUpdated(v) EXCEPT ![OPERATION_CTRL].OP_MODE = "STANDBY"])
      BY <2>1, GoodRegs, GoodApp, GoodMode
    <2> QED
      BY <2>2, GoodRegs
  <1>2. regs' = r
    BY DEF WriteResetDev
  <1> HIDE DEF r
  <1>3. to_send' \in {Reply("WRITE", RESET_DEF), Nothing}
    BY DEF WriteResetDev
  <1>4. to_send' \in Seq(ReplyHeader) /\ Len(to_send') <= 1
    <2>1. "WRITE" \in ReplyType /\ RESET_DEF \in 0 .. AddressCount - 1
      BY Addresses DEF ReplyType
    <2> QED
      BY <1>3, <2>1, ReplyTypes
  <1> QED
    BY <1>1, <1>2, <1>4, Quiet DEF WriteResetDev, At, IInv, TypeOK

\* The application's handlers.
LEMMA AppHandlerKeeps ==
  ASSUME IInv, NEW a \in AppAddress, ReadApp(a) \/ WriteApp(a)
  PROVE  IInv'
  <1> USE GoodRegs
  <1>1. /\ a \in 0 .. AddressCount - 1 /\ a \in Address /\ time \in Times
        /\ {"READ", "WRITE", "WRITE_ERROR"} \subseteq ReplyType
    BY Addresses DEF ReplyType, IInv, TypeOK
  <1>2. CASE ReadApp(a)
    BY <1>1, <1>2, AnswerKeeps DEF ReadApp
  <1>3. CASE WriteApp(a)
    <2>1. msg \in Requests /\ msg.address = a
      BY <1>3 DEF WriteApp, AppCalls, IInv, HasMessage
    <2>2. Good(Copied(msg))
      BY <1>1, <2>1, GoodCopied
    <2>3. GenericReply \in {Reply("WRITE", a), Nothing}
      BY <2>1 DEF GenericReply
    <2>4. time' = time /\ \/ Answer(regs, Reply("WRITE_ERROR", a))
                          \/ Answer(Copied(msg), GenericReply)
      BY <1>3 DEF WriteApp
    <2>5. time' \in Times
      BY <1>1, <2>4
    <2>6. CASE Answer(regs, Reply("WRITE_ERROR", a))
      BY <1>1, <2>5, <2>6, AnswerKeeps
    <2>7. CASE Answer(Copied(msg), GenericReply)
      BY <1>1, <2>2, <2>3, <2>5, <2>7, AnswerKeeps
    <2> QED
      BY <2>4, <2>6, <2>7
  <1> QED
    BY <1>2, <1>3

LEMMA DumpKeeps ==
  ASSUME IInv, DumpCore \/ DumpApp
  PROVE  IInv'
  <1> USE GoodRegs
  <1>1. "READ" \in ReplyType /\ address \in 0 .. AddressCount - 1
        /\ AddressCount \in Nat /\ AddressCount > 32
    BY Addresses DEF ReplyType, IInv, TypeOK
  <1>2. to_send' \in Seq(ReplyHeader) /\ Len(to_send') <= 1
    <2>1. to_send' \in {Reply("READ", address), Nothing}
      BY DEF DumpCore, DumpApp
    <2>2. CASE to_send' = Reply("READ", address)
      <3>1. Reply("READ", address) \in Seq(ReplyHeader) /\ Len(Reply("READ", address)) <= 1
        BY <1>1, ReplyTypes
      <3> QED
        BY <2>2, <3>1, Zenon
    <2>3. CASE to_send' = Nothing
      <3>1. Nothing \in Seq(ReplyHeader) /\ Len(Nothing) <= 1
        BY <1>1, ReplyTypes
      <3> QED
        BY <2>3, <3>1, Zenon
    <2> QED
      BY <2>1, <2>2, <2>3
  <1>3. address' \in 0 .. AddressCount - 1
    <2>1. \/ address' = APP_REG_START_ADDRESS
          \/ address' = 0
          \/ address' = (address + 1) % AddressCount
      <3>1. CASE DumpCore
        BY <3>1 DEF DumpCore, NextAddress
      <3>2. CASE DumpApp
        BY <3>2 DEF DumpApp, NextAddress
      <3> QED
        BY <3>1, <3>2
    <2>2. ((address + 1) % AddressCount) \in 0 .. AddressCount - 1
      BY <1>1, NextAddressIs
    <2> QED
      BY <1>1, <2>1, <2>2 DEF APP_REG_START_ADDRESS
  <1>4. /\ at' \in {"dump_core", "dump_app", "replying"}
        /\ UNCHANGED <<time, regs, msg, last>>
    BY DEF DumpCore, DumpApp
  <1>5. Good(regs')
    BY <1>4
  <1> QED
    BY <1>2, <1>3, <1>4, <1>5, Quiet DEF At, IInv, TypeOK

LEMMA StepKeeps ==
  ASSUME IInv, [Next]_vars
  PROVE  IInv'
  <1> USE GoodRegs
  <1>1. CASE IgnoreType
    <2>1. "READ" \in ReplyType /\ 0 \in 0 .. AddressCount - 1 /\ time \in Times
      BY Addresses DEF ReplyType, IInv, TypeOK
    <2>2. Answer(regs, Nothing) /\ time' = time
      BY <1>1 DEF IgnoreType
    <2> QED
      BY <2>1, <2>2, AnswerKeeps
  <1>2. CASE CallPastTable
    BY <1>2, Quiet DEF CallPastTable, At, IInv, TypeOK
  <1>3. CASE ClearUnhandled
    BY <1>3, Quiet DEF ClearUnhandled, Unhandled, At, IInv, TypeOK
  <1>4. CASE Return
    BY <1>4, Quiet DEF Return, At, IInv, TypeOK
  <1>5. CASE UNCHANGED vars
    BY <1>5 DEF vars, IInv, TypeOK, ReadOnlyKept, TimestampAgrees, HasMessage
  <1> QED
    BY <1>1, <1>2, <1>3, <1>4, <1>5, LoopKeeps, SendReplyKeeps, CoreHandlerKeeps,
       OperationCtrlKeeps, ResetKeeps, AppHandlerKeeps, DumpKeeps
       DEF Next, Handlers

LEMMA Invariant == Spec => []IInv
  BY InitGood, StepKeeps, PTL DEF Spec

-----------------------------------------------------------------------------

\* Registers, message, replies and the dump's variable keep their types; the
\* variable stays a uint8_t also where the dump has no end.
THEOREM TypeCorrect == Spec => []TypeOK
  BY Invariant, PTL DEF IInv

\* No read-only register of the core changes, whatever messages come, of
\* whatever lengths, and whatever the application does.
THEOREM ReadOnlyKeptCorrect == Spec => []ReadOnlyKept
  BY Invariant, PTL DEF IInv

\* A reply that shows a timestamp register shows its own timestamp.
THEOREM TimestampAgreesCorrect == Spec => []TimestampAgrees
  BY Invariant, PTL DEF IInv

-----------------------------------------------------------------------------
(* What a muted device sends.                                              *)

\* The reply to be sent answers the message, in one of the ways that a handler
\* does not mute.
Answering ==
  LET reply == Head(to_send)
  IN /\ msg # None /\ reply.address = msg.address
     /\ \/ reply.type = "READ" /\ msg.type = "READ"
        \/ reply.type = "WRITE_ERROR"
        \/ reply.type = "WRITE" /\ msg.address \in Unmuted

\* No reply is left over when the next message is looked at, none is muted between
\* its handler and its sending, and nobody mutes a dump that has begun.
QuietInv ==
  /\ at \in {"idle", "dispatch"} => to_send = <<>>
  /\ at \in {"dump_core", "dump_app"} => ~Muted
  /\ to_send # <<>> /\ Muted => Answering

LEMMA FirstReply ==
  ASSUME NEW t, NEW a
  PROVE  /\ Reply(t, a) # <<>> /\ Nothing = <<>>
         /\ Head(Reply(t, a)).type = t /\ Head(Reply(t, a)).address = a
  BY DEF Reply, Nothing

\* Steps that leave OPERATION_CTRL alone leave a device as muted as it was.
LEMMA StaysMuted ==
  ASSUME regs'[OPERATION_CTRL] = regs[OPERATION_CTRL]
  PROVE  Muted' = Muted
  BY DEF Muted, ctrl

LEMMA QuietInit == Init => QuietInv
  BY DEF Init, QuietInv

LEMMA QuietLoop ==
  ASSUME IInv, QuietInv, Loop \/ \E t \in Times : TimeMoves(t)
  PROVE  QuietInv'
  <1>1. ASSUME NEW t \in Times, TimeMoves(t) PROVE QuietInv'
    BY <1>1 DEF TimeMoves, QuietInv, Answering, Muted, ctrl
  <1>2. ASSUME NEW m \in Requests, Receive(m) PROVE QuietInv'
    BY <1>2 DEF Receive, QuietInv
  <1>3. ASSUME NEW due \in BOOLEAN, NEW m \in Modes, UpdateState(due, m) PROVE QuietInv'
    <2>1. regs[OPERATION_CTRL] \in CtrlByte /\ OPERATION_CTRL \in DOMAIN regs
      BY Addresses DEF IInv, TypeOK, Fits
    <2>2. regs'[OPERATION_CTRL] = [regs[OPERATION_CTRL] EXCEPT !.OP_MODE = m]
      BY <1>3, <2>1 DEF UpdateState
    <2>3. Muted' = Muted
      BY <2>1, <2>2 DEF Muted, ctrl, CtrlByte
    <2>4. at' = "replying" /\ (to_send' = Nothing \/ ~Muted)
      BY <1>3 DEF UpdateState, CanBeat
    <2> QED
      BY <2>3, <2>4 DEF QuietInv, Nothing
  <1>4. ASSUME NEW v \in Values, UpdateAppState(v) PROVE QuietInv'
    BY <1>4 DEF UpdateAppState, QuietInv
  <1> QED
    BY <1>1, <1>2, <1>3, <1>4 DEF Loop

\* A handler of a register other than OPERATION_CTRL.
LEMMA QuietHandlers ==
  ASSUME IInv, QuietInv,
         \/ \E a \in CoreAddress : ReadCore(a) \/ WriteReadOnly(a) \/ WriteGeneric(a)
                                     \/ WriteTimestamp(a)
         \/ \E a \in AppAddress : ReadApp(a) \/ WriteApp(a)
         \/ \E v \in Values : WriteResetDev(v)
         \/ IgnoreType \/ CallPastTable \/ ClearUnhandled
  PROVE  QuietInv'
  <1>0. /\ None \notin Requests /\ HasMessage
        /\ OPERATION_CTRL \in DOMAIN regs /\ Unmuted = {8, 9, 11}
    BY RegistersAssumption, Addresses DEF IInv, TypeOK, Unmuted
  <1>1. ASSUME NEW t, NEW a, to_send' = Reply(t, a), at' = "replying", msg' = msg,
               msg \in Requests, msg.address = a,
               \/ t = "READ" /\ msg.type = "READ"
               \/ t = "WRITE_ERROR"
               \/ t = "WRITE" /\ a \in Unmuted
        PROVE  QuietInv'
    <2>1. Answering'
      BY <1>0, <1>1, FirstReply DEF Answering
    <2> QED
      BY <1>1, <2>1 DEF QuietInv
  <1>2. ASSUME NEW a, msg.address = a, a # OPERATION_CTRL, Answer(Copied(msg), GenericReply)
        PROVE  QuietInv'
    <2>1. regs'[OPERATION_CTRL] = regs[OPERATION_CTRL]
      BY <1>0, <1>2 DEF Answer, Copied
    <2>2. Muted' = Muted /\ at' = "replying" /\ (to_send' = Nothing \/ ~Muted)
      BY <1>2, <2>1, StaysMuted DEF Answer, GenericReply
    <2> QED
      BY <2>2 DEF QuietInv, Nothing
  <1>3. ASSUME NEW a \in CoreAddress, ReadCore(a) PROVE QuietInv'
    <2>1. /\ msg \in Requests /\ msg.address = a /\ msg.type = "READ"
          /\ to_send' = Reply("READ", a) /\ at' = "replying" /\ msg' = msg
      BY <1>0, <1>3 DEF ReadCore, Calls, Dispatched, HasMessage, Answer
    <2> QED
      BY <1>1, <2>1
  <1>4. ASSUME NEW a \in CoreAddress, WriteReadOnly(a) PROVE QuietInv'
    <2>1. /\ msg \in Requests /\ msg.address = a
          /\ to_send' = Reply("WRITE_ERROR", a) /\ at' = "replying" /\ msg' = msg
      BY <1>0, <1>4 DEF WriteReadOnly, Calls, Dispatched, HasMessage, Answer
    <2> QED
      BY <1>1, <2>1
  <1>5. ASSUME NEW a \in CoreAddress, WriteGeneric(a) PROVE QuietInv'
    <2>1. msg.address = a /\ a # OPERATION_CTRL /\ Answer(Copied(msg), GenericReply)
      BY <1>5, ReadOnlyAddresses, Addresses DEF WriteGeneric, Calls
    <2> QED
      BY <1>2, <2>1
  <1>6. ASSUME NEW a \in CoreAddress, WriteTimestamp(a) PROVE QuietInv'
    <2>1. /\ a \in Unmuted /\ msg \in Requests /\ msg.address = a
          /\ to_send' = Reply("WRITE", a) /\ at' = "replying" /\ msg' = msg
      BY <1>0, <1>6, ReadOnlyAddresses
         DEF WriteTimestamp, Calls, Dispatched, HasMessage, Unmuted, Answer
    <2> QED
      BY <1>1, <2>1
  <1>7. ASSUME NEW a \in AppAddress, ReadApp(a) PROVE QuietInv'
    <2>1. /\ msg \in Requests /\ msg.address = a /\ msg.type = "READ"
          /\ to_send' = Reply("READ", a) /\ at' = "replying" /\ msg' = msg
      BY <1>0, <1>7 DEF ReadApp, AppCalls, HasMessage, Answer
    <2> QED
      BY <1>1, <2>1
  <1>8. ASSUME NEW a \in AppAddress, WriteApp(a) PROVE QuietInv'
    <2>1. /\ msg \in Requests /\ msg.address = a /\ a # OPERATION_CTRL
          /\ Answer(regs, Reply("WRITE_ERROR", a)) \/ Answer(Copied(msg), GenericReply)
      BY <1>0, <1>8, Addresses DEF WriteApp, AppCalls, HasMessage
    <2>2. CASE Answer(regs, Reply("WRITE_ERROR", a))
      <3>1. to_send' = Reply("WRITE_ERROR", a) /\ at' = "replying" /\ msg' = msg
        BY <2>2 DEF Answer
      <3> QED
        BY <1>1, <2>1, <3>1
    <2>3. CASE Answer(Copied(msg), GenericReply)
      BY <1>2, <2>1, <2>3
    <2> QED
      BY <2>1, <2>2, <2>3
  <1>9. ASSUME NEW v \in Values, WriteResetDev(v) PROVE QuietInv'
    <2>1. /\ msg \in Requests /\ msg.address = RESET_DEF /\ msg' = msg
          /\ to_send' \in {Nothing, Reply("WRITE", RESET_DEF)}
          /\ at' \in {"stopped", "replying"}
      BY <1>0, <1>9 DEF WriteResetDev, Calls, Dispatched, HasMessage
    <2>2. CASE to_send' = Nothing
      BY <2>1, <2>2 DEF QuietInv, Nothing
    <2>3. CASE to_send' = Reply("WRITE", RESET_DEF)
      <3>1. Answering'
        BY <1>0, <2>1, <2>3, FirstReply DEF Answering, Unmuted
      <3> QED
        BY <2>1, <3>1 DEF QuietInv
    <2> QED
      BY <2>1, <2>2, <2>3
  <1>10. ASSUME IgnoreType \/ CallPastTable \/ ClearUnhandled PROVE QuietInv'
    <2>1. to_send' = <<>> /\ at' \in {"stopped", "replying"}
      BY <1>10 DEF IgnoreType, CallPastTable, ClearUnhandled, Unhandled, Dispatched, Answer,
                   Nothing, QuietInv
    <2> QED
      BY <2>1 DEF QuietInv
  <1> QED
    BY <1>3, <1>4, <1>5, <1>6, <1>7, <1>8, <1>9, <1>10

\* Where muting changes, and the dump.
LEMMA QuietCtrl ==
  ASSUME IInv, QuietInv,
         \/ \E due \in BOOLEAN : ForceState(due)
         \/ WriteOperationCtrl \/ DumpCore \/ DumpApp
  PROVE  QuietInv'
  <1>1. ASSUME NEW due \in BOOLEAN, ForceState(due) PROVE QuietInv'
    <2>1. at' = "write_ctrl" /\ (to_send' = Nothing \/ ~Muted) /\ regs' = regs
      BY <1>1 DEF ForceState, CanBeat
    <2> QED
      BY <2>1 DEF QuietInv, Nothing, Muted, ctrl
  <1>2. CASE WriteOperationCtrl
    <2> DEFINE byte == msg.payload[1]
    <2>1. /\ regs' = [regs EXCEPT ![OPERATION_CTRL] = WithoutDump(byte)]
          /\ to_send' = IF byte.MUTE_RPL THEN Nothing ELSE Reply("WRITE", OPERATION_CTRL)
          /\ at' = IF byte.DUMP /\ ~byte.MUTE_RPL THEN "dump_core" ELSE "replying"
      BY <1>2 DEF WriteOperationCtrl
    <2>2. byte \in CtrlByte
      <3>1. msg \in Requests /\ msg.address = OPERATION_CTRL /\ msg.type = "WRITE"
        BY <1>2 DEF WriteOperationCtrl, Calls, Dispatched, IInv, HasMessage
      <3> QED
        BY <3>1, CtrlPayload
    <2>3. OPERATION_CTRL \in DOMAIN regs
      BY Addresses DEF IInv, TypeOK
    <2> HIDE DEF byte
    <2>4. Muted' = byte.MUTE_RPL
      BY <2>1, <2>2, <2>3 DEF Muted, ctrl, WithoutDump, CtrlByte
    <2> QED
      BY <2>1, <2>4 DEF QuietInv, Nothing
  <1>3. CASE DumpCore \/ DumpApp
    <2>1. /\ regs' = regs /\ at \in {"dump_core", "dump_app"}
          /\ at' \in {"dump_core", "dump_app", "replying"}
      BY <1>3 DEF DumpCore, DumpApp
    <2>2. ~Muted'
      BY <2>1 DEF QuietInv, Muted, ctrl
    <2> QED
      BY <2>1, <2>2 DEF QuietInv
  <1> QED
    BY <1>1, <1>2, <1>3

\* The reply in hand is the only one.
LEMMA QuietSend ==
  ASSUME IInv, QuietInv, SendReply \/ Return
  PROVE  QuietInv'
  <1>1. CASE SendReply
    <2>1. to_send' = <<>>
      BY <1>1 DEF SendReply, IInv, TypeOK
    <2>2. regs'[OPERATION_CTRL] = regs[OPERATION_CTRL] /\ (at' = at \/ at' = "stopped")
      <3>1. \/ regs' = regs
            \/ regs' = [regs EXCEPT ![TIMESTAMP_SECOND] = time, ![TIMESTAMP_MICRO] = time]
        BY <1>1 DEF SendReply
      <3>2. at' = at \/ at' = "stopped"
        BY <1>1 DEF SendReply
      <3>3. DOMAIN regs = Address /\ OPERATION_CTRL \in Address
        BY Addresses DEF IInv, TypeOK
      <3>4. regs'[OPERATION_CTRL] = regs[OPERATION_CTRL]
        BY <3>1, <3>3, Addresses
      <3> QED
        BY <3>2, <3>4
    <2> QED
      BY <2>1, <2>2, StaysMuted DEF QuietInv
  <1>2. CASE Return
    BY <1>2 DEF Return, QuietInv
  <1> QED
    BY <1>1, <1>2

LEMMA QuietStep == IInv /\ QuietInv /\ [Next]_vars => QuietInv'
  <1> SUFFICES ASSUME IInv, QuietInv, [Next]_vars PROVE QuietInv'
    OBVIOUS
  <1>1. CASE UNCHANGED vars
    BY <1>1 DEF vars, QuietInv, Answering, Muted, ctrl
  <1>2. CASE Next
    BY <1>2, QuietLoop, QuietHandlers, QuietCtrl, QuietSend DEF Next, Handlers
  <1> QED
    BY <1>1, <1>2

\* A muted device answers reads, failed writes and writes of the clock and of the
\* reset register, and says nothing else: no heartbeat, no dump, whatever comes.
THEOREM MutedIsQuietCorrect == Spec => MutedIsQuiet
  <1>1. IInv /\ QuietInv /\ [Next]_vars
          => [SendReply /\ Muted /\ at' # "stopped" =>
                /\ msg # None /\ last'.address = msg.address
                /\ \/ last'.type = "READ" /\ msg.type = "READ"
                   \/ last'.type = "WRITE_ERROR"
                   \/ last'.type = "WRITE" /\ msg.address \in Unmuted]_vars
    <2> SUFFICES ASSUME QuietInv, SendReply, Muted, at' # "stopped"
                 PROVE  /\ msg # None /\ last'.address = msg.address
                        /\ \/ last'.type = "READ" /\ msg.type = "READ"
                           \/ last'.type = "WRITE_ERROR"
                           \/ last'.type = "WRITE" /\ msg.address \in Unmuted
      OBVIOUS
    <2>1. Answering
      BY DEF QuietInv, SendReply
    <2>2. last'.address = Head(to_send).address /\ last'.type = Head(to_send).type
      BY DEF SendReply
    <2> QED
      BY <2>1, <2>2 DEF Answering
  <1> QED
    BY <1>1, Invariant, QuietInit, QuietStep, PTL DEF Spec, MutedIsQuiet

-----------------------------------------------------------------------------
(* What a dump shows.                                                      *)

Dumps == {"dump_core", "dump_app"}

\* The last reply is the one that comes before register a in a dump, which the
\* reply to the write of OPERATION_CTRL opens.
Before(a) == IF a = APP_REG_START_ADDRESS THEN CORE_REG_COUNT - 1 ELSE a - 1
Shown(a)  == IF a = 0 THEN last.type = "WRITE"
                      ELSE last.type = "READ" /\ last.address = Before(a)

\* A dump starts from address 0 whatever dumps came before; in it, the reply to be
\* sent is of the register after the last one shown.
DumpInv ==
  /\ at \notin Dumps \cup {"stopped"} => address = 0
  /\ at = "dump_core" => address \in 0 .. CORE_REG_COUNT
  /\ at = "dump_app" =>
       address \in APP_REG_START_ADDRESS .. APP_REG_START_ADDRESS + AppCount
  /\ at \in Dumps =>
       \/ address = 0 /\ to_send = Reply("WRITE", OPERATION_CTRL)
       \/ to_send = <<>> /\ Shown(address)
       \/ /\ address \notin {0, APP_REG_START_ADDRESS}
          /\ to_send = Reply("READ", address - 1) /\ Shown(address - 1)

LEMMA DumpInit == Init => DumpInv
  BY DEF Init, DumpInv, Dumps

\* Outside a dump, and where one starts.
LEMMA DumpElsewhere ==
  ASSUME DumpInv, [Next]_vars, ~DumpCore, ~DumpApp, ~SendReply
  PROVE  DumpInv'
  <1>1. ASSUME at \notin Dumps, at' \notin Dumps, address' = address,
               at = "stopped" => at' = "stopped"
        PROVE  DumpInv'
    BY <1>1 DEF DumpInv, Dumps
  <1>2. CASE UNCHANGED vars \/ \E t \in Times : TimeMoves(t)
    BY <1>2 DEF vars, TimeMoves, DumpInv, Shown
  <1>3. CASE Loop
    BY <1>1, <1>3 DEF Loop, Receive, UpdateState, UpdateAppState, Dumps
  <1>4. CASE \E a \in CoreAddress : ReadCore(a) \/ WriteReadOnly(a) \/ WriteGeneric(a)
                                      \/ WriteTimestamp(a)
    BY <1>1, <1>4 DEF ReadCore, WriteReadOnly, WriteGeneric, WriteTimestamp, Calls,
                      Dispatched, Answer, Dumps
  <1>5. CASE \/ \E due \in BOOLEAN : ForceState(due)
             \/ IgnoreType \/ CallPastTable \/ ClearUnhandled \/ Return
             \/ \E v \in Values : WriteResetDev(v)
             \/ \E a \in AppAddress : ReadApp(a) \/ WriteApp(a)
    BY <1>1, <1>5 DEF ForceState, IgnoreType, CallPastTable, ClearUnhandled, Unhandled,
                      Return, WriteResetDev, ReadApp, WriteApp, AppCalls, Calls,
                      Dispatched, Answer, Dumps
  <1>6. CASE WriteOperationCtrl
    <2>1. at \in {"dispatch", "write_ctrl"} /\ address' = address
      BY <1>6 DEF WriteOperationCtrl, Calls, Dispatched
    <2>2. address' = 0
      BY <2>1 DEF DumpInv, Dumps
    <2>3. \/ at' = "replying"
          \/ at' = "dump_core" /\ to_send' = Reply("WRITE", OPERATION_CTRL)
      BY <1>6 DEF WriteOperationCtrl
    <2> QED
      BY <2>2, <2>3 DEF DumpInv, Dumps, CORE_REG_COUNT
  <1> QED
    BY <1>2, <1>3, <1>4, <1>5, <1>6 DEF Next, Handlers

\* The next register: the address does not wrap around, for there are few enough.
LEMMA DumpAdvances ==
  ASSUME IInv, DumpInv, AppCount < AddressCount - APP_REG_START_ADDRESS, DumpCore \/ DumpApp
  PROVE  /\ DumpInv'
         /\ at = "dump_app" /\ at' # "dump_app" => last.address = LastRegister
  <1>0. /\ AppCount \in Nat /\ CORE_REG_COUNT = 18 /\ APP_REG_START_ADDRESS = 32
        /\ AddressCount \in Nat /\ 32 + AppCount < AddressCount
    BY RegistersAssumption DEF CORE_REG_COUNT, APP_REG_START_ADDRESS
  <1>1. /\ at \in Dumps /\ to_send = <<>> /\ UNCHANGED last
        /\ Shown(address)
    BY FirstReply DEF DumpCore, DumpApp, DumpInv, Dumps
  <1>2. CASE DumpCore
    <2>1. at = "dump_core" /\ address \in 0 .. 18
      BY <1>0, <1>2 DEF DumpCore, DumpInv
    <2>2. CASE address < 18
      <3>0. NextAddress = address + 1
        <4>1. address \in 0 .. AddressCount - 1 /\ address + 1 # AddressCount
          BY <1>0, <2>1, <2>2
        <4> QED
          BY <1>0, <4>1, NextAddressIs DEF NextAddress
      <3>1. /\ to_send' = Reply("READ", address) /\ address' = address + 1
            /\ at' = "dump_core"
        BY <1>0, <1>2, <2>1, <2>2, <3>0 DEF DumpCore
      <3>2. (address + 1) - 1 = address /\ address + 1 \in 1 .. 18
        BY <2>1, <2>2
      <3> QED
        BY <1>0, <1>1, <2>1, <3>1, <3>2 DEF DumpInv, Dumps, Shown, Before
    <2>3. CASE address = 18
      <3>1. to_send' = <<>> /\ address' = 32 /\ at' = "dump_app"
        BY <1>0, <1>2, <2>3 DEF DumpCore, Nothing
      <3>2. Shown(address)'
        BY <1>0, <1>1, <2>3, <3>1 DEF Shown, Before
      <3> QED
        BY <1>0, <2>1, <3>1, <3>2 DEF DumpInv, Dumps
    <2> QED
      BY <2>1, <2>2, <2>3
  <1>3. CASE DumpApp
    <2>1. at = "dump_app" /\ address \in 32 .. 32 + AppCount
      BY <1>0, <1>3 DEF DumpApp, DumpInv
    <2>2. CASE address < AppCount + 32
      <3>1. /\ to_send' = Reply("READ", address) /\ at' = "dump_app"
            /\ address' = (address + 1) % AddressCount
        BY <1>0, <1>3, <2>1, <2>2 DEF DumpApp, AppDumpGoesOn, NextAddress
      <3>2. address' = address + 1 /\ address' - 1 = address
        BY <1>0, <2>1, <2>2, <3>1, NextAddressIs
      <3> QED
        BY <1>0, <1>1, <2>1, <2>2, <3>1, <3>2 DEF DumpInv, Dumps, Shown, Before
    <2>3. CASE ~(address < AppCount + 32)
      <3>1. address = 32 + AppCount
        BY <1>0, <2>1, <2>3
      <3>2. at' = "replying" /\ address' = 0
        BY <1>0, <1>3, <2>3 DEF DumpApp, AppDumpGoesOn
      <3>3. last.address = LastRegister
        BY <1>0, <1>1, <3>1 DEF Shown, Before, LastRegister
      <3> QED
        BY <3>2, <3>3 DEF DumpInv, Dumps
    <2> QED
      BY <2>2, <2>3
  <1> QED
    BY <1>2, <1>3

\* The reply is of the register after the last one, and the device has it.
LEMMA DumpSends ==
  ASSUME IInv, DumpInv, AppCount < AddressCount - APP_REG_START_ADDRESS, SendReply
  PROVE  /\ DumpInv'
         /\ at \in Dumps /\ last'.type = "READ" =>
              last'.address = IF last.type = "READ" THEN After(last.address) ELSE 0
         /\ at \in Dumps => at' = at
  <1>0. /\ AppCount \in Nat /\ CORE_REG_COUNT = 18 /\ APP_REG_START_ADDRESS = 32
        /\ OPERATION_CTRL = 10
    BY RegistersAssumption DEF CORE_REG_COUNT, APP_REG_START_ADDRESS, OPERATION_CTRL
  <1>1. to_send # <<>> /\ to_send' = <<>> /\ address' = address
    BY DEF SendReply, IInv, TypeOK
  <1>2. CASE at \notin Dumps
    <2>1. at' = at \/ at' = "stopped"
      BY DEF SendReply
    <2> QED
      BY <1>1, <1>2, <2>1 DEF DumpInv, Dumps
  <1>3. CASE at \in Dumps
    <2> DEFINE reply == Head(to_send)
    <2>1. \/ address = 0 /\ reply.type = "WRITE" /\ reply.address = OPERATION_CTRL
          \/ /\ address \notin {0, 32} /\ Shown(address - 1)
             /\ reply.type = "READ" /\ reply.address = address - 1
      BY <1>0, <1>1, <1>3, FirstReply DEF DumpInv
    <2>2. /\ address \in 0 .. 18 \cup 32 .. 32 + AppCount
          /\ at = "dump_core" => address \in 0 .. 18
          /\ at = "dump_app" => address \in 32 .. 32 + AppCount
      BY <1>0, <1>3 DEF DumpInv, Dumps
    <2>3. reply.address \in Address
      BY <1>0, <2>1, <2>2 DEF Address, CoreAddress, AppAddress
    <2>4. last'.type = reply.type /\ last'.address = reply.address /\ at' = at
      BY <2>3 DEF SendReply
    <2> HIDE DEF reply
    <2>5. Shown(address)'
      BY <1>0, <1>1, <2>1, <2>2, <2>4 DEF Shown, Before
    <2>6. DumpInv'
      BY <1>0, <1>1, <1>3, <2>2, <2>4, <2>5 DEF DumpInv, Dumps
    <2>7. last'.type = "READ" =>
            last'.address = IF last.type = "READ" THEN After(last.address) ELSE 0
      BY <1>0, <2>1, <2>2, <2>4 DEF Shown, Before, After
    <2> QED
      BY <2>4, <2>6, <2>7
  <1> QED
    BY <1>2, <1>3

LEMMA DumpStep ==
  ASSUME AppCount < AddressCount - APP_REG_START_ADDRESS
  PROVE  IInv /\ DumpInv /\ [Next]_vars => DumpInv'
  BY DumpElsewhere, DumpAdvances, DumpSends

\* A dump shows the core's registers and then the application's, in order, each
\* once, and ends with the last, for every device whose registers leave an address
\* free: fewer than 224 of its own (with 224, the loop's uint8_t has no value at
\* which to stop).
THEOREM DumpInOrderCorrect ==
  ASSUME AppCount < AddressCount - APP_REG_START_ADDRESS
  PROVE  Spec => DumpInOrder
  <1>1. IInv /\ DumpInv /\ [Next]_vars =>
          [/\ at \in {"dump_core", "dump_app"} /\ SendReply /\ last'.type = "READ" =>
                last'.address = IF last.type = "READ" THEN After(last.address) ELSE 0
           /\ at = "dump_app" /\ at' # "dump_app" => last.address = LastRegister]_vars
    <2> SUFFICES ASSUME IInv, DumpInv, Next
                 PROVE  /\ at \in Dumps /\ SendReply /\ last'.type = "READ" =>
                             last'.address = IF last.type = "READ" THEN After(last.address) ELSE 0
                        /\ at = "dump_app" /\ at' # "dump_app" => last.address = LastRegister
      BY DEF Dumps
    <2>1. CASE SendReply
      BY <2>1, DumpSends DEF Dumps
    <2>2. CASE ~SendReply
      <3>1. at = "dump_app" /\ at' # "dump_app" => DumpApp
        BY <2>2 DEF Next, Handlers, Loop, Receive, UpdateState, UpdateAppState, TimeMoves,
                ReadCore, WriteReadOnly, WriteGeneric, WriteTimestamp, ForceState,
                WriteOperationCtrl, IgnoreType, CallPastTable, ClearUnhandled, Return,
                WriteResetDev, ReadApp, WriteApp, AppCalls, Calls, Dispatched, DumpCore
      <3> QED
        BY <2>2, <3>1, DumpAdvances
    <2> QED
      BY <2>1, <2>2
  <1> QED
    BY <1>1, Invariant, DumpInit, DumpStep, PTL DEF Spec, DumpInOrder

-----------------------------------------------------------------------------
(* How long the handlers take.                                             *)

LEMMA RepliesCounted ==
  /\ Len(Nothing) = 0
  /\ \A t, a : Len(Reply(t, a)) = 1
  BY DEF Nothing, Reply

\* Where the loop is, and which register a dump has come to.
LEMMA Whereabouts ==
  ASSUME IInv, DumpInv
  PROVE  /\ Len(to_send) \in 0 .. 1 /\ at \in At
         /\ at = "dump_core" => address \in 0 .. 18
         /\ at = "dump_app" => address \in 32 .. 32 + AppCount
         /\ at \in {"dispatch", "write_ctrl"} => address = 0
  <1>1. to_send \in Seq(ReplyHeader) /\ Len(to_send) <= 1 /\ at \in At
    BY DEF IInv, TypeOK
  <1>2. Len(to_send) \in Nat
    BY <1>1
  <1>3. Len(to_send) \in 0 .. 1
    <2> DEFINE n == Len(to_send)
    <2>1. n \in Nat /\ n <= 1
      BY <1>1, <1>2
    <2> HIDE DEF n
    <2>2. n \in 0 .. 1
      BY <2>1
    <2> QED
      BY <2>2 DEF n
  <1>4. /\ at = "dump_core" => address \in 0 .. 18
        /\ at = "dump_app" => address \in 32 .. 32 + AppCount
    BY DEF DumpInv, CORE_REG_COUNT, APP_REG_START_ADDRESS
  <1>5. at \in {"dispatch", "write_ctrl"} => address = 0
    BY DEF DumpInv, Dumps
  <1> QED
    BY <1>1, <1>3, <1>4, <1>5

LEMMA StepsCounted ==
  /\ AppCount \in Nat /\ CORE_REG_COUNT = 18 /\ APP_REG_START_ADDRESS = 32
  /\ AddressCount \in Nat /\ 32 + AppCount <= AddressCount
  /\ \A a :
       /\ StepsFrom("idle", a) = 0 /\ StepsFrom("stopped", a) = 0
       /\ StepsFrom("replying", a) = 1
       /\ StepsFrom("dump_app", a) = 2 * (32 + AppCount - a) + 2
       /\ StepsFrom("dump_core", a) = 2 * (18 - a + AppCount) + 3
       /\ StepsFrom("write_ctrl", a) = 2 * (18 + AppCount) + 5
       /\ StepsFrom("dispatch", a) = 2 * (18 + AppCount) + 7
  BY RegistersAssumption
     DEF StepsFrom, CORE_REG_COUNT, APP_REG_START_ADDRESS

\* Replies to send and steps of the handlers add up.
LEMMA FewerLeft ==
  ASSUME NEW n \in Int, NEW m \in Int, NEW p \in Int, NEW q \in Int, p + q < n + m,
         Len(to_send) = n, StepsFrom(at, address) = m,
         Len(to_send') = p, StepsFrom(at', address') = q
  PROVE  StepsLeft' < StepsLeft
  BY DEF StepsLeft

\* A reply that is sent is one less to send, and may be the last of the device.
LEMMA SendEndsNearer ==
  ASSUME IInv, DumpInv, SendReply
  PROVE  StepsLeft' < StepsLeft
  <1>1. to_send \in Seq(ReplyHeader) /\ Len(to_send) \in 0 .. 1
    BY Whereabouts DEF IInv, TypeOK
  <1>2. to_send # <<>> /\ to_send' = Tail(to_send) /\ address' = address
    BY DEF SendReply
  <1>3. Len(to_send) = 1 /\ Len(to_send') = 0
    BY <1>1, <1>2
  <1>4. at' = at \/ at' = "stopped"
    BY DEF SendReply
  <1>5. PICK m \in Nat : StepsFrom(at, address) = m
    <2>1. CASE at \in {"idle", "stopped", "replying"}
      BY <2>1, StepsCounted
    <2>2. CASE at \in {"write_ctrl", "dispatch"}
      BY <2>2, StepsCounted
    <2>3. CASE at = "dump_core"
      <3>1. address \in 0 .. 18 /\ AppCount \in Nat
        BY <2>3, StepsCounted, Whereabouts
      <3>2. 2 * (18 - address + AppCount) + 3 \in Nat
        BY <3>1
      <3> QED
        BY <2>3, <3>2, StepsCounted
    <2>4. CASE at = "dump_app"
      <3>1. address \in 32 .. 32 + AppCount /\ AppCount \in Nat
        BY <2>4, StepsCounted, Whereabouts
      <3>2. 2 * (32 + AppCount - address) + 2 \in Nat
        BY <3>1
      <3> QED
        BY <2>4, <3>2, StepsCounted
    <2> QED
      BY <2>1, <2>2, <2>3, <2>4, Whereabouts DEF At
  <1>6. PICK q \in {m, 0} : StepsFrom(at', address') = q
    BY <1>2, <1>4, <1>5, StepsCounted
  <1>7. m \in Int /\ q \in Int /\ 0 + q < 1 + m
    BY <1>5, <1>6
  <1> QED
    BY <1>3, <1>5, <1>6, <1>7, FewerLeft

\* A handler that leaves at most one reply to send.
LEMMA AnswerEndsNearer ==
  ASSUME IInv, DumpInv, at = "dispatch", at' \in {"replying", "stopped"},
         Len(to_send') \in 0 .. 1
  PROVE  StepsLeft' < StepsLeft
  <1>1. PICK q \in 0 .. 1 : StepsFrom(at', address') = q
    BY StepsCounted
  <1>2. PICK m \in Nat : StepsFrom(at, address) = m /\ m > 2
    BY StepsCounted
  <1>3. PICK n \in 0 .. 1 : Len(to_send) = n
    BY Whereabouts
  <1>4. PICK p \in 0 .. 1 : Len(to_send') = p
    OBVIOUS
  <1>5. n \in Int /\ m \in Int /\ p \in Int /\ q \in Int /\ p + q < n + m
    BY <1>1, <1>2, <1>3, <1>4
  <1> QED
    BY <1>1, <1>2, <1>3, <1>4, <1>5, FewerLeft

LEMMA CtrlEndsNearer ==
  ASSUME IInv, DumpInv, WriteOperationCtrl \/ \E due \in BOOLEAN : ForceState(due)
  PROVE  StepsLeft' < StepsLeft
  <1>1. PICK n \in 0 .. 1 : Len(to_send) = n
    BY Whereabouts
  <1>2. PICK p \in 0 .. 1 : Len(to_send') = p
    BY RepliesCounted DEF WriteOperationCtrl, ForceState
  <1>3. PICK k \in Nat : k = 2 * (18 + AppCount)
    BY StepsCounted
  <1>4. CASE WriteOperationCtrl
    <2>1. at \in {"dispatch", "write_ctrl"} /\ address' = 0
      BY <1>4, Whereabouts DEF WriteOperationCtrl, Calls, Dispatched
    <2>2. at' \in {"dump_core", "replying"}
      BY <1>4 DEF WriteOperationCtrl
    <2>3. PICK q \in Int : StepsFrom(at', address') = q /\ q <= k + 3
      BY <1>3, <2>1, <2>2, StepsCounted
    <2>4. PICK m \in Int : StepsFrom(at, address) = m /\ m >= k + 5
      BY <1>3, <2>1, StepsCounted
    <2>5. n \in Int /\ p \in Int /\ p + q < n + m
      BY <1>1, <1>2, <1>3, <2>3, <2>4
    <2> QED
      BY <1>1, <1>2, <2>3, <2>4, <2>5, FewerLeft
  <1>5. ASSUME NEW due \in BOOLEAN, ForceState(due) PROVE StepsLeft' < StepsLeft
    <2>1. at = "dispatch" /\ at' = "write_ctrl"
      BY <1>5 DEF ForceState, Calls, Dispatched
    <2>2. StepsFrom(at, address) = k + 7 /\ StepsFrom(at', address') = k + 5
      BY <1>3, <2>1, StepsCounted
    <2>3. /\ n \in Int /\ p \in Int /\ k + 7 \in Int /\ k + 5 \in Int
          /\ p + (k + 5) < n + (k + 7)
      BY <1>1, <1>2, <1>3
    <2> QED
      BY <1>1, <1>2, <2>2, <2>3, FewerLeft
  <1> QED
    BY <1>4, <1>5

LEMMA DumpEndsNearer ==
  ASSUME IInv, DumpInv, AppCount < AddressCount - APP_REG_START_ADDRESS, DumpCore \/ DumpApp
  PROVE  StepsLeft' < StepsLeft
  <1>1. Len(to_send) = 0
    BY DEF DumpCore, DumpApp
  <1>2. CASE DumpCore
    <2>1. at = "dump_core" /\ address \in 0 .. 18
      BY <1>2, Whereabouts DEF DumpCore
    <2>2. PICK m \in Int : StepsFrom(at, address) = m /\ m = 2 * (18 - address + AppCount) + 3
      BY <2>1, StepsCounted
    <2>3. CASE address < 18
      <3>1. NextAddress = address + 1
        <4>1. address \in 0 .. AddressCount - 1 /\ address + 1 # AddressCount
          BY <2>1, <2>3, StepsCounted
        <4> QED
          BY <4>1, StepsCounted, NextAddressIs DEF NextAddress
      <3>2. at' = "dump_core" /\ address' = address + 1 /\ Len(to_send') = 1
        BY <1>2, <2>1, <2>3, <3>1, StepsCounted, RepliesCounted DEF DumpCore
      <3>3. PICK q \in Int : StepsFrom(at', address') = q /\ 1 + q < 0 + m
        BY <2>1, <2>2, <3>2, StepsCounted
      <3> QED
        BY <1>1, <2>2, <3>2, <3>3, FewerLeft
    <2>4. CASE address = 18
      <3>1. at' = "dump_app" /\ address' = 32 /\ Len(to_send') = 0
        BY <1>2, <2>4, StepsCounted, RepliesCounted DEF DumpCore
      <3>2. PICK q \in Int : StepsFrom(at', address') = q /\ 0 + q < 0 + m
        BY <2>2, <2>4, <3>1, StepsCounted
      <3> QED
        BY <1>1, <2>2, <3>1, <3>2, FewerLeft
    <2> QED
      BY <2>1, <2>3, <2>4
  <1>3. CASE DumpApp
    <2>1. at = "dump_app" /\ address \in 32 .. 32 + AppCount
      BY <1>3, Whereabouts DEF DumpApp
    <2>2. PICK m \in Int : StepsFrom(at, address) = m /\ m = 2 * (32 + AppCount - address) + 2
      BY <2>1, StepsCounted
    <2>3. CASE AppDumpGoesOn
      <3>1. address \in 32 .. 31 + AppCount
        BY <2>1, <2>3, StepsCounted DEF AppDumpGoesOn
      <3>2. NextAddress = address + 1
        BY <3>1, StepsCounted, NextAddressIs, APP_REG_START_ADDRESS = 32 DEF NextAddress
      <3>3. at' = "dump_app" /\ address' = address + 1 /\ Len(to_send') = 1
        BY <1>3, <2>1, <2>3, <3>2, RepliesCounted DEF DumpApp
      <3>4. PICK q \in Int : StepsFrom(at', address') = q /\ 1 + q < 0 + m
        BY <2>2, <3>1, <3>3, StepsCounted
      <3> QED
        BY <1>1, <2>2, <3>3, <3>4, FewerLeft
    <2>4. CASE ~AppDumpGoesOn
      <3>1. at' = "replying" /\ Len(to_send') = 0
        BY <1>3, <2>4, RepliesCounted DEF DumpApp
      <3>2. PICK q \in Int : StepsFrom(at', address') = q /\ 0 + q < 0 + m
        BY <2>1, <2>2, <3>1, StepsCounted
      <3> QED
        BY <1>1, <2>2, <3>1, <3>2, FewerLeft
    <2> QED
      BY <2>3, <2>4
  <1> QED
    BY <1>2, <1>3

LEMMA HandlerEndsNearer ==
  ASSUME IInv, DumpInv, AppCount < AddressCount - APP_REG_START_ADDRESS, Handlers
  PROVE  StepsLeft' < StepsLeft
  <1>1. CASE \E a \in CoreAddress : ReadCore(a) \/ WriteReadOnly(a) \/ WriteGeneric(a)
                                      \/ WriteTimestamp(a)
    <2>1. at = "dispatch" /\ at' = "replying" /\ Len(to_send') \in 0 .. 1
      BY <1>1, RepliesCounted
         DEF ReadCore, WriteReadOnly, WriteGeneric, WriteTimestamp, GenericReply, Answer,
             Calls, Dispatched
    <2> QED
      BY <2>1, AnswerEndsNearer
  <1>2. CASE \E a \in AppAddress : ReadApp(a) \/ WriteApp(a)
    <2>1. at = "dispatch" /\ at' = "replying" /\ Len(to_send') \in 0 .. 1
      BY <1>2, RepliesCounted DEF ReadApp, WriteApp, GenericReply, Answer, AppCalls
    <2> QED
      BY <2>1, AnswerEndsNearer
  <1>3. CASE IgnoreType \/ CallPastTable \/ ClearUnhandled
    <2>1. at = "dispatch" /\ at' \in {"replying", "stopped"} /\ Len(to_send') \in 0 .. 1
      BY <1>3, RepliesCounted, Whereabouts
         DEF IgnoreType, CallPastTable, ClearUnhandled, Unhandled, Answer, Dispatched
    <2> QED
      BY <2>1, AnswerEndsNearer
  <1>4. CASE \E v \in Values : WriteResetDev(v)
    <2>1. at = "dispatch" /\ at' \in {"replying", "stopped"} /\ Len(to_send') \in 0 .. 1
      BY <1>4, RepliesCounted DEF WriteResetDev, Calls, Dispatched
    <2> QED
      BY <2>1, AnswerEndsNearer
  <1>5. CASE Return
    <2>1. Len(to_send) = 0 /\ Len(to_send') = 0 /\ at = "replying" /\ at' = "idle"
      BY <1>5 DEF Return
    <2>2. StepsFrom(at, address) = 1 /\ StepsFrom(at', address') = 0
      BY <2>1, StepsCounted
    <2>3. 0 + 0 < 0 + 1
      OBVIOUS
    <2> QED
      BY <2>1, <2>2, <2>3, FewerLeft
  <1> QED
    BY <1>1, <1>2, <1>3, <1>4, <1>5, SendEndsNearer, CtrlEndsNearer, DumpEndsNearer
       DEF Handlers

\* No message keeps the handlers for ever: each step they take brings the end nearer,
\* on every device whose registers leave an address free.
THEOREM HandlersEndCorrect ==
  ASSUME AppCount < AddressCount - APP_REG_START_ADDRESS
  PROVE  Spec => HandlersEnd
  <1>1. IInv /\ DumpInv /\ [Next]_vars => [Handlers => StepsLeft' < StepsLeft]_vars
    BY HandlerEndsNearer
  <1> QED
    BY <1>1, Invariant, DumpInit, DumpStep, PTL DEF Spec, HandlersEnd
=============================================================================
