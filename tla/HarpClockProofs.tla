-------------------------- MODULE HarpClockProofs --------------------------
(***************************************************************************)
(* Theorems about the clock, for every width of a word, every length of a  *)
(* second, every time the PC writes and every packet.                      *)
(***************************************************************************)
EXTENDS HarpClock, HarpTimeProofs, SequenceTheorems

LEMMA ClockSizes ==
  /\ Unit \in Nat \ {0} /\ Second % Unit = 0 /\ Wraps \in Nat \ {0}
  /\ MaxTime \in Time64 /\ MaxDelay \in Nat /\ 0 \in Time32 /\ 0 \in Time64
  /\ 0 \in 0 .. MaxTime /\ 0 \in 0 .. MaxDelay
  /\ Leads \subseteq Time64 /\ SecondsWritten \subseteq Time32 /\ MicrosWritten \subseteq Time32
  BY ClockAssumption, TimeAssumption, Sizes DEF Time32, Time64

LEMMA ModLong == ASSUME NEW x \in Int PROVE (x % Long) \in Time64
  BY Sizes, DivMod DEF Time64

LEMMA ModWord == ASSUME NEW x \in Int PROVE (x % Word) \in Time32
  BY Sizes, DivMod DEF Time32

\* A difference may be reduced before it is taken.
LEMMA ModSub ==
  ASSUME NEW m \in Nat \ {0}, NEW x \in Int, NEW y \in Int
  PROVE  ((x - (y % m)) % m) = ((x - y) % m)
  <1> DEFINE s == y % m
             k == y \div m
             r == (x - y) % m
             q == (x - y) \div m
  <1>1. s \in Int /\ k \in Int /\ y = m * k + s
    BY DivMod
  <1>2. r \in 0 .. m - 1 /\ q \in Int /\ x - y = m * q + r
    <2>1. x - y \in Int
      OBVIOUS
    <2> QED
      BY <2>1, DivMod
  <1> HIDE DEF s, k, r, q
  <1>3. x - s = m * (q + k) + r
    BY <1>1, <1>2
  <1>4. ((x - s) % m) = r
    <2>1. x - s \in Int /\ q + k \in Int
      BY <1>1, <1>2
    <2> QED
      BY <1>2, <1>3, <2>1, ModUnique
  <1> QED
    BY <1>4 DEF s, r

\* The two words of a number are the number.
LEMMA WordsOf ==
  ASSUME NEW o \in Time64
  PROVE  ToWords(o) \in Words /\ FromWords(ToWords(o)) = o
  <1> DEFINE k == o \div Word
             s == o % Word
  <1>1. s \in 0 .. Word - 1 /\ k \in Int /\ o = Word * k + s
    BY Sizes, DivMod DEF Time64
  <1>2. Word \in Nat \ {0} /\ Wraps \in Nat \ {0} /\ o \in 0 .. Wraps * Word - 1
    BY Sizes, TimeAssumption DEF Time64, Long
  <1> HIDE DEF k, s
  <1>3. k >= 0
    <2>1. CASE k <= -1
      <3>1. Word * k <= -Word
        BY <1>1, <1>2, <2>1
      <3> QED
        BY <1>1, <1>2, <3>1
    <2> QED
      BY <1>1, <2>1
  <1>4. k <= Wraps - 1
    <2>1. CASE k >= Wraps
      <3>1. Word * k >= Wraps * Word
        BY <1>1, <1>2, <2>1
      <3> QED
        BY <1>1, <1>2, <3>1
    <2> QED
      BY <1>1, <1>2, <2>1
  <1>5. ToWords(o) = [low |-> s, high |-> k]
    BY DEF ToWords, s, k
  <1> QED
    BY <1>1, <1>2, <1>3, <1>4, <1>5 DEF Words, FromWords, Time32

LEMMA FromWordsType ==
  ASSUME NEW w \in Words
  PROVE  FromWords(w) \in Time64
  <1> DEFINE l == w.low
             h == w.high
  <1>1. /\ Word \in Nat \ {0} /\ Wraps \in Nat \ {0}
        /\ l \in 0 .. Word - 1 /\ h \in 0 .. Wraps - 1
    BY Sizes, ClockSizes DEF Words, Time32
  <1> HIDE DEF l, h
  <1>2. h * Word >= 0 /\ h * Word \in Int /\ h * Word <= (Wraps - 1) * Word
    BY <1>1
  <1>3. (Wraps - 1) * Word = Wraps * Word - Word /\ Wraps * Word \in Int
    BY <1>1
  <1>4. h * Word + l \in 0 .. Wraps * Word - 1
    BY <1>1, <1>2, <1>3
  <1> QED
    BY <1>4 DEF FromWords, Time64, Long, l, h

\* The units of the last second are fewer than 1'000'000 / 32.
LEMMA MicroType ==
  ASSUME NEW h \in Int
  PROVE  MicroOf(h) \in 0 .. (Second \div Unit) - 1
  <1> DEFINE x == h % Second
             k == x \div Unit
             q == Second \div Unit
  <1>1. x \in 0 .. Second - 1
    BY Sizes, DivMod
  <1>2. k \in Int /\ (x % Unit) \in 0 .. Unit - 1 /\ x = Unit * k + (x % Unit)
    BY <1>1, Sizes, ClockSizes, DivMod
  <1>3. q \in Int /\ Second = Unit * q
    <2>1. Second \in Int /\ Second = Unit * q + (Second % Unit) /\ q \in Int
      BY Sizes, ClockSizes, DivMod
    <2>2. Unit * q \in Int
      BY <2>1, ClockSizes
    <2> QED
      BY <2>1, <2>2, ClockSizes
  <1> HIDE DEF x, k, q
  <1>4. k >= 0
    <2>1. CASE k <= -1
      <3>1. Unit * k <= -Unit
        BY <1>2, <2>1, ClockSizes
      <3> QED
        BY <1>1, <1>2, <3>1, ClockSizes, Sizes
    <2> QED
      BY <1>2, <2>1
  <1>5. k <= q - 1
    <2>1. CASE k >= q
      <3>1. Unit * k >= Unit * q
        BY <1>2, <1>3, <2>1, ClockSizes
      <3> QED
        BY <1>1, <1>2, <1>3, <3>1, ClockSizes, Sizes
    <2> QED
      BY <1>2, <1>3, <2>1
  <1> QED
    BY <1>2, <1>3, <1>4, <1>5 DEF MicroOf, x, k, q

\* Converting a local time to Harp time and back gives it again, whatever the
\* offset: alarms set for a Harp time ring when they should.
THEOREM RoundTrip ==
  ASSUME NEW t \in Time64, NEW offset \in Int
  PROVE  harp_to_system_us_64(system_to_harp_us_64(t, offset), offset) = t
  <1>1. (((t - offset) % Long) + offset) % Long = ((t - offset) + offset) % Long
    <2>1. t - offset \in Int /\ Long \in Nat \ {0}
      BY Sizes DEF Time64
    <2> QED
      BY <2>1, ModAdd
  <1>2. (t - offset) + offset = t /\ (t % Long) = t
    <2>1. t \in 0 .. Long - 1 /\ t \in Int /\ t = Long * 0 + t
      BY Sizes DEF Time64
    <2> QED
      BY <2>1, Sizes, ModUnique
  <1> QED
    BY <1>1, <1>2 DEF harp_to_system_us_64, system_to_harp_us_64

-----------------------------------------------------------------------------
(* What a handler has left to do.                                          *)

Loading == <<"load">>
Core1   == <<"store_core", "load">>
Core2   == <<"store_core", "store_core", "load">>
Sync1   == <<"store_sync", "store_core", "load">>
Sync2   == <<"store_sync", "store_core", "store_sync", "store_core", "load">>
Between == <<"store_core", "store_sync", "store_core", "load">>

\* The accesses left to a handler that sets the time.
Setting == IF sync_ THEN {Sync2, Between, Sync1, Core1, Loading}
                    ELSE {Core2, Core1, Loading}

LEMMA ByElements ==
  ASSUME NEW r \in Seq(Access)
  PROVE  /\ Len(r) = 2 /\ r[1] = "store_core" /\ r[2] = "load" => r = Core1
         /\ Len(r) = 3 /\ r[1] = "store_core" /\ r[2] = "store_core" /\ r[3] = "load"
              => r = Core2
         /\ Len(r) = 3 /\ r[1] = "store_sync" /\ r[2] = "store_core" /\ r[3] = "load"
              => r = Sync1
         /\ Len(r) = 5 /\ r[1] = "store_sync" /\ r[2] = "store_core" /\ r[3] = "store_sync"
              /\ r[4] = "store_core" /\ r[5] = "load" => r = Sync2
  BY DEF Access, Core1, Core2, Sync1, Sync2

\* One access, or the two of a device with a synchronizer, before others.
LEMMA Before ==
  ASSUME NEW t \in Seq(Access)
  PROVE  /\ LET s == <<"store_core">>
            IN /\ s \o t \in Seq(Access) /\ Len(s \o t) = 1 + Len(t)
               /\ (s \o t)[1] = "store_core"
               /\ \A i \in 1 .. Len(t) : (s \o t)[i + 1] = t[i]
         /\ LET s == <<"store_sync", "store_core">>
            IN /\ s \o t \in Seq(Access) /\ Len(s \o t) = 2 + Len(t)
               /\ (s \o t)[1] = "store_sync" /\ (s \o t)[2] = "store_core"
               /\ \A i \in 1 .. Len(t) : (s \o t)[i + 2] = t[i]
  BY ConcatProperties DEF Access

LEMMA Programs ==
  /\ SetHarpTime \o <<"load">> = IF sync_ THEN Sync1 ELSE Core1
  /\ SetHarpTime \o (SetHarpTime \o <<"load">>) = IF sync_ THEN Sync2 ELSE Core2
  <1>1. Loading \in Seq(Access) /\ Len(Loading) = 1 /\ Loading[1] = "load"
    BY DEF Access, Loading
  <1>2. CASE sync_
    <2> DEFINE r == SetHarpTime \o Loading
               q == SetHarpTime \o r
    <2>1. SetHarpTime = <<"store_sync", "store_core">>
      BY <1>2 DEF SetHarpTime
    <2>2. r \in Seq(Access) /\ Len(r) = 3
          /\ r[1] = "store_sync" /\ r[2] = "store_core" /\ r[1 + 2] = "load"
      BY <1>1, <2>1, Before
    <2> HIDE DEF r
    <2>3. q \in Seq(Access) /\ Len(q) = 2 + Len(r) /\ q[1] = "store_sync"
          /\ q[2] = "store_core"
          /\ \A i \in 1 .. Len(r) : q[i + 2] = r[i]
      BY <2>1, <2>2, Before
    <2> HIDE DEF q
    <2>4. q[3] = "store_sync" /\ q[4] = "store_core" /\ q[5] = "load"
      BY <2>2, <2>3, 1 + 2 = 3, 2 + 2 = 4, 3 + 2 = 5
    <2>5. r = Sync1 /\ q = Sync2
      BY <2>2, <2>3, <2>4, ByElements
    <2> QED
      BY <1>2, <2>5 DEF r, q, Loading
  <1>3. CASE ~sync_
    <2> DEFINE r == SetHarpTime \o Loading
               q == SetHarpTime \o r
    <2>1. SetHarpTime = <<"store_core">>
      BY <1>3 DEF SetHarpTime
    <2>2. r \in Seq(Access) /\ Len(r) = 2 /\ r[1] = "store_core" /\ r[1 + 1] = "load"
      BY <1>1, <2>1, Before
    <2> HIDE DEF r
    <2>3. q \in Seq(Access) /\ Len(q) = 1 + Len(r) /\ q[1] = "store_core"
          /\ \A i \in 1 .. Len(r) : q[i + 1] = r[i]
      BY <2>1, <2>2, Before
    <2> HIDE DEF q
    <2>4. q[2] = "store_core" /\ q[3] = "load"
      BY <2>2, <2>3, 1 + 1 = 2, 2 + 1 = 3
    <2>5. r = Core1 /\ q = Core2
      BY <2>2, <2>3, <2>4, ByElements
    <2> QED
      BY <1>3, <2>5 DEF r, q, Loading
  <1> QED
    BY <1>2, <1>3

LEMMA Tails ==
  /\ {Sync2, Between, Sync1, Core2, Core1, Loading} \subseteq Seq(Access)
  /\ Sync2 # <<>> /\ Between # <<>> /\ Sync1 # <<>>
  /\ Core2 # <<>> /\ Core1 # <<>> /\ Loading # <<>>
  /\ Head(Sync2) = "store_sync" /\ Tail(Sync2) = Between
  /\ Head(Between) = "store_core" /\ Tail(Between) = Sync1
  /\ Head(Sync1) = "store_sync" /\ Tail(Sync1) = Core1
  /\ Head(Core2) = "store_core" /\ Tail(Core2) = Core1
  /\ Head(Core1) = "store_core" /\ Tail(Core1) = Loading
  /\ Head(Loading) = "load" /\ Tail(Loading) = <<>> /\ Len(Loading) = 1
  <1>1. {Sync2, Between, Sync1, Core2, Core1, Loading} \subseteq Seq(Access)
    BY DEF Access, Loading, Core1, Core2, Sync1, Sync2, Between
  <1>2. Tail(Sync2) = Between /\ Tail(Between) = Sync1 /\ Tail(Sync1) = Core1
    BY DEF Access, Loading, Core1, Sync1, Sync2, Between
  <1>3. Tail(Core2) = Core1 /\ Tail(Core1) = Loading /\ Tail(Loading) = <<>>
        /\ Len(Loading) = 1
    BY DEF Loading, Core1, Core2
  <1>4. /\ Head(Sync2) = "store_sync" /\ Head(Between) = "store_core"
        /\ Head(Sync1) = "store_sync" /\ Head(Core2) = "store_core"
        /\ Head(Core1) = "store_core" /\ Head(Loading) = "load"
    BY DEF Loading, Core1, Core2, Sync1, Sync2, Between
  <1>5. /\ Sync2 # <<>> /\ Between # <<>> /\ Sync1 # <<>>
        /\ Core2 # <<>> /\ Core1 # <<>> /\ Loading # <<>>
    BY DEF Loading, Core1, Core2, Sync1, Sync2, Between
  <1> QED
    BY <1>1, <1>2, <1>3, <1>4, <1>5

LEMMA SettingFacts ==
  ASSUME NEW p \in Setting
  PROVE  /\ p \in Seq(Access) /\ p # <<>>
         /\ Head(p) = "store_sync" => p \in {Sync2, Sync1} /\ sync_
         /\ Head(p) = "store_core" => p \in {Between, Core2, Core1}
         /\ Head(p) = "load" => p = Loading
         /\ p # Loading => Tail(p) \in Setting /\ Tail(p) # <<>>
  BY Tails DEF Setting

-----------------------------------------------------------------------------
(* Types.                                                                  *)

Half == {"low", "high"}

\* The loop has nothing to do, or reads the time, or sets it; words are moved only
\* for the access at the head, and only where there is a synchronizer.
Reading == <<"load", "load">>
Moving ==
  /\ todo \in Setting \cup {<<>>, Reading}
  /\ halves # {} => todo # <<>> /\ sync_ /\ Head(todo) \in {"store_sync", "load"}

LEMMA MovingFacts ==
  ASSUME Moving, todo # <<>>
  PROVE  /\ todo \in Seq(Access) /\ Tail(todo) \in Seq(Access)
         /\ Tail(todo) \in Setting \cup {<<>>, Reading}
         /\ Head(todo) = "store_sync" => sync_
  <1>1. Reading \in Seq(Access) /\ Tail(Reading) = Loading /\ Head(Reading) = "load"
    BY DEF Reading, Loading, Access
  <1>2. Loading \in Setting /\ Loading \in Seq(Access) /\ <<>> \in Seq(Access)
    BY Tails DEF Setting
  <1>3. CASE todo = Reading
    BY <1>1, <1>2, <1>3
  <1>4. CASE todo \in Setting
    <2>1. todo \in Seq(Access) /\ (Head(todo) = "store_sync" => sync_)
      BY <1>4, SettingFacts
    <2>2. CASE todo = Loading
      BY <1>2, <2>2, <2>1, Tails
    <2>3. CASE todo # Loading
      <3>1. Tail(todo) \in Setting
        BY <1>4, <2>3, SettingFacts
      <3>2. Tail(todo) \in Seq(Access)
        BY <3>1, SettingFacts
      <3> QED
        BY <2>1, <3>1, <3>2
    <2> QED
      BY <2>2, <2>3
  <1> QED
    BY <1>3, <1>4 DEF Moving

LEMMA HalfType ==
  ASSUME NEW a \in Words, NEW b \in Words, NEW w \in Half
  PROVE  /\ [a EXCEPT ![w] = b[w]] \in Words
         /\ [a EXCEPT ![w] = b[w]][w] = b[w]
         /\ \A u \in Half : u # w => [a EXCEPT ![w] = b[w]][u] = a[u]
  BY DEF Words, Half

LEMMA SameWords ==
  ASSUME NEW a \in Words, NEW b \in Words, \A w \in Half : a[w] = b[w]
  PROVE  FromWords(a) = FromWords(b)
  BY DEF Words, Half, FromWords

LEMMA LoadedWords ==
  ASSUME sync_offset \in Words, moved \in Words, NEW w \in Half
  PROVE  /\ Loaded(w) \in Words /\ Loaded(w)[w] = sync_offset[w]
         /\ \A u \in Half : u # w => Loaded(w)[u] = moved[u]
  BY HalfType DEF Loaded

LEMMA InitTypes == Init => TypeOK /\ Moving
  <1> SUFFICES ASSUME Init PROVE TypeOK /\ Moving
    OBVIOUS
  <1>1. Zero \in Words /\ 0 \in 0 .. (Second \div Unit) - 1
    <2>1. MicroOf(0) \in 0 .. (Second \div Unit) - 1
      BY MicroType
    <2>2. Second \div Unit \in Int
      BY ClockSizes, Sizes, DivMod
    <2> QED
      BY <2>1, <2>2, ClockSizes DEF Words, Zero
  <1> QED
    <2>0. <<>> \in Seq(Access)
      BY Tails
    <2>1. /\ system_us \in 0 .. MaxTime /\ sync_ \in BOOLEAN /\ by_packet \in BOOLEAN
          /\ sync_offset \in Words /\ moved \in Words
          /\ core_offset \in Time64 /\ local_us \in Time64 /\ new_harp_time_us \in Time64
          /\ todo \in Seq(Access) /\ halves \subseteq {"low", "high"}
      BY <1>1, <2>0, ClockSizes DEF Init
    <2>2. /\ R_TIMESTAMP_SECOND \in Time32 /\ R_TIMESTAMP_MICRO \in 0 .. (Second \div Unit) - 1
          /\ meant \subseteq Time64 /\ seen \subseteq Time64
          /\ ahead \in Leads \cup {0} /\ cut \in BOOLEAN
          /\ delay \in 0 .. MaxDelay /\ undisturbed \in BOOLEAN
      BY <1>1, ClockSizes DEF Init
    <2>3. Moving
      BY DEF Init, Moving
    <2> QED
      BY <2>1, <2>2, <2>3 DEF TypeOK

\* The handler that gets a time goes on to its next access, or is done.
LEMMA GetTimeTypes ==
  ASSUME TypeOK, Moving, todo # <<>>, NEW harp \in Time64, GetTime(harp), halves' = {},
         UNCHANGED <<system_us, sync_, sync_offset, core_offset, by_packet, ahead, meant>>
  PROVE  TypeOK' /\ Moving'
  <1>1. SecondOf(harp) \in Time32 /\ MicroOf(harp) \in 0 .. (Second \div Unit) - 1
    <2>1. harp \in Int
      BY Sizes DEF Time64
    <2>2. harp \div Second \in Int
      BY <2>1, Sizes, DivMod
    <2> QED
      BY <2>1, <2>2, ModWord, MicroType DEF SecondOf
  <1>2. Zero \in Words
    BY ClockSizes DEF Words, Zero
  <1>3. Tail(todo) \in Seq(Access) /\ Tail(todo) \in Setting \cup {<<>>, Reading}
    BY MovingFacts
  <1>4. /\ R_TIMESTAMP_SECOND' \in Time32 /\ R_TIMESTAMP_MICRO' \in 0 .. (Second \div Unit) - 1
        /\ todo' \in Seq(Access) /\ moved' \in Words /\ local_us' \in Time64
        /\ seen' \subseteq Time64 /\ cut' \in BOOLEAN
    BY <1>1, <1>2, <1>3, ClockSizes DEF GetTime
  <1>5. new_harp_time_us' \in Time64 /\ delay' \in 0 .. MaxDelay /\ undisturbed' \in BOOLEAN
    <2>1. CASE Len(todo) > 1
      BY <2>1 DEF GetTime, TypeOK
    <2>2. CASE ~(Len(todo) > 1)
      BY <2>2, ClockSizes DEF GetTime
    <2> QED
      BY <2>1, <2>2
  <1>6. Moving'
    <2>1. Setting' = Setting
      BY DEF Setting
    <2> QED
      BY <1>3, <2>1 DEF GetTime, Moving
  <1> QED
    BY <1>4, <1>5, <1>6 DEF TypeOK

LEMMA StepTypes ==
  ASSUME TypeOK, Moving, [Next]_vars
  PROVE  TypeOK' /\ Moving'
  <1>1. /\ system_us \in Int /\ core_offset \in Int /\ local_us \in Int
        /\ new_harp_time_us \in Int /\ delay \in Int
        /\ system_us \in Time64
    BY ClockSizes, Sizes DEF TypeOK, Time64
  <1>2. NewOffset \in Time64
    BY <1>1, ModLong DEF NewOffset
  <1> USE DEF Moving
  <1>0. Setting' = Setting
    <2>1. sync_' = sync_
      BY DEF Next, vars, Tick, Handler, Requests, Packet, ReadTimestamp, Write,
             write_timestamp_second, write_timestamp_microsecond, StoreCore, BeginStore,
             StoreHalf, BeginLoad, LoadHalf, LoadCore
    <2> QED
      BY <2>1 DEF Setting
  <1>3. ASSUME Tick PROVE TypeOK' /\ Moving'
    <2>1. system_us' \in 0 .. MaxTime /\ delay' \in 0 .. MaxDelay
      BY <1>1, <1>3, ClockSizes, Sizes DEF Tick, TypeOK, Time64
    <2> QED
      BY <1>0, <1>3, <2>1 DEF Tick, TypeOK, loop, stamp
  <1>4. ASSUME NEW lead \in Leads, Packet(lead) PROVE TypeOK' /\ Moving'
    <2> DEFINE curr == (system_us + lead) % Long
               offset == (system_us - curr) % Long
    <2>1. offset \in Time64
      <3>1. system_us + lead \in Int
        BY <1>1, ClockSizes, Sizes DEF Time64
      <3>2. curr \in Time64
        BY <3>1, ModLong
      <3> HIDE DEF curr
      <3>3. curr \in Int
        BY <3>2, Sizes DEF Time64
      <3>4. system_us - curr \in Int
        BY <1>1, <3>3
      <3> QED
        BY <3>4, ModLong
    <2>2. FromWords(moved) \in Time64 /\ PacketWords(offset) \in Words
      BY <2>1, FromWordsType, WordsOf DEF PacketWords, TypeOK
    <2>3. sync_offset' \in Words /\ meant' \subseteq Time64 /\ seen' \subseteq Time64
      BY <1>4, <2>1, <2>2 DEF Packet, TypeOK
    <2>4. delay' \in 0 .. MaxDelay /\ ahead' \in Leads \cup {0} /\ cut' \in BOOLEAN
      BY <1>4, ClockSizes DEF Packet, TypeOK, HalfLoaded
    <2> HIDE DEF offset
    <2> QED
      BY <1>0, <1>4, <2>3, <2>4 DEF Packet, TypeOK, loop, stamp
  <1>5. CASE Requests
    <2>1. ASSUME ReadTimestamp PROVE TypeOK' /\ Moving'
      <3>1. todo' = Reading /\ Reading \in Seq(Access)
        BY <2>1 DEF ReadTimestamp, Reading, Access
      <3>2. Moving'
        BY <1>0, <2>1, <3>1 DEF ReadTimestamp, Idle
      <3> QED
        BY <2>1, <3>1, <3>2 DEF ReadTimestamp, Idle, TypeOK, stamp, hist
    <2>2. ASSUME NEW harp \in Time64, NEW accesses \in Setting, Write(harp, accesses)
          PROVE  TypeOK' /\ Moving'
      <3>1. accesses \in Seq(Access)
        BY SettingFacts
      <3>2. Moving'
        BY <1>0, <2>2 DEF Write, Idle
      <3>3. delay' \in 0 .. MaxDelay /\ undisturbed' \in BOOLEAN
        BY <2>2, ClockSizes DEF Write
      <3> QED
        BY <2>2, <3>1, <3>2, <3>3 DEF Write, TypeOK, stamp
    <2>3. /\ SetHarpTime \o <<"load">> \in Setting
          /\ SetHarpTime \o (SetHarpTime \o <<"load">>) \in Setting
      BY Programs DEF Setting
    <2>4. ASSUME NEW s \in SecondsWritten, write_timestamp_second(s)
          PROVE  TypeOK' /\ Moving'
      <3> DEFINE harp == s * Second + (system_us % Second)
      <3>1. harp \in Int
        BY <1>1, ClockSizes, Sizes, DivMod DEF Time32
      <3>2. (harp % Long) \in Time64
        BY <3>1, ModLong
      <3> QED
        BY <2>2, <2>3, <2>4, <3>2 DEF write_timestamp_second
    <2>5. ASSUME NEW m \in MicrosWritten, write_timestamp_microsecond(m)
          PROVE  TypeOK' /\ Moving'
      <3> DEFINE harp == (system_us \div Second) + m * Unit
      <3>1. harp \in Int
        BY <1>1, ClockSizes, Sizes, DivMod DEF Time32
      <3>2. (harp % Long) \in Time64
        BY <3>1, ModLong
      <3> QED
        BY <2>2, <2>3, <2>5, <3>2 DEF write_timestamp_microsecond
    <2> QED
      BY <1>5, <2>1, <2>4, <2>5 DEF Requests
  <1>6. CASE StoreCore
    <2>1. Tail(todo) \in Seq(Access) /\ Tail(todo) \in Setting \cup {<<>>, Reading}
      BY <1>6, MovingFacts DEF StoreCore, Idle
    <2>2. halves = {}
      BY <1>6 DEF StoreCore, Idle
    <2> QED
      BY <1>0, <1>2, <1>6, <2>2, <2>1 DEF StoreCore, Idle, TypeOK, stamp, hist
  <1>7. CASE BeginStore
    <2>1. ToWords(NewOffset) \in Words
      BY <1>2, WordsOf
    <2>2. sync_
      BY <1>7, MovingFacts DEF BeginStore, Idle
    <2> QED
      BY <1>0, <1>2, <1>7, <2>1, <2>2 DEF BeginStore, Idle, TypeOK, stamp
  <1>8. ASSUME NEW w \in Half, StoreHalf(w) PROVE TypeOK' /\ Moving'
    <2>1. Tail(todo) \in Seq(Access) /\ Tail(todo) \in Setting \cup {<<>>, Reading}
      BY <1>8, MovingFacts DEF StoreHalf, Idle
    <2>2. sync_offset' \in Words /\ Zero \in Words
      BY <1>8, HalfType, ClockSizes DEF StoreHalf, TypeOK, Words, Zero
    <2>3. moved' \in Words /\ todo' \in Seq(Access) /\ halves' \subseteq {"low", "high"}
      BY <1>8, <2>1, <2>2 DEF StoreHalf, TypeOK
    <2>4. Moving'
      <3>1. CASE halves = {w}
        BY <1>0, <1>8, <2>1, <3>1 DEF StoreHalf
      <3>2. CASE halves # {w}
        BY <1>0, <1>8, <3>2 DEF StoreHalf, Idle
      <3> QED
        BY <3>1, <3>2
    <2> QED
      BY <1>8, <2>2, <2>3, <2>4 DEF StoreHalf, TypeOK, stamp, hist
  <1>9. CASE BeginLoad
    BY <1>0, <1>1, <1>9 DEF BeginLoad, Idle, TypeOK, stamp
  <1>10. ASSUME NEW w \in Half, LoadHalf(w) PROVE TypeOK' /\ Moving'
    <2>1. Loaded(w) \in Words
      BY <1>10, HalfType DEF Loaded, TypeOK
    <2>2. CASE halves = {w}
      <3> DEFINE harp == system_to_harp_us_64(local_us, FromWords(Loaded(w)))
      <3>1. harp \in Time64
        <4>1. FromWords(Loaded(w)) \in Int
          BY <2>1, FromWordsType, Sizes DEF Time64
        <4> QED
          BY <1>1, <4>1, ModLong DEF system_to_harp_us_64
      <3>2. GetTime(harp) /\ halves' = {}
        BY <1>10, <2>2 DEF LoadHalf
      <3> HIDE DEF harp
      <3> QED
        BY <1>10, <3>1, <3>2, GetTimeTypes DEF LoadHalf, Idle
    <2>3. CASE halves # {w}
      BY <1>0, <1>10, <2>1, <2>3 DEF LoadHalf, Idle, TypeOK, stamp
    <2> QED
      BY <2>2, <2>3
  <1>11. CASE LoadCore
    <2> DEFINE harp == system_to_harp_us_64(system_us, core_offset)
    <2>1. harp \in Time64
      BY <1>1, ModLong DEF system_to_harp_us_64
    <2>2. GetTime(harp) /\ halves' = halves /\ halves = {}
      BY <1>11 DEF LoadCore
    <2> HIDE DEF harp
    <2> QED
      BY <1>11, <2>1, <2>2, GetTimeTypes DEF LoadCore, Idle
  <1>12. CASE UNCHANGED vars
    BY <1>0, <1>12 DEF vars, loop, stamp, hist, TypeOK
  <1> QED
    BY <1>3, <1>4, <1>5, <1>6, <1>7, <1>8, <1>9, <1>10, <1>11, <1>12
       DEF Next, Handler, Half

THEOREM TypeCorrect == Spec => []TypeOK
  <1>1. Spec => [](TypeOK /\ Moving)
    BY InitTypes, StepTypes, PTL DEF Spec
  <1> QED
    BY <1>1, PTL

-----------------------------------------------------------------------------
(* The time written is the time shown.                                     *)

\* o is the offset of a time t, or of one up to D before it, from a time n.
Held(o, t, n, D) == \E d \in 0 .. D : o = (t - d - n) % Long

LEMMA HeldLater ==
  ASSUME NEW o, NEW t \in Int, NEW n \in Int, NEW D \in Nat, Held(o, t, n, D)
  PROVE  Held(o, t + 1, n, D + 1) /\ Held(o, t, n, D + 1)
  <1>1. PICK d \in 0 .. D : o = (t - d - n) % Long
    BY DEF Held
  <1>2. d + 1 \in 0 .. D + 1 /\ d \in 0 .. D + 1 /\ (t + 1) - (d + 1) - n = t - d - n
    BY <1>1
  <1> QED
    BY <1>1, <1>2 DEF Held

LEMMA HeldNow ==
  ASSUME NEW t \in Int, NEW n \in Int, NEW D \in Nat
  PROVE  Held((t - n) % Long, t, n, D)
  <1>1. 0 \in 0 .. D /\ t - 0 - n = t - n
    OBVIOUS
  <1> QED
    BY <1>1 DEF Held

\* Such an offset turns the time t into n, or up to D later.
LEMMA HeldShows ==
  ASSUME NEW o, NEW t \in Int, NEW n \in Int, NEW D \in Nat, Held(o, t, n, D)
  PROVE  \E d \in 0 .. D : system_to_harp_us_64(t, o) = (n + d) % Long
  <1>1. PICK d \in 0 .. D : o = (t - d - n) % Long
    BY DEF Held
  <1>2. t - d - n \in Int /\ t - (t - d - n) = n + d
    BY <1>1
  <1>3. ((t - ((t - d - n) % Long)) % Long) = ((t - (t - d - n)) % Long)
    BY <1>2, Sizes, ModSub
  <1> QED
    BY <1>1, <1>2, <1>3 DEF system_to_harp_us_64

\* While a handler sets the time and no packet has come in: the offset it has
\* set, and the words of it moved so far, are those of the time it set.
InUse == IF sync_ THEN FromWords(sync_offset) ELSE core_offset
Holds(o, t) == Held(o, t, new_harp_time_us, delay)

Showing ==
  undisturbed =>
    /\ todo \in Setting
    /\ sync_ /\ todo \in {Between, Core1} => Holds(FromWords(sync_offset), system_us)
    /\ todo = Loading /\ halves = {} => Holds(InUse, system_us)
    /\ todo = Loading /\ halves # {} =>
         /\ Holds(FromWords(sync_offset), local_us)
         /\ \A w \in Half \ halves : moved[w] = sync_offset[w]
    /\ todo \in {Sync2, Sync1} /\ halves # {} =>
         /\ Holds(FromWords(moved), system_us)
         /\ \A w \in Half \ halves : sync_offset[w] = moved[w]

IInv == TypeOK /\ Moving /\ Showing

LEMMA IntTypes ==
  ASSUME TypeOK
  PROVE  /\ system_us \in Int /\ local_us \in Int /\ new_harp_time_us \in Int
         /\ core_offset \in Int /\ delay \in Nat
         /\ sync_offset \in Words /\ moved \in Words /\ halves \subseteq Half
  BY ClockSizes, Sizes DEF TypeOK, Time64, Half

\* A handler that reads the time, and an idle loop, set nothing.
LEMMA NotSetting ==
  ASSUME Showing, todo = <<>> \/ todo = Reading
  PROVE  ~undisturbed
  <1>1. <<>> \notin Setting /\ Reading \notin Setting
    <2>1. Head(Reading) = "load" /\ Reading # Loading
      BY DEF Reading, Loading
    <2> QED
      BY <2>1, SettingFacts
  <1> QED
    BY <1>1 DEF Showing

LEMMA LoadKeeps ==
  ASSUME IInv, todo # <<>>, Head(todo) = "load", NEW harp, GetTime(harp)
  PROVE  ~undisturbed' /\ (undisturbed => todo = Loading /\ todo' = <<>>)
  <1>1. CASE undisturbed
    <2>1. todo = Loading
      BY <1>1, SettingFacts DEF IInv, Showing
    <2>2. Len(todo) = 1 /\ Tail(todo) = <<>>
      BY <2>1, Tails
    <2> QED
      BY <2>1, <2>2 DEF GetTime
  <1>2. CASE ~undisturbed
    BY <1>2 DEF GetTime
  <1> QED
    BY <1>1, <1>2

\* The accesses left tell one another apart.
LEMMA Distinct ==
  /\ Loading \notin {Between, Core1, Sync1, Sync2, Core2}
  /\ Core1 \notin {Between, Sync1, Sync2} /\ Between \notin {Sync1, Sync2}
  /\ Core2 \notin {Sync1, Sync2, Between, Core1}
  <1>1. Loading \notin {Between, Core1, Sync1, Sync2, Core2}
    BY Tails
  <1>2. Core1 \notin {Sync1, Sync2} /\ Between \notin {Sync1, Sync2} /\ Core2 \notin {Sync1, Sync2}
    BY Tails
  <1>3. Core1 # Between
    BY <1>1, Tails
  <1>4. Core2 # Between
    BY <1>2, Tails
  <1>5. Core2 # Core1
    BY <1>1, Tails
  <1> QED
    BY <1>1, <1>2, <1>3, <1>4, <1>5

LEMMA ShowingKept ==
  ASSUME IInv, [Next]_vars
  PROVE  Showing'
  <1> USE DEF Holds
  <1>1. /\ system_us \in Int /\ local_us \in Int /\ new_harp_time_us \in Int
        /\ core_offset \in Int /\ delay \in Nat
        /\ sync_offset \in Words /\ moved \in Words /\ halves \subseteq Half
    BY IntTypes DEF IInv
  <1>2. CASE Tick
    <2> SUFFICES ASSUME undisturbed PROVE Showing'
      BY <1>2 DEF Tick, Showing
    <2>1. /\ system_us' = system_us + 1 /\ delay' = delay + 1
          /\ UNCHANGED <<sync_, sync_offset, core_offset, loop, undisturbed>>
      BY <1>2 DEF Tick
    <2>2. Setting' = Setting /\ InUse' = InUse
      BY <2>1 DEF Setting, InUse
    <2>3. ASSUME NEW o, Held(o, system_us, new_harp_time_us, delay)
          PROVE  Held(o, system_us', new_harp_time_us, delay')
      BY <1>1, <2>1, <2>3, HeldLater
    <2>4. ASSUME NEW o, Held(o, local_us, new_harp_time_us, delay)
          PROVE  Held(o, local_us, new_harp_time_us, delay')
      BY <1>1, <2>1, <2>4, HeldLater
    <2> QED
      BY <2>1, <2>2, <2>3, <2>4 DEF IInv, Showing, loop
  <1>3. ASSUME NEW lead \in Leads, Packet(lead) PROVE Showing'
    BY <1>3 DEF Packet, Showing
  <1>4. CASE ReadTimestamp
    BY <1>4, NotSetting DEF ReadTimestamp, Idle, hist, IInv, Showing
  <1>5. ASSUME NEW harp, NEW accesses, Write(harp, accesses),
               accesses \in (IF sync_ THEN {Sync1, Sync2} ELSE {Core1, Core2})
        PROVE  Showing'
    <2>1. halves' = {} /\ todo' = accesses /\ sync_' = sync_
      BY <1>5 DEF Write, Idle, IInv, Moving
    <2>2. CASE sync_
      BY <1>5, <2>1, <2>2, Distinct DEF Showing, Setting
    <2>3. CASE ~sync_
      BY <1>5, <2>1, <2>3, Distinct DEF Showing, Setting
    <2> QED
      BY <2>2, <2>3
  <1>6. ASSUME NEW x \in SecondsWritten, write_timestamp_second(x) PROVE Showing'
    BY <1>5, <1>6, Programs DEF write_timestamp_second
  <1>7. ASSUME NEW x \in MicrosWritten, write_timestamp_microsecond(x) PROVE Showing'
    BY <1>5, <1>7, Programs DEF write_timestamp_microsecond
  <1>8. CASE StoreCore
    <2> SUFFICES ASSUME undisturbed PROVE Showing'
      BY <1>8 DEF StoreCore, hist, Showing
    <2>1. /\ todo # <<>> /\ Head(todo) = "store_core" /\ halves = {}
          /\ core_offset' = NewOffset /\ todo' = Tail(todo)
          /\ UNCHANGED <<system_us, sync_, sync_offset, halves, new_harp_time_us, delay>>
      BY <1>8 DEF StoreCore, Idle, IInv, Moving, hist
    <2>2. todo \in {Between, Core2, Core1} /\ todo \in Setting
      BY <2>1, SettingFacts DEF IInv, Showing
    <2>3. Held(NewOffset, system_us, new_harp_time_us, delay)
      BY <1>1, HeldNow DEF NewOffset
    <2>4. todo' \in Setting'
      BY <2>1, <2>2, SettingFacts, Distinct DEF Setting
    <2>5. CASE todo = Between
      BY <2>1, <2>4, <2>5, Tails, Distinct DEF Showing
    <2>6. CASE todo = Core2
      <3>1. ~sync_
        BY <2>2, <2>6, Distinct DEF Setting
      <3> QED
        BY <2>1, <2>4, <2>6, <3>1, Tails, Distinct DEF Showing
    <2>7. CASE todo = Core1
      <3>1. todo' = Loading
        BY <2>1, <2>7, Tails
      <3>2. Held(InUse', system_us, new_harp_time_us, delay)
        BY <2>1, <2>3, <2>7 DEF IInv, Showing, InUse
      <3> QED
        BY <2>1, <2>4, <3>1, <3>2, Distinct DEF Showing
    <2> QED
      BY <2>2, <2>5, <2>6, <2>7
  <1>9. CASE BeginStore
    <2> SUFFICES ASSUME undisturbed PROVE Showing'
      BY <1>9 DEF BeginStore, Showing
    <2>1. /\ todo # <<>> /\ Head(todo) = "store_sync" /\ halves' = Half
          /\ moved' = ToWords(NewOffset) /\ todo' = todo /\ sync_' = sync_
          /\ UNCHANGED <<system_us, new_harp_time_us, delay>>
      BY <1>9 DEF BeginStore, Idle, Half
    <2>2. todo \in {Sync1, Sync2} /\ todo \in Setting'
      BY <2>1, SettingFacts DEF IInv, Showing, Setting
    <2>3. NewOffset \in Time64
      BY <1>1, ModLong DEF NewOffset
    <2>4. FromWords(moved') = NewOffset
      BY <2>1, <2>3, WordsOf
    <2>5. Held(FromWords(moved'), system_us, new_harp_time_us, delay)
      BY <1>1, <2>4, HeldNow DEF NewOffset
    <2> QED
      BY <2>1, <2>2, <2>5, Distinct DEF Showing
  <1>10. ASSUME NEW w \in Half, StoreHalf(w) PROVE Showing'
    <2> SUFFICES ASSUME undisturbed PROVE Showing'
      BY <1>10 DEF StoreHalf, hist, Showing
    <2>1. /\ todo # <<>> /\ Head(todo) = "store_sync" /\ w \in halves
          /\ sync_offset' = [sync_offset EXCEPT ![w] = moved[w]] /\ halves' = halves \ {w}
          /\ UNCHANGED <<system_us, sync_, new_harp_time_us, delay>>
      BY <1>10 DEF StoreHalf, Idle, hist
    <2>2. todo \in {Sync1, Sync2} /\ todo \in Setting /\ sync_ /\ halves # {}
      BY <2>1, SettingFacts DEF IInv, Showing
    <2>3. /\ Held(FromWords(moved), system_us, new_harp_time_us, delay)
          /\ \A u \in Half \ halves : sync_offset[u] = moved[u]
      BY <2>2 DEF IInv, Showing
    <2>4. \A u \in Half \ halves' : sync_offset'[u] = moved[u]
      BY <1>1, <2>1, <2>3, HalfType
    <2>5. CASE halves = {w}
      <3>1. todo' = Tail(todo) /\ halves' = {}
        BY <1>10, <2>1, <2>5 DEF StoreHalf
      <3>2. sync_offset' \in Words
        BY <1>1, <2>1, HalfType
      <3>3. FromWords(sync_offset') = FromWords(moved)
        BY <1>1, <2>4, <3>1, <3>2, SameWords
      <3>4. todo' \in {Between, Core1} /\ todo' \in Setting'
        BY <2>1, <2>2, <3>1, Tails, Distinct DEF Setting
      <3> QED
        BY <2>1, <2>3, <3>1, <3>3, <3>4, Distinct DEF Showing
    <2>6. CASE halves # {w}
      <3>1. todo' = todo /\ moved' = moved
        BY <1>10, <2>6 DEF StoreHalf
      <3>2. todo' \in Setting'
        BY <2>1, <2>2, <3>1 DEF Setting
      <3> QED
        BY <2>1, <2>2, <2>3, <2>4, <3>1, <3>2, Distinct DEF Showing
    <2> QED
      BY <2>5, <2>6
  <1>11. CASE BeginLoad
    <2> SUFFICES ASSUME undisturbed PROVE Showing'
      BY <1>11 DEF BeginLoad, Showing
    <2>1. /\ todo # <<>> /\ Head(todo) = "load" /\ halves = {} /\ sync_
          /\ local_us' = system_us /\ halves' = Half
          /\ UNCHANGED <<system_us, sync_, sync_offset, todo, moved, new_harp_time_us, delay>>
      BY <1>11 DEF BeginLoad, Idle, Half
    <2>2. todo = Loading /\ todo \in Setting'
      BY <2>1, SettingFacts DEF IInv, Showing, Setting
    <2>3. Held(FromWords(sync_offset), system_us, new_harp_time_us, delay)
      BY <2>1, <2>2 DEF IInv, Showing, InUse
    <2>4. halves' # {}
      BY <2>1 DEF Half
    <2> QED
      BY <2>1, <2>2, <2>3, <2>4, Distinct DEF Showing
  <1>12. ASSUME NEW w \in Half, LoadHalf(w) PROVE Showing'
    <2>1. todo # <<>> /\ Head(todo) = "load" /\ w \in halves /\ halves' = halves \ {w}
      BY <1>12 DEF LoadHalf, Idle
    <2>2. CASE halves = {w}
      <3>1. ~undisturbed'
        BY <1>12, <2>1, <2>2, LoadKeeps DEF LoadHalf
      <3> QED
        BY <3>1 DEF Showing
    <2>3. CASE halves # {w}
      <3> SUFFICES ASSUME undisturbed PROVE Showing'
        BY <1>12, <2>3 DEF LoadHalf, Showing
      <3>1. /\ moved' = Loaded(w) /\ todo' = todo
            /\ UNCHANGED <<system_us, sync_, sync_offset, local_us, new_harp_time_us, delay>>
        BY <1>12, <2>3 DEF LoadHalf
      <3>2. todo = Loading /\ todo \in Setting' /\ halves # {} /\ halves' # {}
        BY <2>1, <2>3, <3>1, SettingFacts DEF IInv, Showing, Setting
      <3>3. /\ Held(FromWords(sync_offset), local_us, new_harp_time_us, delay)
            /\ \A u \in Half \ halves : moved[u] = sync_offset[u]
        BY <3>2 DEF IInv, Showing
      <3>4. \A u \in Half \ halves' : moved'[u] = sync_offset[u]
        <4>1. /\ Loaded(w)[w] = sync_offset[w]
              /\ \A u \in Half : u # w => Loaded(w)[u] = moved[u]
          BY <1>1, LoadedWords
        <4> QED
          BY <2>1, <3>1, <3>3, <4>1
      <3> QED
        BY <3>1, <3>2, <3>3, <3>4, Distinct DEF Showing
    <2> QED
      BY <2>2, <2>3
  <1>13. CASE LoadCore
    <2>1. ~undisturbed'
      BY <1>13, LoadKeeps DEF LoadCore, Idle
    <2> QED
      BY <2>1 DEF Showing
  <1>14. CASE UNCHANGED vars
    BY <1>14 DEF vars, loop, stamp, hist, IInv, Showing, Setting, InUse
  <1> QED
    BY <1>2, <1>3, <1>4, <1>6, <1>7, <1>8, <1>9, <1>10, <1>11, <1>12, <1>13, <1>14
       DEF Next, Handler, Requests, Half

-----------------------------------------------------------------------------

\* The reply to a write of a timestamp register carries the time written, or one
\* later by no more than what the handler took, unless a packet came in: for any
\* time, through every wrap, with a synchronizer or without one.
THEOREM WriteShowsCorrect == Spec => WriteShows
  <1>1. Init => IInv
    BY InitTypes DEF Init, IInv, Showing
  <1>2. IInv /\ [Next]_vars => IInv'
    BY StepTypes, ShowingKept DEF IInv
  <1>3. ASSUME IInv, [Next]_vars, undisturbed, todo' = <<>>
        PROVE  \E d \in 0 .. delay :
                 LET harp == (new_harp_time_us + d) % Long
                 IN R_TIMESTAMP_SECOND' = SecondOf(harp) /\ R_TIMESTAMP_MICRO' = MicroOf(harp)
    <2>1. /\ system_us \in Int /\ local_us \in Int /\ new_harp_time_us \in Int
          /\ delay \in Nat /\ sync_offset \in Words /\ moved \in Words
      BY <1>3, IntTypes DEF IInv
    <2>2. todo \in Setting /\ todo # <<>>
      BY <1>3, SettingFacts DEF IInv, Showing
    <2>3. todo = Loading
      <3>1. todo' # todo
        BY <1>3, <2>2
      <3>2. todo # Loading => Tail(todo) # <<>>
        BY <2>2, SettingFacts
      <3>3. todo' = Tail(todo)
        BY <1>3, <2>2, <3>1
           DEF Next, vars, loop, hist, Tick, Packet, Handler, Requests, ReadTimestamp, Write,
               write_timestamp_second, write_timestamp_microsecond, Idle,
               StoreCore, BeginStore, StoreHalf, BeginLoad, LoadHalf, LoadCore, GetTime
      <3> QED
        BY <1>3, <3>2, <3>3
    <2>4. Head(todo) = "load" /\ todo' # todo
      BY <1>3, <2>2, <2>3, Tails
    <2>5. PICK h : /\ R_TIMESTAMP_SECOND' = SecondOf(h) /\ R_TIMESTAMP_MICRO' = MicroOf(h)
                   /\ \E d \in 0 .. delay : h = (new_harp_time_us + d) % Long
      <3>1. ASSUME NEW w \in Half, LoadHalf(w)
            PROVE  \E h : /\ R_TIMESTAMP_SECOND' = SecondOf(h) /\ R_TIMESTAMP_MICRO' = MicroOf(h)
                          /\ \E d \in 0 .. delay : h = (new_harp_time_us + d) % Long
        <4>1. w \in halves /\ halves = {w}
          BY <2>4, <3>1 DEF LoadHalf
        <4>2. GetTime(system_to_harp_us_64(local_us, FromWords(Loaded(w))))
          BY <3>1, <4>1 DEF LoadHalf
        <4>3. /\ Held(FromWords(sync_offset), local_us, new_harp_time_us, delay)
              /\ \A u \in Half \ halves : moved[u] = sync_offset[u]
          BY <1>3, <2>3, <4>1 DEF IInv, Showing, Holds
        <4>4. FromWords(Loaded(w)) = FromWords(sync_offset)
          <5>1. /\ Loaded(w) \in Words /\ Loaded(w)[w] = sync_offset[w]
                /\ \A u \in Half : u # w => Loaded(w)[u] = moved[u]
            BY <2>1, LoadedWords
          <5>2. \A u \in Half : Loaded(w)[u] = sync_offset[u]
            BY <4>1, <4>3, <5>1
          <5> QED
            BY <2>1, <5>1, <5>2, SameWords
        <4> DEFINE shown == system_to_harp_us_64(local_us, FromWords(sync_offset))
        <4>5. \E d \in 0 .. delay : shown = (new_harp_time_us + d) % Long
          BY <2>1, <4>3, HeldShows
        <4>6. R_TIMESTAMP_SECOND' = SecondOf(shown) /\ R_TIMESTAMP_MICRO' = MicroOf(shown)
          BY <4>2, <4>4 DEF GetTime
        <4> HIDE DEF shown
        <4> QED
          BY <4>5, <4>6
      <3>2. ASSUME LoadCore
            PROVE  \E h : /\ R_TIMESTAMP_SECOND' = SecondOf(h) /\ R_TIMESTAMP_MICRO' = MicroOf(h)
                          /\ \E d \in 0 .. delay : h = (new_harp_time_us + d) % Long
        <4>1. ~sync_ /\ halves = {}
          BY <1>3, <3>2 DEF LoadCore, IInv, Moving
        <4>2. Held(core_offset, system_us, new_harp_time_us, delay)
          BY <1>3, <2>3, <4>1 DEF IInv, Showing, Holds, InUse
        <4>3. GetTime(system_to_harp_us_64(system_us, core_offset))
          BY <3>2 DEF LoadCore
        <4> DEFINE shown == system_to_harp_us_64(system_us, core_offset)
        <4>4. \E d \in 0 .. delay : shown = (new_harp_time_us + d) % Long
          BY <2>1, <4>2, HeldShows
        <4>5. R_TIMESTAMP_SECOND' = SecondOf(shown) /\ R_TIMESTAMP_MICRO' = MicroOf(shown)
          BY <4>3 DEF GetTime
        <4> HIDE DEF shown
        <4> QED
          BY <4>4, <4>5
      <3> QED
        BY <1>3, <2>2, <2>4, <3>1, <3>2
           DEF Next, vars, loop, hist, Tick, Packet, Handler, Requests, ReadTimestamp, Write,
               write_timestamp_second, write_timestamp_microsecond, Idle, Half,
               StoreCore, BeginStore, StoreHalf, BeginLoad
    <2> QED
      BY <2>5
  <1> QED
    BY <1>1, <1>2, <1>3, PTL DEF Spec, WriteShows

-----------------------------------------------------------------------------
(* Conversions once a packet was the last to set the offset.               *)

\* The offset a packet sets depends on its lead alone, not on when it comes.
OffsetOf(lead) == (0 - lead) % Long

\* Once a packet was the last to set the offset, no store is under way, the offset is
\* the packet's, and so is the half a load has moved, if no packet came after it.
FollowInv ==
  /\ Storing => ~by_packet
  /\ by_packet => sync_offset = ToWords(OffsetOf(ahead)) /\ OffsetOf(ahead) \in meant
  /\ by_packet /\ HalfLoaded /\ ~cut =>
       \A w \in Half \ halves : moved[w] = sync_offset[w]

LEMMA AheadTypes == ASSUME TypeOK PROVE ahead \in Int /\ OffsetOf(ahead) \in Time64
  <1>1. ahead \in Int
    BY ClockSizes, Sizes DEF TypeOK, Time64
  <1>2. 0 - ahead \in Int
    BY <1>1
  <1> QED
    BY <1>1, <1>2, ModLong DEF OffsetOf

\* system_us - (system_us + lead) is reduced twice.
LEMMA PacketSets ==
  ASSUME TypeOK, NEW lead \in Leads, Packet(lead)
  PROVE  /\ sync_offset' = ToWords(OffsetOf(lead)) /\ OffsetOf(lead) \in meant'
         /\ by_packet' = ~Storing /\ ahead' = lead /\ cut' = (cut \/ HalfLoaded)
         /\ UNCHANGED <<halves, moved, todo>>
  <1> DEFINE offset == (system_us - ((system_us + lead) % Long)) % Long
  <1>1. system_us \in Int /\ lead \in Int /\ Long \in Nat \ {0}
    BY IntTypes, ClockSizes, Sizes DEF Time64
  <1>2. offset = OffsetOf(lead)
    <2>1. offset = (system_us - (system_us + lead)) % Long
      <3>1. system_us + lead \in Int
        BY <1>1
      <3> QED
        BY <1>1, <3>1, ModSub
    <2>2. system_us - (system_us + lead) = 0 - lead
      BY <1>1
    <2> QED
      BY <2>1, <2>2 DEF OffsetOf
  <1>3. /\ sync_offset' = ToWords(offset) /\ offset \in meant'
        /\ by_packet' = ~Storing /\ ahead' = lead /\ cut' = (cut \/ HalfLoaded)
        /\ UNCHANGED <<halves, moved, todo>>
    BY DEF Packet, PacketWords, loop
  <1> HIDE DEF offset
  <1> QED
    BY <1>2, <1>3

LEMMA FollowInit == Init => FollowInv
  BY DEF Init, FollowInv, Storing, HalfLoaded

\* The timer, the interrupt and new handlers.
LEMMA FollowOutside ==
  ASSUME TypeOK, Moving, FollowInv,
         Tick \/ (\E lead \in Leads : Packet(lead)) \/ Requests \/ UNCHANGED vars
  PROVE  FollowInv'
  <1>1. CASE Tick \/ UNCHANGED vars
    BY <1>1 DEF Tick, vars, loop, hist, FollowInv, Storing, HalfLoaded, OffsetOf
  <1>2. ASSUME NEW lead \in Leads, Packet(lead) PROVE FollowInv'
    <2>1. /\ sync_offset' = ToWords(OffsetOf(lead)) /\ OffsetOf(lead) \in meant'
          /\ by_packet' = ~Storing /\ ahead' = lead /\ cut' = (cut \/ HalfLoaded)
          /\ UNCHANGED <<halves, moved, todo>>
      BY <1>2, PacketSets
    <2>2. Storing' = Storing /\ HalfLoaded' = HalfLoaded
      BY <2>1 DEF Storing, HalfLoaded
    <2>3. OffsetOf(ahead)' = OffsetOf(lead)
      BY <2>1 DEF OffsetOf
    <2> QED
      BY <2>1, <2>2, <2>3 DEF FollowInv
  <1>3. CASE Requests
    <2>1. todo = <<>> /\ UNCHANGED <<sync_offset, by_packet, ahead, halves, meant>>
      BY <1>3 DEF Requests, ReadTimestamp, write_timestamp_second,
                  write_timestamp_microsecond, Write, Idle, hist
    <2>2. halves = {}
      BY <2>1 DEF Moving
    <2> QED
      BY <2>1, <2>2 DEF FollowInv, Storing, HalfLoaded, OffsetOf
  <1> QED
    BY <1>1, <1>2, <1>3

\* The accesses of a handler.
LEMMA FollowHandler ==
  ASSUME TypeOK, Moving, FollowInv, Handler
  PROVE  FollowInv'
  <1>1. ASSUME UNCHANGED <<sync_offset, by_packet, ahead, meant>>, ~Storing', ~HalfLoaded'
        PROVE  FollowInv'
    BY <1>1 DEF FollowInv, OffsetOf
  <1>2. CASE StoreCore
    <2>1. UNCHANGED <<sync_offset, by_packet, ahead, meant, halves>> /\ halves = {}
      BY <1>2 DEF StoreCore, Idle, hist, Moving
    <2> QED
      BY <1>1, <2>1 DEF Storing, HalfLoaded
  <1>3. CASE BeginStore
    BY <1>3 DEF BeginStore, FollowInv
  <1>4. ASSUME NEW w \in Half, StoreHalf(w) PROVE FollowInv'
    <2>1. Storing /\ by_packet' = by_packet
      BY <1>4 DEF StoreHalf, Idle, Storing
    <2> QED
      BY <2>1 DEF FollowInv
  <1>5. CASE BeginLoad
    BY <1>1, <1>5 DEF BeginLoad, Idle, Storing, HalfLoaded
  <1>6. CASE LoadCore
    <2>1. UNCHANGED <<sync_offset, by_packet, ahead, meant, halves>> /\ halves = {}
      BY <1>6 DEF LoadCore, Moving
    <2> QED
      BY <1>1, <2>1 DEF Storing, HalfLoaded
  <1>7. ASSUME NEW w \in Half, LoadHalf(w) PROVE FollowInv'
    <2>1. /\ todo # <<>> /\ Head(todo) = "load" /\ w \in halves /\ halves' = halves \ {w}
          /\ UNCHANGED <<sync_offset, by_packet, ahead, meant>>
      BY <1>7 DEF LoadHalf, Idle
    <2>2. CASE halves = {w}
      BY <1>1, <2>1, <2>2 DEF Storing, HalfLoaded
    <2>3. CASE halves # {w}
      <3>1. moved' = Loaded(w) /\ UNCHANGED <<todo, cut>>
        BY <1>7, <2>3 DEF LoadHalf
      <3>2. /\ Loaded(w)[w] = sync_offset[w]
            /\ \A u \in Half : u # w => Loaded(w)[u] = moved[u]
        BY IntTypes, LoadedWords
      <3>3. ASSUME by_packet, ~cut, NEW u \in Half \ halves'
            PROVE  Loaded(w)[u] = sync_offset[u]
        <4>1. CASE u = w
          BY <3>2, <4>1
        <4>2. CASE u # w
          <5>1. HalfLoaded /\ u \in Half \ halves
            BY <2>1, <3>3, <4>2 DEF HalfLoaded, Half
          <5> QED
            BY <3>2, <3>3, <4>2, <5>1 DEF FollowInv
        <4> QED
          BY <4>1, <4>2
      <3>4. ~Storing'
        BY <2>1, <3>1 DEF Storing
      <3> QED
        BY <2>1, <3>1, <3>3, <3>4 DEF FollowInv, OffsetOf
    <2> QED
      BY <2>2, <2>3
  <1> QED
    BY <1>2, <1>3, <1>4, <1>5, <1>6, <1>7 DEF Handler, Half

\* Subtracting the offset a packet set is adding the lead it had.
LEMMA FollowLoads ==
  ASSUME TypeOK, FollowInv, NEW w \in Half, LoadHalf(w), halves' = {}, by_packet, ~cut
  PROVE  system_to_harp_us_64(local_us, FromWords(Loaded(w))) = (local_us + ahead) % Long
  <1>1. /\ Loaded(w) \in Words /\ Loaded(w)[w] = sync_offset[w]
        /\ \A u \in Half : u # w => Loaded(w)[u] = moved[u]
    BY IntTypes, LoadedWords
  <1>2. halves = {w} /\ HalfLoaded
    <2>1. halves = {w} /\ todo # <<>> /\ Head(todo) = "load"
      BY DEF LoadHalf, Idle
    <2>2. {w} # {"low", "high"} /\ {w} # {}
      OBVIOUS
    <2> QED
      BY <2>1, <2>2 DEF HalfLoaded
  <1>3. \A u \in Half : Loaded(w)[u] = sync_offset[u]
    BY <1>1, <1>2 DEF FollowInv
  <1>4. FromWords(Loaded(w)) = FromWords(sync_offset)
    BY <1>1, <1>3, IntTypes, SameWords
  <1>5. FromWords(sync_offset) = OffsetOf(ahead)
    BY AheadTypes, WordsOf DEF FollowInv
  <1>6. ahead \in Int /\ local_us \in Int /\ 0 - ahead \in Int
    BY AheadTypes, IntTypes
  <1>7. ((local_us - ((0 - ahead) % Long)) % Long) = ((local_us - (0 - ahead)) % Long)
    BY <1>6, Sizes, ModSub
  <1>8. local_us - (0 - ahead) = local_us + ahead
    BY <1>6
  <1> QED
    BY <1>4, <1>5, <1>7, <1>8 DEF system_to_harp_us_64, OffsetOf

\* Only a packet between the two halves of an offset spoils a conversion, and that
\* one alone: every other gives the time of the external clock, once a packet was the
\* last to set the offset; for any packets, whatever the PC wrote and a store tore.
THEOREM FollowsPacketsCorrect == Spec => FollowsPackets
  <1>1. Init => TypeOK /\ Moving /\ FollowInv
    BY InitTypes, FollowInit
  <1>2. TypeOK /\ Moving /\ FollowInv /\ [Next]_vars => (TypeOK /\ Moving /\ FollowInv)'
    BY StepTypes, FollowOutside, FollowHandler DEF Next
  <1>3. TypeOK /\ FollowInv =>
          [\A w \in halves : LoadHalf(w) /\ halves' = {} /\ by_packet /\ ~cut =>
             LET harp == (local_us + ahead) % Long
             IN R_TIMESTAMP_SECOND' = SecondOf(harp)
                /\ R_TIMESTAMP_MICRO' = MicroOf(harp)]_vars
    <2> SUFFICES ASSUME TypeOK, FollowInv, NEW w \in halves, LoadHalf(w), halves' = {},
                        by_packet, ~cut
                 PROVE  LET harp == (local_us + ahead) % Long
                        IN R_TIMESTAMP_SECOND' = SecondOf(harp)
                           /\ R_TIMESTAMP_MICRO' = MicroOf(harp)
      OBVIOUS
    <2> DEFINE harp == system_to_harp_us_64(local_us, FromWords(Loaded(w)))
    <2>1. w \in Half
      BY IntTypes
    <2>2. harp = (local_us + ahead) % Long
      BY <2>1, FollowLoads
    <2>3. GetTime(harp)
      <3>1. halves = {w}
        BY DEF LoadHalf
      <3> QED
        BY <3>1 DEF LoadHalf
    <2> HIDE DEF harp
    <2> QED
      BY <2>2, <2>3 DEF GetTime
  <1> QED
    BY <1>1, <1>2, <1>3, PTL DEF Spec, FollowsPackets

\* While a packet was the last to set the offset, the offset is whole: torn stores do
\* not outlive a packet.
THEOREM WholeAfterPacketCorrect == Spec => []WholeAfterPacket
  <1>1. Init => TypeOK /\ Moving /\ FollowInv
    BY InitTypes, FollowInit
  <1>2. TypeOK /\ Moving /\ FollowInv /\ [Next]_vars => (TypeOK /\ Moving /\ FollowInv)'
    BY StepTypes, FollowOutside, FollowHandler DEF Next
  <1>3. TypeOK /\ FollowInv => WholeAfterPacket
    <2> SUFFICES ASSUME TypeOK, FollowInv, by_packet PROVE FromWords(sync_offset) \in meant
      BY DEF WholeAfterPacket
    <2>1. sync_offset = ToWords(OffsetOf(ahead)) /\ OffsetOf(ahead) \in meant
      BY DEF FollowInv
    <2> QED
      BY <2>1, AheadTypes, WordsOf
  <1> QED
    BY <1>1, <1>2, <1>3, PTL DEF Spec
=============================================================================
