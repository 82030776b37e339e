--------------------------- MODULE HarpTimeProofs ---------------------------
(***************************************************************************)
(* Facts about the wrapping microsecond arithmetic of HarpTime, for every  *)
(* word size.                                                              *)
(***************************************************************************)
EXTENDS HarpTime, TLAPS

\* The quotient and the remainder are what division says they are.
LEMMA DivMod ==
  ASSUME NEW x \in Int, NEW m \in Nat \ {0}
  PROVE  /\ (x % m) \in 0 .. m - 1
         /\ (x \div m) \in Int
         /\ x = (m * (x \div m)) + (x % m)
  OBVIOUS

\* A remainder is the only number of its range that differs from x by a
\* multiple of the modulus.
LEMMA ModUnique ==
  ASSUME NEW m \in Nat \ {0}, NEW x \in Int, NEW q \in Int,
         NEW r \in 0 .. m - 1, x = m * q + r
  PROVE  (x % m) = r
  <1> DEFINE k == x \div m
             s == x % m
  <1>1. k \in Int /\ s \in 0 .. m - 1 /\ x = m * k + s
    BY DivMod
  <1>2. m * (k - q) = r - s
    BY <1>1
  <1>3. k - q < 1 /\ k - q > -1
    BY <1>1, <1>2
  <1> QED
    BY <1>1, <1>2, <1>3

\* The remainder counts up and wraps.
LEMMA ModSucc ==
  ASSUME NEW m \in Nat \ {0}, NEW x \in Int
  PROVE  ((x + 1) % m) = IF (x % m) = m - 1 THEN 0 ELSE (x % m) + 1
  <1> DEFINE k == x \div m
             s == x % m
  <1>1. k \in Int /\ s \in 0 .. m - 1 /\ x = m * k + s
    BY DivMod
  <1>2. CASE s = m - 1
    <2>1. k + 1 \in Int /\ 0 \in 0 .. m - 1 /\ x + 1 = m * (k + 1) + 0
      BY <1>1, <1>2
    <2>2. x + 1 \in Int
      OBVIOUS
    <2>3. ((x + 1) % m) = 0
      BY <2>1, <2>2, ModUnique
    <2> QED
      BY <1>2, <2>3
  <1>3. CASE s # m - 1
    <2>1. s + 1 \in 0 .. m - 1 /\ x + 1 = m * k + (s + 1) /\ x + 1 \in Int
      BY <1>1, <1>3
    <2>2. ((x + 1) % m) = s + 1
      BY <1>1, <2>1, ModUnique
    <2> QED
      BY <1>3, <2>2
  <1> QED
    BY <1>2, <1>3

\* The two word sizes.
LEMMA Sizes ==
  /\ Word \in Nat \ {0} /\ Second \in Nat \ {0} /\ Long \in Nat \ {0}
  /\ Word > 6 * Second
  <1>1. Word \in Nat \ {0} /\ Second \in Nat \ {0} /\ Wraps \in Nat \ {0}
    BY TimeAssumption
  <1>2. Long \in Nat \ {0}
    BY <1>1 DEF Long
  <1>3. Word > 6 * Second
    BY TimeAssumption
  <1> QED
    BY <1>1, <1>2, <1>3

\* The low word of a 64-bit time.
LEMMA Us32Type ==
  ASSUME NEW t \in Int
  PROVE  Us32(t) \in Time32
  BY Sizes, DivMod DEF Us32, Time32

LEMMA Sub32Type ==
  ASSUME NEW a \in Int, NEW b \in Int
  PROVE  Sub32(a, b) \in Time32
  BY Sizes, DivMod DEF Sub32, Time32

LEMMA Add32Type ==
  ASSUME NEW a \in Int, NEW b \in Int
  PROVE  Add32(a, b) \in Time32
  BY Sizes, DivMod DEF Add32, Time32

\* A difference is zero, positive or wrapped once.
LEMMA Sub32Value ==
  ASSUME NEW a \in Time32, NEW b \in Time32
  PROVE  Sub32(a, b) = IF a >= b THEN a - b ELSE a - b + Word
  <1>1. CASE a >= b
    <2>1. a - b \in 0 .. Word - 1 /\ a - b = Word * 0 + (a - b)
      BY <1>1, Sizes DEF Time32
    <2> QED
      BY <1>1, <2>1, Sizes, ModUnique DEF Sub32, Time32
  <1>2. CASE a < b
    <2>1. a - b + Word \in 0 .. Word - 1 /\ a - b = Word * (-1) + (a - b + Word)
      BY <1>2, Sizes DEF Time32
    <2>2. ((a - b) % Word) = a - b + Word
      BY <2>1, Sizes, ModUnique DEF Time32
    <2> QED
      BY <1>2, <2>2 DEF Sub32, Time32
  <1> QED
    BY <1>1, <1>2 DEF Time32

\* A tick of the 64-bit time is a tick of its low word, the 64-bit wrap included.
LEMMA Us32Tick ==
  ASSUME NEW t \in Time64
  PROVE  Us32((t + 1) % Long) = IF Us32(t) = Word - 1 THEN 0 ELSE Us32(t) + 1
  <1>1. CASE t = Long - 1
    <2>1. ((t + 1) % Long) = 0
      BY <1>1, Sizes, ModUnique, Long = Long * 1 + 0 DEF Time64
    <2>2. Word * (Wraps - 1) + (Word - 1) = t
      BY <1>1, TimeAssumption, Sizes DEF Long
    <2>3. Us32(t) = Word - 1
      <3>1. Word - 1 \in 0 .. Word - 1 /\ Wraps - 1 \in Int /\ t \in Int
        BY TimeAssumption, Sizes DEF Time64
      <3> QED
        BY <3>1, <2>2, Sizes, ModUnique DEF Us32
    <2>4. Us32(0) = 0
      BY Sizes, ModUnique, 0 = Word * 0 + 0 DEF Us32
    <2> QED
      BY <2>1, <2>3, <2>4
  <1>2. CASE t # Long - 1
    <2>1. t + 1 \in 0 .. Long - 1 /\ t + 1 = Long * 0 + (t + 1)
      BY <1>2, Sizes DEF Time64
    <2>2. ((t + 1) % Long) = t + 1
      BY <2>1, Sizes, ModUnique
    <2>3. ((t + 1) % Word) = IF (t % Word) = Word - 1 THEN 0 ELSE (t % Word) + 1
      <3>1. t \in Int
        BY Sizes DEF Time64
      <3> QED
        BY <3>1, Sizes, ModSucc
    <2> QED
      BY <2>2, <2>3 DEF Us32
  <1> QED
    BY <1>1, <1>2

\* As the clock ticks, the 32-bit time since a mark grows by one or wraps to 0.
LEMMA ElapsedTick ==
  ASSUME NEW t \in Time64, NEW mark \in Time32
  PROVE  Sub32(Us32((t + 1) % Long), mark)
           = IF Sub32(Us32(t), mark) = Word - 1 THEN 0
                                                ELSE Sub32(Us32(t), mark) + 1
  <1> DEFINE a == Us32(t)
             b == Us32((t + 1) % Long)
  <1>1. a \in Time32 /\ b \in Time32
    BY Sizes, Us32Type, DivMod DEF Time64
  <1>2. b = IF a = Word - 1 THEN 0 ELSE a + 1
    BY Us32Tick
  <1>3. /\ Sub32(a, mark) = IF a >= mark THEN a - mark ELSE a - mark + Word
        /\ Sub32(b, mark) = IF b >= mark THEN b - mark ELSE b - mark + Word
    BY <1>1, Sub32Value
  <1> HIDE DEF a, b
  <1>4. Sub32(b, mark) = IF Sub32(a, mark) = Word - 1 THEN 0 ELSE Sub32(a, mark) + 1
    BY <1>1, <1>2, <1>3, Sizes DEF Time32
  <1> QED
    BY <1>4 DEF a, b

\* A remainder may be taken at any point of a sum.
LEMMA ModAdd ==
  ASSUME NEW m \in Nat \ {0}, NEW x \in Int, NEW y \in Int
  PROVE  (((x % m) + y) % m) = ((x + y) % m)
  <1> DEFINE s == x % m
             z == s + y
             r == z % m
             q == (x \div m) + (z \div m)
  <1>1. s \in Int /\ (x \div m) \in Int /\ x = m * (x \div m) + s
    BY DivMod
  <1>2. z \in Int
    BY <1>1
  <1>3. r \in 0 .. m - 1 /\ (z \div m) \in Int /\ z = m * (z \div m) + r
    BY <1>2, DivMod
  <1>4. q \in Int /\ x + y = m * q + r
    BY <1>1, <1>3
  <1>5. x + y \in Int
    OBVIOUS
  <1> HIDE DEF s, z, r, q
  <1>6. ((x + y) % m) = r
    BY <1>3, <1>4, <1>5, ModUnique
  <1> QED
    BY <1>6 DEF r, z, s

LEMMA Add32Add32 ==
  ASSUME NEW a \in Int, NEW j \in Int, NEW k \in Int
  PROVE  Add32(Add32(a, j), k) = Add32(a, j + k)
  <1>1. (((a + j) % Word) + k) % Word = ((a + j) + k) % Word
    <2>1. a + j \in Int
      OBVIOUS
    <2> QED
      BY <2>1, Sizes, ModAdd
  <1>2. (a + j) + k = a + (j + k)
    OBVIOUS
  <1>3. (((a + j) % Word) + k) % Word = (a + (j + k)) % Word
    BY <1>1, <1>2
  <1> QED
    BY <1>3 DEF Add32

LEMMA Add32Zero ==
  ASSUME NEW a \in Time32
  PROVE  Add32(a, 0) = a
  <1>1. a \in Int /\ a \in 0 .. Word - 1 /\ a + 0 = Word * 0 + a
    BY Sizes DEF Time32
  <1> QED
    BY <1>1, Sizes, ModUnique DEF Add32

\* How far one time lies after another, in the window where int32_t tells.
LEMMA Ahead ==
  ASSUME NEW a \in Time32, NEW k \in Int, -Word < k, k < Word
  PROVE  /\ Sub32(Add32(a, k), a) = IF k >= 0 THEN k ELSE k + Word
         /\ Sub32(a, Add32(a, k)) = IF k <= 0 THEN -k ELSE Word - k
  <1>1. a \in 0 .. Word - 1 /\ Word \in Nat \ {0}
    BY Sizes DEF Time32
  <1> DEFINE b == Add32(a, k)
             c == IF a + k < 0 THEN a + k + Word
                  ELSE IF a + k >= Word THEN a + k - Word ELSE a + k
  <1>2. \E q \in Int : a + k = Word * q + c
    <2>1. CASE a + k < 0
      <3>1. -1 \in Int /\ a + k = Word * (-1) + c
        BY <1>1, <2>1
      <3> QED
        BY <3>1
    <2>2. CASE a + k >= Word
      <3>1. 1 \in Int /\ a + k = Word * 1 + c
        BY <1>1, <2>2
      <3> QED
        BY <3>1
    <2>3. CASE a + k >= 0 /\ a + k < Word
      <3>1. 0 \in Int /\ a + k = Word * 0 + c
        BY <1>1, <2>3
      <3> QED
        BY <3>1
    <2> QED
      BY <1>1, <2>1, <2>2, <2>3
  <1>3. c \in 0 .. Word - 1 /\ a + k \in Int
    BY <1>1
  <1>4. b = c
    BY <1>1, <1>2, <1>3, ModUnique DEF Add32
  <1>5. /\ Sub32(c, a) = IF c >= a THEN c - a ELSE c - a + Word
        /\ Sub32(a, c) = IF a >= c THEN a - c ELSE a - c + Word
    BY <1>1, <1>3, Sub32Value DEF Time32
  <1>6. /\ Sub32(c, a) = IF k >= 0 THEN k ELSE k + Word
        /\ Sub32(a, c) = IF k <= 0 THEN -k ELSE Word - k
    BY <1>1, <1>5
  <1> QED
    BY <1>4, <1>6
=============================================================================
