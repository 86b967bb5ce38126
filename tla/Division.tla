------------------------------ MODULE Division ------------------------------
(***************************************************************************)
(* Facts about quotients and remainders of integers, for the proofs about  *)
(* clocks, buffers that start over and rings.  The divisor is any, so that *)
(* the provers need each of them by name.                                  *)
(***************************************************************************)
EXTENDS Integers, TLAPS

LEMMA Distributes ==
    ASSUME NEW a \in Int, NEW b \in Int, NEW c \in Int
    PROVE  a * (b + c) = a * b + a * c /\ (2 * a) * b = 2 * (a * b) /\ a * b \in Int
OBVIOUS

\* A remainder is what the name says, and there is only one.
LEMMA ModUnique ==
    ASSUME NEW q \in Int, NEW m \in Nat \ {0}, NEW r \in 0 .. m - 1
    PROVE  (m * q + r) % m = r
OBVIOUS

LEMMA Small ==
    ASSUME NEW m \in Nat \ {0}, NEW r \in 0 .. m - 1
    PROVE  r % m = r
OBVIOUS

LEMMA AtTheEnds ==
    ASSUME NEW m \in Nat \ {0}
    PROVE  (-1) % m = m - 1 /\ m % m = 0
<1>1. (m * (-1) + (m - 1)) % m = m - 1
  BY ModUnique
<1>2. m * (-1) + (m - 1) = -1
  OBVIOUS
<1>3. (m * 1 + 0) % m = 0
  BY ModUnique
<1> QED
  BY <1>1, <1>2, <1>3

LEMMA DivMod ==
    ASSUME NEW x \in Int, NEW m \in Nat \ {0}
    PROVE  x % m \in 0 .. m - 1 /\ \E q \in Int : x = m * q + (x % m)
<1>1. x \div m \in Int
  OBVIOUS
<1>2. x % m \in 0 .. m-1
  OBVIOUS
<1>3. x = m * (x \div m) + (x % m)
  OBVIOUS
<1> QED
  BY <1>1, <1>2, <1>3

LEMMA QuotientIs ==
    ASSUME NEW x \in Int, NEW m \in Nat \ {0}
    PROVE  x \div m \in Int /\ x = m * (x \div m) + (x % m)
OBVIOUS

LEMMA DivUnique ==
    ASSUME NEW q \in Int, NEW m \in Nat \ {0}, NEW r \in 0 .. m - 1
    PROVE  (m * q + r) \div m = q
OBVIOUS

\* Multiples do not count.
LEMMA AddMul ==
    ASSUME NEW q \in Int, NEW m \in Nat \ {0}, NEW r \in Int
    PROVE  (m * q + r) % m = r % m
<1> DEFINE s == r % m
<1>1. PICK p \in Int : r = m * p + s
  BY DivMod
<1>2. s \in 0 .. m - 1
  BY DivMod
<1> HIDE DEF s
<1>3. m * (q + p) = m * q + m * p /\ m * q \in Int /\ m * p \in Int
  BY Distributes
<1>4. m * q + r = m * (q + p) + s
  BY <1>1, <1>2, <1>3
<1>5. (m * (q + p) + s) % m = s
  BY <1>2, ModUnique
<1> QED
  BY <1>4, <1>5 DEF s

\* Samples of two bytes.
LEMMA Doubled ==
    ASSUME NEW m \in Nat \ {0}, NEW r \in Int
    PROVE  (2 * r) % (2 * m) = 2 * (r % m)
<1> DEFINE s == r % m
<1>1. PICK p \in Int : r = m * p + s
  BY DivMod
<1>2. s \in 0 .. m - 1
  BY DivMod
<1> HIDE DEF s
<1>3. m * p \in Int /\ (2 * m) * p = 2 * (m * p)
  BY Distributes
<1>4. 2 * r = (2 * m) * p + 2 * s
  BY <1>1, <1>2, <1>3
<1>5. 2 * s \in 0 .. (2 * m)-1 /\ 2 * m \in Nat \ {0}
  BY <1>2
<1>6. ((2 * m) * p + 2 * s) % (2 * m) = 2 * s
  BY <1>5, ModUnique
<1> QED
  BY <1>4, <1>6 DEF s

LEMMA DivGrows ==
    ASSUME NEW x \in Int, NEW y \in Int, x <= y, NEW m \in Nat \ {0}
    PROVE  x \div m <= y \div m /\ x \div m \in Int /\ (x >= 0 => x \div m >= 0)
<1> DEFINE p == x \div m
           q == y \div m
<1>1. x = m * p + (x % m) /\ y = m * q + (y % m) /\ p \in Int /\ q \in Int
  OBVIOUS
<1>2. x % m \in 0 .. m - 1 /\ y % m \in 0 .. m - 1
  OBVIOUS
<1> HIDE DEF p, q
<1>3. m * p < m * q + m
  BY <1>1, <1>2
<1>4. ASSUME p >= q + 1 PROVE FALSE
  <2>1. m * p >= m * (q + 1) /\ m * (q + 1) = m * q + m
    BY <1>1, <1>4
  <2> QED
    BY <1>1, <1>3, <2>1
<1>5. p <= q
  BY <1>1, <1>4
<1>6. ASSUME x >= 0, p < 0 PROVE FALSE
  <2>1. m * p <= m * (-1)
    BY <1>1, <1>6
  <2> QED
    BY <1>1, <1>2, <1>6, <2>1
<1> QED
  BY <1>1, <1>5, <1>6 DEF p, q

\* A remainder is no more than what was divided.
LEMMA AtMostItself ==
    ASSUME NEW m \in Nat \ {0}, NEW x \in Nat
    PROVE  x % m \in 0 .. x
<1>1. CASE x < m
  <2>1. x \in 0 .. m - 1
    BY <1>1
  <2>2. x % m = x
    BY <2>1, Small
  <2> QED
    BY <2>2
<1>2. CASE x >= m
  <2>1. x % m \in 0 .. m - 1
    OBVIOUS
  <2> QED
    BY <1>2, <2>1
<1> QED
  BY <1>1, <1>2

=============================================================================
