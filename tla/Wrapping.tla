------------------------------ MODULE Wrapping ------------------------------
(***************************************************************************)
(* Arithmetic of numbers that wrap around: the indices of a circular       *)
(* buffer (CBUF.h), and the numbers of chunks in WebTerminal.              *)
(***************************************************************************)
EXTENDS Integers, TLAPS

\* Quotient and remainder.
LEMMA DivMod ==
  ASSUME NEW a \in Int, NEW n \in Nat \ {0}
  PROVE  a % n \in 0 .. n - 1 /\ \E q \in Int : a = q * n + (a % n)
<1>1. a % n \in 0 .. n - 1
  OBVIOUS
<1>2. a \div n \in Int /\ a = (a \div n) * n + (a % n)
  OBVIOUS
<1> QED
  BY <1>1, <1>2

\* Different multiples are at least one period apart.
LEMMA MultiplesApart ==
  ASSUME NEW p \in Int, NEW q \in Int, NEW n \in Nat \ {0}, p < q
  PROVE  p * n \in Int /\ q * n \in Int /\ q * n >= p * n + n
<1>1. q - p \in Nat \ {0} /\ (q - p) * n = q * n - p * n
  OBVIOUS
<1>2. (q - p) * n >= n
  BY <1>1
<1>3. p * n \in Int /\ q * n \in Int
  OBVIOUS
<1> QED
  BY <1>1, <1>2, <1>3

\* The remainder is the only one.
LEMMA ModUnique ==
  ASSUME NEW a \in Int, NEW n \in Nat \ {0}, NEW q \in Int, NEW r \in 0 .. n - 1,
         a = q * n + r
  PROVE  a % n = r
<1> DEFINE s == a % n
<1>1. s \in 0 .. n - 1 /\ \E p \in Int : a = p * n + s
  BY DivMod
<1>2. PICK p \in Int : a = p * n + s
  BY <1>1
<1> HIDE DEF s
<1>3. q * n \in Int /\ p * n \in Int
  OBVIOUS
<1>4. ~(p < q)
  <2> SUFFICES ASSUME p < q PROVE FALSE
    OBVIOUS
  <2>1. q * n >= p * n + n
    BY MultiplesApart
  <2> QED
    BY <1>1, <1>2, <1>3, <2>1
<1>5. ~(q < p)
  <2> SUFFICES ASSUME q < p PROVE FALSE
    OBVIOUS
  <2>1. p * n >= q * n + n
    BY MultiplesApart
  <2> QED
    BY <1>1, <1>2, <1>3, <2>1
<1>6. p = q
  BY <1>4, <1>5
<1>7. s = r
  BY <1>1, <1>2, <1>3, <1>6
<1> QED
  BY <1>7 DEF s

\* What is in range stays.
LEMMA ModSmall ==
  ASSUME NEW n \in Nat \ {0}, NEW a \in 0 .. n - 1
  PROVE  a % n = a
<1>1. a \in Int /\ a = 0 * n + a
  OBVIOUS
<1> QED
  BY <1>1, ModUnique

\* Whole periods do not count.
LEMMA ModPeriod ==
  ASSUME NEW a \in Int, NEW n \in Nat \ {0}, NEW k \in Int
  PROVE  (a + k * n) % n = a % n
<1> DEFINE b == a + k * n
           r == a % n
<1>1. r \in 0 .. n - 1 /\ \E q \in Int : a = q * n + r
  BY DivMod
<1>2. PICK q \in Int : a = q * n + r
  BY <1>1
<1> DEFINE p == q + k
<1> HIDE DEF r
<1>3. k * n \in Int /\ q * n \in Int /\ p * n = q * n + k * n
  OBVIOUS
<1>4. b \in Int /\ p \in Int /\ b = p * n + r
  BY <1>1, <1>2, <1>3
<1> HIDE DEF b, p
<1>5. b % n = r
  BY <1>1, <1>4, ModUnique
<1> QED
  BY <1>5 DEF b, r

\* One period does not count, and adding to a number that has wrapped is adding to it
\* before it wraps.
LEMMA ModAdd ==
  ASSUME NEW a \in Int, NEW n \in Nat \ {0}, NEW i \in Int
  PROVE  /\ (a + n) % n = a % n
         /\ ((a % n) + i) % n = (a + i) % n
<1> DEFINE r == a % n
<1>1. r \in 0 .. n - 1 /\ \E q \in Int : a = q * n + r
  BY DivMod
<1>2. PICK q \in Int : a = q * n + r
  BY <1>1
<1> HIDE DEF r
<1>3. q * n \in Int /\ r + i \in Int /\ a + i = (r + i) + q * n
  BY <1>1, <1>2
<1>4. ((r + i) + q * n) % n = (r + i) % n
  BY <1>3, ModPeriod
<1>5. (a + 1 * n) % n = a % n /\ 1 * n = n
  <2>1. 1 \in Int /\ 1 * n = n
    OBVIOUS
  <2>2. (a + 1 * n) % n = a % n
    BY <2>1, ModPeriod
  <2> QED
    BY <2>1, <2>2
<1> QED
  BY <1>3, <1>4, <1>5 DEF r

\* Fewer than n numbers in a row have different remainders.
LEMMA ModApart ==
  ASSUME NEW a \in Int, NEW b \in Int, NEW n \in Nat \ {0}, a < b, b < a + n
  PROVE  a % n # b % n
<1> SUFFICES ASSUME a % n = b % n PROVE FALSE
  OBVIOUS
<1> DEFINE r == a % n
<1>1. r \in 0 .. n - 1
  BY DivMod
<1>2. PICK p \in Int : a = p * n + r
  BY DivMod
<1>3. PICK q \in Int : b = q * n + r
  BY DivMod
<1> HIDE DEF r
<1>4. p * n \in Int /\ q * n \in Int
  OBVIOUS
<1>5. CASE p < q
  <2>1. q * n >= p * n + n
    BY <1>5, MultiplesApart
  <2> QED
    BY <1>1, <1>2, <1>3, <1>4, <2>1
<1>6. CASE q < p
  <2>1. p * n >= q * n + n
    BY <1>6, MultiplesApart
  <2> QED
    BY <1>1, <1>2, <1>3, <1>4, <2>1
<1>7. CASE p = q
  BY <1>1, <1>2, <1>3, <1>4, <1>7
<1> QED
  BY <1>5, <1>6, <1>7

\* Adding the same number keeps and reflects equality of remainders.
LEMMA ModCancel ==
  ASSUME NEW a \in Int, NEW x \in Int, NEW y \in Int, NEW n \in Nat \ {0}
  PROVE  (a + x) % n = (a + y) % n <=> x % n = y % n
<1>1. ASSUME x % n = y % n PROVE (a + x) % n = (a + y) % n
  <2>1. ((x % n) + a) % n = (x + a) % n /\ ((y % n) + a) % n = (y + a) % n
    BY ModAdd
  <2> QED
    BY <1>1, <2>1
<1>2. ASSUME (a + x) % n = (a + y) % n PROVE x % n = y % n
  <2>1. a + x \in Int /\ a + y \in Int /\ -a \in Int
    OBVIOUS
  <2>2. /\ (((a + x) % n) + (-a)) % n = ((a + x) + (-a)) % n
        /\ (((a + y) % n) + (-a)) % n = ((a + y) + (-a)) % n
    BY <2>1, ModAdd
  <2>3. (a + x) + (-a) = x /\ (a + y) + (-a) = y
    OBVIOUS
  <2> QED
    BY <1>2, <2>2, <2>3
<1> QED
  BY <1>1, <1>2

\* The quotient is the largest number of wholes that fit.
LEMMA DivFits ==
  ASSUME NEW a \in Nat, NEW n \in Nat \ {0}
  PROVE  /\ a \div n \in Nat
         /\ (a \div n) * n <= a
         /\ a < (a \div n + 1) * n
<1> DEFINE q == a \div n
<1>1. q \in Nat /\ a % n \in 0 .. n - 1 /\ a = q * n + (a % n)
  OBVIOUS
<1> HIDE DEF q
<1>2. q * n \in Nat /\ (q + 1) * n = q * n + n
  BY <1>1
<1>3. q * n <= a /\ a < q * n + n
  BY <1>1, <1>2
<1> QED
  BY <1>1, <1>2, <1>3 DEF q
=============================================================================
