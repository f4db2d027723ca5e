---------------------------- MODULE FiguresProofs ----------------------------
(***************************************************************************)
(* What the arithmetic of LoadCell and the drawing of Figures compute, for *)
(* every reading, sum, offset and factor.                                  *)
(***************************************************************************)
EXTENDS Figures, FiniteSetTheorems, TLAPS

-----------------------------------------------------------------------------
(* The driver's arithmetic *)

LEMMA Bits ==
  /\ Bits8 = 256 /\ Bits16 = 256 * Bits8 /\ Bits24 = 256 * Bits16
  /\ Bits16 \in Nat /\ Bits24 \in Nat /\ Bits16 > 0 /\ Bits24 > 0 /\ Bits16 = 256 * 256
BY SMT DEF Bits8, Bits16, Bits24

LEMMA Bounds ==
  /\ Lowest \in Int /\ Highest \in Int
  /\ Lowest = -(128 * Bits16) /\ Highest = 128 * Bits16 - 1
BY SMT DEF Lowest, Highest, Bits16

LEMMA ReadingIs == \A n : n \in Reading <=> n \in Int /\ Lowest <= n /\ n <= Highest
<1>1. \A n : n \in Reading <=> n \in Lowest .. Highest
  BY DEF Reading
<1>2. Lowest \in Int /\ Highest \in Int
  BY Bounds
<1> HIDE DEF Lowest, Highest
<1> QED
  BY SMT, <1>1, <1>2

(* The two's complement of a reading. *)
LEMMA Modulo == \A n \in Reading : n % Bits24 = IF n >= 0 THEN n ELSE n + Bits24
<1> TAKE n \in Reading
<1>1. n \in Int /\ -(128 * Bits16) <= n /\ n <= 128 * Bits16 - 1
  BY SMT, ReadingIs, Bounds
<1>2. \A b \in Nat : 256 * 128 * 256 <= b /\ b > 0 /\ n <= b - 1 /\ n >= 0 => n % b = n
  BY SMT, <1>1
<1>3. \A b \in Nat : b > 0 /\ -b <= n /\ n < 0 => n % b = n + b
  BY SMT, <1>1
<1> QED
  BY SMT, <1>1, <1>2, <1>3, Bits

LEMMA ThreeBytes ==
  ASSUME NEW m \in Int, 0 <= m, m < 256 * 256 * 256
  PROVE  (m \div (256 * 256)) * (256 * 256) + ((m \div 256) % 256) * 256 + (m % 256) = m
BY SMT

(* readValue gives back what the converter measured, for all 2^24 readings:*)
(* the shifts and the filler undo the serialisation, sign and all.         *)
THEOREM ReadsWire == \A n \in Reading : ReadValue(Wire(n)) = n
<1> TAKE n \in Reading
<1>1. n \in Int /\ -(128 * Bits16) <= n /\ n <= 128 * Bits16 - 1
  BY SMT, ReadingIs, Bounds
<1> DEFINE m == n % Bits24
           a == m \div Bits16
           b == (m \div Bits8) % Bits8
           c == m % Bits8
<1>2. m = IF n >= 0 THEN n ELSE n + Bits24
  BY Modulo
<1> HIDE DEF m
<1>3. m \in Int /\ 0 <= m /\ m < 256 * 256 * 256
  BY SMT, <1>1, <1>2, Bits
<1>4. a * Bits16 + b * Bits8 + c = m
  BY SMT, <1>3, ThreeBytes, Bits
<1>5. a \in Int /\ b \in Int /\ c \in Int /\ (a >= 128 <=> m >= 128 * Bits16)
  BY SMT, <1>3, Bits
<1>6. Wire(n) = <<a, b, c>>
  BY DEF Wire, m
<1> HIDE DEF a, b, c
<1>7. ReadValue(Wire(n)) = Filler(a) * Bits24 + a * Bits16 + b * Bits8 + c
  BY SMT, <1>5, <1>6 DEF ReadValue
<1>8. ReadValue(Wire(n)) = (IF m >= 128 * Bits16 THEN -1 ELSE 0) * Bits24 + m
  BY SMT, <1>3, <1>4, <1>5, <1>7, Bits DEF Filler
<1> QED
  BY SMT, <1>1, <1>2, <1>3, <1>8, Bits

LEMMA DivLe ==
  ASSUME NEW a \in Nat, NEW k \in Nat, k > 0, NEW b \in Int, a < b * k + k
  PROVE  a \div k \in Nat /\ a \div k <= b
<1> DEFINE q == a \div k
           r == a % k
<1>1. q \in Int /\ r \in Int /\ 0 <= r /\ r < k /\ a = k * q + r
  BY SMT
<1> HIDE DEF q, r
<1>2. q >= 0
  <2> SUFFICES ASSUME q <= -1 PROVE FALSE
    BY SMT, <1>1
  <2>1. k * q <= k * (-1)
    BY SMT, <1>1
  <2> QED
    BY SMT, <1>1, <2>1
<1>3. q <= b
  <2> SUFFICES ASSUME q >= b + 1 PROVE FALSE
    BY SMT, <1>1
  <2>1. k * q >= k * (b + 1)
    BY SMT, <1>1
  <2>2. k * (b + 1) = b * k + k
    BY SMT
  <2> QED
    BY SMT, <1>1, <2>1, <2>2
<1> QED
  BY SMT, <1>1, <1>2, <1>3 DEF q

(* The average of readings is a reading. *)
LEMMA QuotientIsReading ==
  ASSUME NEW times \in Nat, times > 0, NEW sum \in Int,
         Lowest * times <= sum, sum <= Highest * times
  PROVE  Quotient(sum, times) \in Reading
<1> USE Bounds, Bits
<1>1. CASE sum >= 0
  <2>1. sum \in Nat /\ sum < Highest * times + times
    BY SMT, <1>1
  <2>2. sum \div times \in Nat /\ sum \div times <= Highest
    BY SMT, <2>1, DivLe
  <2> QED
    BY SMT, <1>1, <2>2, ReadingIs DEF Quotient
<1>2. CASE sum < 0
  <2>1. -sum \in Nat /\ -sum <= (-Lowest) * times /\ -Lowest \in Int
    BY SMT, <1>2
  <2>2. -sum < (-Lowest) * times + times
    BY SMT, <1>2, <2>1
  <2>3. (-sum) \div times \in Nat /\ (-sum) \div times <= -Lowest
    BY SMT, <2>1, <2>2, DivLe
  <2> QED
    BY SMT, <1>2, <2>3, ReadingIs DEF Quotient
<1> QED
  BY SMT, <1>1, <1>2

-----------------------------------------------------------------------------
(* Masses *)

(* Multiplying in parts loses nothing, and rounding adds at most one.      *)
LEMMA ScaledIs ==
  ASSUME NEW x, x.q \in Nat, x.r \in Nat, NEW k \in Nat, x.r < k, NEW m \in Nat
  PROVE  LET y == Scaled(x, m, k)
         IN  /\ y.q \in Nat /\ y.r \in Nat /\ y.r < k
             /\ y.q * k + y.r = (x.q * k + x.r) * m
<1> DEFINE n == x.r * m
           d == n \div k
           e == n % k
<1>1. n \in Nat /\ x.q * m \in Nat
  BY SMT
<1> HIDE DEF n
<1>2. d \in Int /\ e \in Nat /\ e < k /\ n = d * k + e
  BY SMT, <1>1
<1>3. d \in Nat
  <2> SUFFICES ASSUME d <= -1 PROVE FALSE
    BY SMT, <1>2
  <2> HIDE DEF d, e
  <2>1. d * k <= (-1) * k
    BY SMT, <1>2
  <2> QED
    BY SMT, <1>1, <1>2, <2>1
<1>4. Scaled(x, m, k) = [q |-> x.q * m + d, r |-> e]
  BY DEF Scaled, n, d, e
<1> HIDE DEF d, e
<1>5. (x.q * m + d) * k + e = (x.q * k + x.r) * m
  <2>1. (x.q * m + d) * k = (x.q * m) * k + d * k
    BY SMT, <1>1, <1>3
  <2>2. (x.q * k + x.r) * m = (x.q * k) * m + x.r * m
    BY SMT
  <2>3. (x.q * m) * k = (x.q * k) * m
    BY SMT
  <2> QED
    BY SMT, <1>1, <1>2, <1>3, <2>1, <2>2, <2>3 DEF n
<1> QED
  BY SMT, <1>1, <1>2, <1>3, <1>4, <1>5

LEMMA NearestIs ==
  ASSUME NEW x, x.q \in Nat, NEW k
  PROVE  Nearest(x, k) \in Nat /\ Nearest(x, k) <= x.q + 1
<1>1. Nearest(x, k) = x.q \/ Nearest(x, k) = x.q + 1
  BY Zenon DEF Nearest
<1> QED
  BY SMT, <1>1

(* Three times, as a float and its decimals need it. *)
LEMMA ScaledThrice ==
  ASSUME NEW x, x.q \in Nat, x.r \in Nat, NEW k \in Nat, x.r < k,
         NEW l \in Nat, NEW m \in Nat, NEW n \in Nat
  PROVE  LET y == Scaled(Scaled(Scaled(x, l, k), m, k), n, k)
         IN  /\ y.q \in Nat /\ y.r \in Nat
             /\ y.q * k <= (((x.q * k + x.r) * l) * m) * n
<1> DEFINE u == Scaled(x, l, k)
           v == Scaled(u, m, k)
           y == Scaled(v, n, k)
<1>1. /\ u.q \in Nat /\ u.r \in Nat /\ u.r < k /\ u.q * k + u.r = (x.q * k + x.r) * l
  BY ScaledIs
<1> HIDE DEF u
<1>2. /\ v.q \in Nat /\ v.r \in Nat /\ v.r < k /\ v.q * k + v.r = (u.q * k + u.r) * m
  BY <1>1, ScaledIs
<1> HIDE DEF v
<1>3. /\ y.q \in Nat /\ y.r \in Nat /\ y.r < k /\ y.q * k + y.r = (v.q * k + v.r) * n
  BY <1>2, ScaledIs
<1> HIDE DEF y
<1>4. y.q * k + y.r = (((x.q * k + x.r) * l) * m) * n
  BY <1>1, <1>2, <1>3
<1>5. y.q * k \in Nat /\ y.q * k <= y.q * k + y.r
  BY SMT, <1>3
<1> QED
  BY <1>3, <1>4, <1>5 DEF u, v, y

LEMMA FractionBitsAre == \A a, k : FractionBits(a, k) \in 0 .. 31
<1> TAKE a, k
<1> DEFINE S == {i \in 0 .. 23 : a \div k < 2 ^ i}
           T == {i \in 1 .. 7 : a * 2 ^ i < k}
<1>1. /\ IsFiniteSet(0 .. 23) /\ Cardinality(0 .. 23) = 24
      /\ IsFiniteSet(1 .. 7) /\ Cardinality(1 .. 7) = 7
  <2>1. /\ IsFiniteSet(0 .. 23) /\ Cardinality(0 .. 23) = IF 0 > 23 THEN 0 ELSE 23 - 0 + 1
        /\ IsFiniteSet(1 .. 7) /\ Cardinality(1 .. 7) = IF 1 > 7 THEN 0 ELSE 7 - 1 + 1
    <3>1. 0 \in Int /\ 23 \in Int /\ 1 \in Int /\ 7 \in Int
      BY SMT
    <3> QED
      BY Zenon, <3>1, FS_Interval
  <2>2. 0 <= 23 /\ 1 <= 7 /\ 23 - 0 + 1 = 24 /\ 7 - 1 + 1 = 7 /\ ~(0 > 23) /\ ~(1 > 7)
    BY SMT
  <2> QED
    BY Zenon, <2>1, <2>2
<1>2. S \in SUBSET (0 .. 23) /\ T \in SUBSET (1 .. 7)
  OBVIOUS
<1> HIDE DEF S, T
<1>3. /\ Cardinality(S) \in Nat /\ Cardinality(S) <= 24
      /\ Cardinality(T) \in Nat /\ Cardinality(T) <= 7
  BY <1>1, <1>2, FS_Subset, FS_CardinalityType
<1>4. FractionBits(a, k) = Cardinality(S) + Cardinality(T)
  BY DEF FractionBits, S, T
<1> QED
  BY SMT, <1>3, <1>4

(* The powers of two that occur, for each number of bits after the point:  *)
(* a float of that many, and at least five, is in units of 1/32p.          *)
LEMMA PowersOfTwo ==
  ASSUME NEW f \in 0 .. 31, NEW g, g = IF f < 5 THEN 5 ELSE f
  PROVE  /\ 2 ^ (f \div 3) \in Nat /\ 2 ^ (f \div 3) >= 1
         /\ 2 ^ ((f + 1) \div 3) \in Nat /\ 2 ^ ((f + 1) \div 3) >= 1
         /\ 2 ^ ((f + 2) \div 3) \in Nat /\ 2 ^ ((f + 2) \div 3) >= 1
         /\ 2 ^ (g - f) \in Nat /\ 2 ^ (g - 5) \in Nat /\ 2 ^ (g - 5) >= 1
         /\ ((2 ^ (f \div 3) * 2 ^ ((f + 1) \div 3)) * 2 ^ ((f + 2) \div 3)) * 2 ^ (g - f)
              = 32 * 2 ^ (g - 5)
<1>1. CASE f = 0
  BY SMT, <1>1
<1>2. CASE f = 1
  BY SMT, <1>2
<1>3. CASE f = 2
  BY SMT, <1>3
<1>4. CASE f = 3
  BY SMT, <1>4
<1>5. CASE f = 4
  BY SMT, <1>5
<1>6. CASE f = 5
  BY SMT, <1>6
<1>7. CASE f = 6
  BY SMT, <1>7
<1>8. CASE f = 7
  BY SMT, <1>8
<1>9. CASE f = 8
  BY SMT, <1>9
<1>10. CASE f = 9
  BY SMT, <1>10
<1>11. CASE f = 10
  BY SMT, <1>11
<1>12. CASE f = 11
  BY SMT, <1>12
<1>13. CASE f = 12
  BY SMT, <1>13
<1>14. CASE f = 13
  BY SMT, <1>14
<1>15. CASE f = 14
  BY SMT, <1>15
<1>16. CASE f = 15
  BY SMT, <1>16
<1>17. CASE f = 16
  BY SMT, <1>17
<1>18. CASE f = 17
  BY SMT, <1>18
<1>19. CASE f = 18
  BY SMT, <1>19
<1>20. CASE f = 19
  BY SMT, <1>20
<1>21. CASE f = 20
  BY SMT, <1>21
<1>22. CASE f = 21
  BY SMT, <1>22
<1>23. CASE f = 22
  BY SMT, <1>23
<1>24. CASE f = 23
  BY SMT, <1>24
<1>25. CASE f = 24
  BY SMT, <1>25
<1>26. CASE f = 25
  BY SMT, <1>26
<1>27. CASE f = 26
  BY SMT, <1>27
<1>28. CASE f = 27
  BY SMT, <1>28
<1>29. CASE f = 28
  BY SMT, <1>29
<1>30. CASE f = 29
  BY SMT, <1>30
<1>31. CASE f = 30
  BY SMT, <1>31
<1>32. CASE f = 31
  BY SMT, <1>32
<1>33. \A n \in 0 .. 31 :
         \/ n = 0 \/ n = 1 \/ n = 2 \/ n = 3 \/ n = 4 \/ n = 5 \/ n = 6 \/ n = 7
         \/ n = 8 \/ n = 9 \/ n = 10 \/ n = 11 \/ n = 12 \/ n = 13 \/ n = 14 \/ n = 15
         \/ n = 16 \/ n = 17 \/ n = 18 \/ n = 19 \/ n = 20 \/ n = 21 \/ n = 22 \/ n = 23
         \/ n = 24 \/ n = 25 \/ n = 26 \/ n = 27 \/ n = 28 \/ n = 29 \/ n = 30 \/ n = 31
  BY SMT
<1> QED
  BY ONLY f \in 0 .. 31, Zenon, <1>1, <1>2, <1>3, <1>4, <1>5, <1>6, <1>7, <1>8, <1>9, <1>10, <1>11, <1>12, <1>13, <1>14,
     <1>15, <1>16, <1>17, <1>18, <1>19, <1>20, <1>21, <1>22, <1>23, <1>24, <1>25, <1>26, <1>27,
     <1>28, <1>29, <1>30, <1>31, <1>32, <1>33

(* A float of a/k is at most a + 1 (more is not needed), in its own units. *)
LEMMA SignificandIs ==
  ASSUME NEW a \in Nat, NEW k \in Nat, k >= 1
  PROVE  LET f == FractionBits(a, k)
         IN  /\ Significand(a, k) \in Nat
             /\ Significand(a, k) <=
                  (((a + 1) * 2 ^ (f \div 3)) * 2 ^ ((f + 1) \div 3)) * 2 ^ ((f + 2) \div 3)
<1> DEFINE f == FractionBits(a, k)
           l == 2 ^ (f \div 3)
           m == 2 ^ ((f + 1) \div 3)
           n == 2 ^ ((f + 2) \div 3)
           x == [q |-> a \div k, r |-> a % k]
           y == Scaled(Scaled(Scaled(x, l, k), m, k), n, k)
<1>1. l \in Nat /\ l >= 1 /\ m \in Nat /\ m >= 1 /\ n \in Nat /\ n >= 1
  BY FractionBitsAre, PowersOfTwo
<1>2. Significand(a, k) = Nearest(y, k)
  BY DEF Significand
<1>3. x.q \in Nat /\ x.r \in Nat /\ x.r < k /\ x.q * k + x.r = a
  <2> DEFINE d == a \div k
             e == a % k
  <2>1. d \in Int /\ e \in Nat /\ e < k /\ d * k + e = a
    BY SMT
  <2>2. d \in Nat
    <3>1. a < a * k + k
      <4>1. a * 1 <= a * k
        BY SMT
      <4> QED
        BY SMT, <4>1
    <3> QED
      BY <3>1, DivLe
  <2> HIDE DEF d, e
  <2>3. [q |-> d, r |-> e].q = d /\ [q |-> d, r |-> e].r = e
    BY Zenon
  <2> QED
    BY <2>1, <2>2, <2>3 DEF d, e
<1> HIDE DEF f, l, m, n, x
<1>4. y.q \in Nat /\ y.q * k <= ((a * l) * m) * n
  BY <1>1, <1>3, ScaledThrice
<1> HIDE DEF y
<1>5. ((a * l) * m) * n \in Nat /\ (l * m) * n \in Nat /\ (l * m) * n >= 1
  <2>1. a * l \in Nat /\ l * m \in Nat /\ l * m >= 1
    BY SMT, <1>1
  <2>2. (a * l) * m \in Nat
    BY SMT, <1>1, <2>1
  <2> QED
    BY SMT, <1>1, <2>1, <2>2
<1>6. y.q <= ((a * l) * m) * n
  <2>1. y.q * 1 <= y.q * k
    BY SMT, <1>4
  <2> QED
    BY SMT, <1>4, <1>5, <2>1
<1>7. (((a + 1) * l) * m) * n = ((a * l) * m) * n + (l * m) * n
  BY SMT, <1>1
<1>8. Nearest(y, k) \in Nat /\ Nearest(y, k) <= y.q + 1
  BY <1>4, NearestIs
<1>9. Nearest(y, k) <= (((a + 1) * l) * m) * n
  BY SMT, <1>4, <1>5, <1>6, <1>7, <1>8
<1> QED
  BY <1>2, <1>8, <1>9 DEF f, l, m, n

(* What is printed: the rounded decimals stay below one.                   *)
LEMMA PrintedIs ==
  ASSUME NEW a \in Nat, NEW k \in Nat, k >= 1
  PROVE  /\ Printed(a, k).whole \in Nat /\ Printed(a, k).whole <= a + 2
         /\ Printed(a, k).frac \in Nat /\ Printed(a, k).frac < Decimals
<1> DEFINE f == FractionBits(a, k)
           g == IF f < 5 THEN 5 ELSE f
           l == 2 ^ (f \div 3)
           m == 2 ^ ((f + 1) \div 3)
           n == 2 ^ ((f + 2) \div 3)
           u == 2 ^ (g - f)
           p == 2 ^ (g - 5)
           s == Significand(a, k)
           t == s * u
           v == t \div p
           w == v \div 32
           x == [q |-> v % 32, r |-> t % p]
           y == Scaled(Scaled(Scaled(x, 25, p), 25, p), 5, p)
           d == Nearest(y, p)
<1>1. /\ l \in Nat /\ m \in Nat /\ n \in Nat /\ u \in Nat /\ p \in Nat /\ p >= 1
      /\ ((l * m) * n) * u = 32 * p
  BY FractionBitsAre, PowersOfTwo
<1>2. s \in Nat /\ s <= (((a + 1) * l) * m) * n
  BY SignificandIs
<1>3. Printed(a, k) = IF d = Decimals THEN [whole |-> w + 1, frac |-> 0] ELSE [whole |-> w, frac |-> d]
  BY DEF Printed
<1> HIDE DEF f, l, m, n, u, p, s
<1>4. t \in Nat /\ t <= 32 * ((a + 1) * p)
  <2>1. (((a + 1) * l) * m) * n = (a + 1) * ((l * m) * n) /\ (l * m) * n \in Int
    BY SMT, <1>1
  <2>2. t \in Nat /\ t <= ((((a + 1) * l) * m) * n) * u
    <3> DEFINE b == (((a + 1) * l) * m) * n
    <3>1. b \in Int
      BY SMT, <1>1
    <3> HIDE DEF b
    <3>2. s * u \in Nat /\ s * u <= b * u
      BY SMT, <1>1, <1>2, <3>1 DEF b
    <3> QED
      BY <3>2 DEF b
  <2>3. ((a + 1) * ((l * m) * n)) * u = (a + 1) * (((l * m) * n) * u)
    <3> DEFINE b == (l * m) * n
    <3>1. b \in Int
      BY <2>1
    <3> HIDE DEF b
    <3>2. ((a + 1) * b) * u = (a + 1) * (b * u)
      BY SMT, <1>1, <3>1
    <3> QED
      BY <3>2 DEF b
  <2>4. (a + 1) * (32 * p) = 32 * ((a + 1) * p)
    BY SMT, <1>1
  <2> QED
    BY <1>1, <2>1, <2>2, <2>3, <2>4
<1> HIDE DEF t
<1>5. v \in Nat /\ v <= 32 * (a + 1)
  <2>1. t < (32 * (a + 1)) * p + p
    <3>1. 32 * ((a + 1) * p) = (32 * (a + 1)) * p
      BY SMT, <1>1
    <3>2. (32 * (a + 1)) * p \in Int
      BY SMT, <1>1
    <3> QED
      BY SMT, <1>1, <1>4, <3>1, <3>2
  <2> QED
    BY SMT, <1>1, <1>4, <2>1, DivLe
<1>6. t % p \in Nat /\ t % p < p
  BY SMT, <1>1, <1>4
<1> HIDE DEF v
<1>7. w \in Nat /\ w <= a + 1 /\ v % 32 \in Nat /\ v % 32 < 32
  BY SMT, <1>5
<1> HIDE DEF w
<1>8. x.q \in Nat /\ x.r \in Nat /\ x.q < 32 /\ x.r < p
  BY <1>6, <1>7
<1> HIDE DEF x
<1>9. y.q \in Nat /\ y.q * p <= (((x.q * p + x.r) * 25) * 25) * 5
  BY <1>1, <1>8, ScaledThrice
<1> HIDE DEF y
<1>10. y.q < Decimals
  <2>1. x.q * p <= 31 * p
    BY SMT, <1>1, <1>8
  <2>2. (((x.q * p + x.r) * 25) * 25) * 5 < 100000 * p
    BY SMT, <1>1, <1>8, <2>1
  <2>3. y.q * p < 100000 * p
    <3> DEFINE b == (((x.q * p + x.r) * 25) * 25) * 5
    <3>1. b \in Int /\ y.q * p \in Int /\ 100000 * p \in Int
      BY SMT, <1>1, <1>8, <1>9
    <3>2. y.q * p <= b /\ b < 100000 * p
      BY <1>9, <2>2
    <3> HIDE DEF b
    <3> QED
      BY SMT, <3>1, <3>2
  <2>4. y.q < 100000
    <3> SUFFICES ASSUME y.q >= 100000 PROVE FALSE
      BY SMT, <1>9
    <3>1. y.q * p >= 100000 * p
      BY SMT, <1>1, <1>9
    <3> QED
      BY SMT, <1>1, <1>9, <2>3, <3>1
  <2> QED
    BY SMT, <2>4 DEF Decimals
<1>11. d \in Nat /\ d <= Decimals
  <2>1. d \in Nat /\ d <= y.q + 1
    BY <1>9, NearestIs
  <2> HIDE DEF d
  <2> QED
    BY SMT, <1>9, <1>10, <2>1 DEF Decimals
<1> HIDE DEF d
<1> QED
  BY SMT, <1>3, <1>7, <1>11 DEF Decimals

LEMMA UpTo == \A i, b : b \in Int => (i \in 0 .. b <=> i \in Nat /\ i <= b)
BY SMT

LEMMA Limits == Bits24 \in Nat /\ Bits24 + 2 \in Int /\ Decimals \in Nat /\ Decimals - 1 \in Nat
<1>1. Decimals \in Nat /\ Decimals - 1 \in Nat
  BY SMT DEF Decimals
<1> QED
  BY SMT, <1>1, Bits

(* A mass of get_units, whatever the factor.                               *)
LEMMA UnitsAreMass ==
  ASSUME NEW value \in Int, NEW scale \in Int, -Bits24 <= value, value <= Bits24
  PROVE  GetUnits(value, scale) \in Mass
<1> DEFINE a == Magnitude(value)
           k == Magnitude(scale)
           n == Printed(a, k)
<1>1. a \in Nat /\ a <= Bits24 /\ k \in Nat /\ (scale # 0 => k >= 1)
  BY SMT, Bits DEF Magnitude
<1>2. CASE scale = 0
  <2>1. 0 \in 0 .. Bits24 + 2 /\ 0 \in 0 .. Decimals - 1
    BY SMT, Limits, UpTo
  <2> HIDE DEF a, k, n
  <2>2. Infinite(value) \in Mass
    <3> DEFINE b == value < 0
    <3>1. b \in BOOLEAN
      OBVIOUS
    <3>2. Infinite(value) = [kind |-> IF value = 0 THEN "nan" ELSE "inf", negative |-> b, whole |-> 0,
                             frac |-> 0, zero |-> FALSE, below_ten |-> FALSE]
      BY DEF Infinite
    <3> HIDE DEF b
    <3> QED
      BY <2>1, <3>1, <3>2 DEF Mass
  <2> QED
    BY <1>2, <2>2 DEF GetUnits
<1>3. CASE scale # 0
  <2> HIDE DEF a, k
  <2>1. n.whole \in Nat /\ n.whole <= a + 2 /\ n.frac \in Nat /\ n.frac < Decimals
    BY <1>1, <1>3, PrintedIs
  <2> HIDE DEF n
  <2>2. n.whole \in 0 .. Bits24 + 2 /\ n.frac \in 0 .. Decimals - 1
    <3>1. n.whole <= Bits24 + 2 /\ n.frac <= Decimals - 1
      BY SMT, <1>1, <2>1, Limits
    <3> QED
      BY SMT, <2>1, <3>1, Limits, UpTo
  <2>3. GetUnits(value, scale) =
          [kind |-> "finite", negative |-> value # 0 /\ ((value < 0) # (scale < 0)),
           whole |-> n.whole, frac |-> n.frac, zero |-> a <= k \div 200, below_ten |-> a < 10 * k]
    BY Zenon, <1>3 DEF GetUnits, a, k, n
  <2>4. \A b, c : (b <= c) \in BOOLEAN /\ (b < c) \in BOOLEAN
    OBVIOUS
  <2> QED
    BY <2>2, <2>3, <2>4 DEF Mass
<1> QED
  BY <1>2, <1>3

LEMMA MassIs ==
  ASSUME NEW mass \in Mass
  PROVE  /\ mass.kind \in {"finite", "inf", "nan"} /\ mass.negative \in BOOLEAN
         /\ mass.zero \in BOOLEAN /\ mass.below_ten \in BOOLEAN
         /\ mass.whole \in Nat /\ mass.whole <= Bits24 + 2
         /\ mass.frac \in Nat /\ mass.frac < Decimals
<1>1. mass.whole \in 0 .. Bits24 + 2 /\ mass.frac \in 0 .. Decimals - 1
  BY DEF Mass
<1>2. /\ mass.whole \in Nat /\ mass.whole <= Bits24 + 2
      /\ mass.frac \in Nat /\ mass.frac <= Decimals - 1
  BY SMT, <1>1, Limits, UpTo
<1>3. mass.frac < Decimals
  BY SMT, <1>2, Limits
<1> QED
  BY <1>2, <1>3 DEF Mass

LEMMA Powers ==
  /\ Power10[1] = 1 /\ Power10[2] = 10 /\ Power10[3] = 100 /\ Power10[4] = 1000
  /\ Power10[5] = 10 * 1000 /\ Power10[6] = 100 * 1000 /\ Power10[7] = 1000 * 1000
  /\ Power10[8] = 10 * 1000 * 1000 /\ Power10[9] = 100 * 1000 * 1000
BY SMT DEF Power10

LEMMA PowersPositive == \A k \in 1 .. 9 : Power10[k] \in Nat /\ Power10[k] > 0
BY SMT, Powers

(* The number of digits of a whole number is what its name says.           *)
LEMMA Digits ==
  ASSUME NEW w \in Nat, w <= Bits24 + 3
  PROVE  /\ NumDigits(w) \in 1 .. 8
         /\ w < Power10[NumDigits(w) + 1]
         /\ NumDigits(w) = 1 \/ w >= Power10[NumDigits(w)]
<1>1. w < 100 * 1000 * 1000
  BY SMT, Bits
<1>2. \E n \in 1 .. 8 : w < Power10[n + 1] /\ (n = 1 \/ w >= Power10[n])
  <2> USE Powers
  <2>1. CASE w < 10
    BY SMT, <2>1
  <2>2. CASE w >= 10 /\ w < 100
    BY SMT, <2>2
  <2>3. CASE w >= 100 /\ w < 1000
    BY SMT, <2>3
  <2>4. CASE w >= 1000 /\ w < 10 * 1000
    BY SMT, <2>4
  <2>5. CASE w >= 10 * 1000 /\ w < 100 * 1000
    BY SMT, <2>5
  <2>6. CASE w >= 100 * 1000 /\ w < 1000 * 1000
    BY SMT, <2>6
  <2>7. CASE w >= 1000 * 1000 /\ w < 10 * 1000 * 1000
    BY SMT, <2>7
  <2>8. CASE w >= 10 * 1000 * 1000
    BY SMT, <1>1, <2>8
  <2> QED
    BY SMT, <2>1, <2>2, <2>3, <2>4, <2>5, <2>6, <2>7, <2>8
<1> QED
  BY <1>2 DEF NumDigits

(* Both texts fit their arrays.                                            *)
LEMMA TextsFit ==
  ASSUME NEW mass \in Mass
  PROVE  TotalmassLength(mass) < 16 /\ DisplaymassLength(mass) < 16
<1>1. mass.whole \in Nat /\ mass.whole <= Bits24 + 2
  BY MassIs
<1>2. mass.whole + 1 \in Nat /\ mass.whole + 1 <= Bits24 + 3 /\ mass.whole <= Bits24 + 3
  BY SMT, <1>1, Bits
<1>3. NumDigits(mass.whole) \in 1 .. 8 /\ NumDigits(mass.whole + 1) \in 1 .. 8
  BY <1>1, <1>2, Digits
<1> QED
  BY SMT, <1>3 DEF TotalmassLength, DisplaymassLength

-----------------------------------------------------------------------------
(* Drawings *)

LEMMA DigitIs ==
  ASSUME NEW number \in Nat, NEW k \in 0 .. 8
  PROVE  DigitAt(number, k) \in 0 .. 9
<1>1. Power10[k + 1] \in Nat /\ Power10[k + 1] > 0
  BY SMT, PowersPositive
<1>2. number \div Power10[k + 1] \in Int
  BY SMT, <1>1
<1> QED
  BY SMT, <1>2 DEF DigitAt

LEMMA FirstPlace == \A mass : DrawingStart(mass) \in {3, 4}
BY DEF DrawingStart

(* The alternatives of what weighingTask writes to a place. *)
LEMMA DrawingIs ==
  ASSUME NEW mass \in Mass, NEW p \in Figure
  PROVE  LET first == DrawingStart(mass)
         IN  /\ mass.zero => Drawing(mass, p) = IF p = 7 THEN Num(0, FALSE) ELSE Blank
             /\ ~mass.zero /\ p < first => Drawing(mass, p) = IF mass.negative THEN Minus ELSE Blank
             /\ ~mass.zero /\ p >= first =>
                  Drawing(mass, p) =
                    IF mass.kind = "finite" THEN TextAt(mass, first, p) ELSE WordAt(first, p)
<1> DEFINE first == DrawingStart(mass)
           zero  == mass.zero
<1>1. zero \in BOOLEAN
  BY MassIs
<1>2. p < first <=> ~(p >= first)
  <2>1. first \in Int /\ p \in Int
    BY SMT, FirstPlace DEF Figure
  <2> HIDE DEF first
  <2> QED
    BY SMT, <2>1
<1>3. Drawing(mass, p) =
        CASE zero                 -> IF p = 7 THEN Num(0, FALSE) ELSE Blank
          [] ~zero /\ p < first   -> IF mass.negative THEN Minus ELSE Blank
          [] ~zero /\ p >= first  ->
               IF mass.kind = "finite" THEN TextAt(mass, first, p) ELSE WordAt(first, p)
  BY DEF Drawing
<1> HIDE DEF first, zero
<1>4. /\ zero => Drawing(mass, p) = IF p = 7 THEN Num(0, FALSE) ELSE Blank
      /\ ~zero /\ p < first => Drawing(mass, p) = IF mass.negative THEN Minus ELSE Blank
      /\ ~zero /\ p >= first =>
           Drawing(mass, p) = IF mass.kind = "finite" THEN TextAt(mass, first, p) ELSE WordAt(first, p)
  BY ONLY <1>1, <1>2, <1>3, Zenon
<1> QED
  BY <1>4 DEF first, zero

LEMMA DrawingIsGlyph ==
  ASSUME NEW mass \in Mass, NEW p \in Figure
  PROVE  /\ Drawing(mass, p) \in Glyph
         /\ mass.kind = "finite" => Drawing(mass, p) # Stray
<1> DEFINE first == DrawingStart(mass)
           n     == NumDigits(mass.whole)
           j     == p - first + 1
<1>1. mass.whole \in Nat /\ mass.whole <= Bits24 + 3 /\ mass.frac \in Nat
  <2>1. mass.whole \in Nat /\ mass.whole <= Bits24 + 2 /\ mass.frac \in Nat
    BY MassIs
  <2> QED
    BY SMT, <2>1, Bits
<1>2. n \in 1 .. 8
  BY <1>1, Digits
<1>3. first \in {3, 4}
  BY FirstPlace
<1>4. /\ mass.zero => Drawing(mass, p) = IF p = 7 THEN Num(0, FALSE) ELSE Blank
      /\ ~mass.zero /\ p < first => Drawing(mass, p) = IF mass.negative THEN Minus ELSE Blank
      /\ ~mass.zero /\ p >= first =>
           Drawing(mass, p) = IF mass.kind = "finite" THEN TextAt(mass, first, p) ELSE WordAt(first, p)
  BY DrawingIs
<1> HIDE DEF first
<1>5. p \in Int /\ 3 <= p /\ p <= 7
  BY SMT DEF Figure
<1>6. /\ {Num(0, FALSE), Blank, Minus, Letter, Stray} \subseteq Glyph
      /\ {Num(0, FALSE), Blank, Minus} \cap {Stray} = {}
      /\ WordAt(first, p) \in {Letter, Stray}
  BY SMT DEF Glyph, Num, Blank, Minus, Letter, Stray, WordAt
<1>7. ASSUME p >= first PROVE TextAt(mass, first, p) \in Glyph /\ TextAt(mass, first, p) # Stray
  <2>1. TextAt(mass, first, p) = IF j <= n THEN Num(DigitAt(mass.whole, n - j), j = n)
                                           ELSE Num(DigitAt(mass.frac, 5 - (j - n)), FALSE)
    BY DEF TextAt
  <2>2. CASE j <= n
    <3>1. n - j \in 0 .. 8
      BY SMT, <1>2, <1>3, <1>5, <1>7, <2>2
    <3>2. DigitAt(mass.whole, n - j) \in 0 .. 9
      BY <1>1, <3>1, DigitIs
    <3> HIDE DEF j, n
    <3> QED
      BY SMT, <2>1, <2>2, <3>2 DEF Num, Glyph, Stray
  <2>3. CASE ~(j <= n)
    <3>1. 5 - (j - n) \in 0 .. 8
      BY SMT, <1>2, <1>3, <1>5, <1>7, <2>3
    <3>2. DigitAt(mass.frac, 5 - (j - n)) \in 0 .. 9
      BY <1>1, <3>1, DigitIs
    <3> HIDE DEF j, n
    <3> QED
      BY SMT, <2>1, <2>3, <3>2 DEF Num, Glyph, Stray
  <2> QED
    BY <2>2, <2>3
<1>8. p < first \/ p >= first
  BY SMT, <1>3, <1>5
<1>9. mass.zero \in BOOLEAN
  BY MassIs
<1>10. /\ Num(0, FALSE) \in Glyph /\ Blank \in Glyph /\ Minus \in Glyph /\ WordAt(first, p) \in Glyph
       /\ Num(0, FALSE) # Stray /\ Blank # Stray /\ Minus # Stray
  BY <1>6
<1> QED
  BY Zenon, <1>4, <1>7, <1>8, <1>9, <1>10

-----------------------------------------------------------------------------
(* What a figure shows *)

(* One digit after the other. *)
LEMMA DigitByDigit ==
  ASSUME NEW w \in Nat
  PROVE  /\ \A k \in 0 .. 4 : DigitAt(w, k) \in 0 .. 9
         /\ \A k \in 1 .. 6 : w \div Power10[k] \in Nat
         /\ w \div Power10[1] = 10 * (w \div Power10[2]) + DigitAt(w, 0)
         /\ w \div Power10[2] = 10 * (w \div Power10[3]) + DigitAt(w, 1)
         /\ w \div Power10[3] = 10 * (w \div Power10[4]) + DigitAt(w, 2)
         /\ w \div Power10[4] = 10 * (w \div Power10[5]) + DigitAt(w, 3)
         /\ w \div Power10[5] = 10 * (w \div Power10[6]) + DigitAt(w, 4)
<1>1. \A k \in 0 .. 4 : DigitAt(w, k) \in 0 .. 9
  BY SMT, DigitIs
<1>2. \A k \in 1 .. 6 : w \div Power10[k] \in Nat
  BY SMT, Powers
<1>3. w \div Power10[1] = 10 * (w \div Power10[2]) + DigitAt(w, 0)
  <2>1. w \div 1 = 10 * (w \div 10) + ((w \div 1) % 10)
    BY SMT
  <2>2. DigitAt(w, 0) = (w \div Power10[1]) % 10
    BY SMT DEF DigitAt
  <2> QED
    BY SMT, <2>1, <2>2, Powers
<1>4. w \div Power10[2] = 10 * (w \div Power10[3]) + DigitAt(w, 1)
  <2>1. w \div 10 = 10 * (w \div 100) + ((w \div 10) % 10)
    BY SMT
  <2>2. DigitAt(w, 1) = (w \div Power10[2]) % 10
    BY SMT DEF DigitAt
  <2> QED
    BY SMT, <2>1, <2>2, Powers
<1>5. w \div Power10[3] = 10 * (w \div Power10[4]) + DigitAt(w, 2)
  <2>1. w \div 100 = 10 * (w \div 1000) + ((w \div 100) % 10)
    BY SMT
  <2>2. DigitAt(w, 2) = (w \div Power10[3]) % 10
    BY SMT DEF DigitAt
  <2> QED
    BY SMT, <2>1, <2>2, Powers
<1>6. w \div Power10[4] = 10 * (w \div Power10[5]) + DigitAt(w, 3)
  <2>1. w \div 1000 = 10 * (w \div (10 * 1000)) + ((w \div 1000) % 10)
    BY SMT
  <2>2. DigitAt(w, 3) = (w \div Power10[4]) % 10
    BY SMT DEF DigitAt
  <2> QED
    BY SMT, <2>1, <2>2, Powers
<1>7. w \div Power10[5] = 10 * (w \div Power10[6]) + DigitAt(w, 4)
  <2>1. w \div (10 * 1000) = 10 * (w \div (100 * 1000)) + ((w \div (10 * 1000)) % 10)
    BY SMT
  <2>2. DigitAt(w, 4) = (w \div Power10[5]) % 10
    BY SMT DEF DigitAt
  <2> QED
    BY SMT, <2>1, <2>2, Powers
<1> QED
  BY <1>1, <1>2, <1>3, <1>4, <1>5, <1>6, <1>7

(* The digits of a whole number put together, for as many as a figure has. *)
LEMMA WholeDigits ==
  ASSUME NEW w \in Nat
  PROVE  /\ w < Power10[2] => DigitAt(w, 0) = w
         /\ w < Power10[3] => 10 * DigitAt(w, 1) + DigitAt(w, 0) = w
         /\ w < Power10[4] => 100 * DigitAt(w, 2) + 10 * DigitAt(w, 1) + DigitAt(w, 0) = w
         /\ w < Power10[5] => 1000 * DigitAt(w, 3) + 100 * DigitAt(w, 2) + 10 * DigitAt(w, 1)
                                + DigitAt(w, 0) = w
         /\ w < Power10[6] => 10000 * DigitAt(w, 4) + 1000 * DigitAt(w, 3) + 100 * DigitAt(w, 2)
                                + 10 * DigitAt(w, 1) + DigitAt(w, 0) = w
<1> DEFINE D(k) == DigitAt(w, k)
           Q(k) == w \div Power10[k]
<1>1. /\ D(0) \in Int /\ D(1) \in Int /\ D(2) \in Int /\ D(3) \in Int /\ D(4) \in Int
      /\ Q(2) \in Int /\ Q(3) \in Int /\ Q(4) \in Int /\ Q(5) \in Int /\ Q(6) \in Int
  <2>1. (\A k \in 0 .. 4 : D(k) \in 0 .. 9) /\ (\A k \in 1 .. 6 : Q(k) \in Nat)
    BY DigitByDigit
  <2> HIDE DEF D, Q
  <2> QED
    BY SMT, <2>1
<1>2. /\ Q(1) = 10 * Q(2) + D(0) /\ Q(2) = 10 * Q(3) + D(1) /\ Q(3) = 10 * Q(4) + D(2)
      /\ Q(4) = 10 * Q(5) + D(3) /\ Q(5) = 10 * Q(6) + D(4)
  BY DigitByDigit
<1>3. Q(1) = w
  BY SMT, Powers
<1>4. /\ w < Power10[2] => Q(2) = 0
      /\ w < Power10[3] => Q(3) = 0
      /\ w < Power10[4] => Q(4) = 0
      /\ w < Power10[5] => Q(5) = 0
      /\ w < Power10[6] => Q(6) = 0
  BY SMT, Powers
<1> HIDE DEF D, Q
<1>5. /\ w < Power10[2] => D(0) = w
      /\ w < Power10[3] => 10 * D(1) + D(0) = w
      /\ w < Power10[4] => 100 * D(2) + 10 * D(1) + D(0) = w
      /\ w < Power10[5] => 1000 * D(3) + 100 * D(2) + 10 * D(1) + D(0) = w
      /\ w < Power10[6] => 10000 * D(4) + 1000 * D(3) + 100 * D(2) + 10 * D(1) + D(0) = w
  BY SMT, <1>1, <1>2, <1>3, <1>4
<1> QED
  BY <1>5 DEF D

(* The five decimals, cut off after one to four of them, or before them.   *)
LEMMA FracDigits ==
  ASSUME NEW f \in Nat, f < Power10[6]
  PROVE  /\ f \div Power10[6] = 0
         /\ f \div Power10[5] = DigitAt(f, 4)
         /\ f \div Power10[4] = 10 * DigitAt(f, 4) + DigitAt(f, 3)
         /\ f \div Power10[3] = 100 * DigitAt(f, 4) + 10 * DigitAt(f, 3) + DigitAt(f, 2)
         /\ f \div Power10[2] = 1000 * DigitAt(f, 4) + 100 * DigitAt(f, 3) + 10 * DigitAt(f, 2)
                                  + DigitAt(f, 1)
<1> DEFINE D(k) == DigitAt(f, k)
           Q(k) == f \div Power10[k]
<1>1. /\ D(1) \in Int /\ D(2) \in Int /\ D(3) \in Int /\ D(4) \in Int
      /\ Q(2) \in Int /\ Q(3) \in Int /\ Q(4) \in Int /\ Q(5) \in Int
  <2>1. (\A k \in 0 .. 4 : D(k) \in 0 .. 9) /\ (\A k \in 1 .. 6 : Q(k) \in Nat)
    BY DigitByDigit
  <2> HIDE DEF D, Q
  <2> QED
    BY SMT, <2>1
<1>2. /\ Q(2) = 10 * Q(3) + D(1) /\ Q(3) = 10 * Q(4) + D(2)
      /\ Q(4) = 10 * Q(5) + D(3) /\ Q(5) = 10 * Q(6) + D(4)
  BY DigitByDigit
<1>3. Q(6) = 0
  BY SMT, Powers
<1> HIDE DEF D, Q
<1>4. /\ Q(5) = D(4) /\ Q(4) = 10 * D(4) + D(3) /\ Q(3) = 100 * D(4) + 10 * D(3) + D(2)
      /\ Q(2) = 1000 * D(4) + 100 * D(3) + 10 * D(2) + D(1)
  BY SMT, <1>1, <1>2, <1>3
<1> QED
  BY <1>3, <1>4 DEF D, Q

(* Places that show the drawing of a mass that is not zero read as the     *)
(* mass, cut off after the decimals that fit.                              *)
LEMMA FigureIsMass ==
  ASSUME NEW mass \in Mass, mass.kind = "finite", ~mass.zero,
         NEW shown, \A p \in Figure : shown[p] = Drawing(mass, p)
  PROVE  LET decimals == 8 - DrawingStart(mass) - NumDigits(mass.whole)
         IN  /\ mass.negative <=> shown[3] = Minus
             /\ decimals >= 0 =>
                  /\ 10000 * shown[3].digit + 1000 * shown[4].digit + 100 * shown[5].digit
                       + 10 * shown[6].digit + shown[7].digit
                       = mass.whole * Power10[decimals + 1] + (mass.frac \div Power10[6 - decimals])
                  /\ \A p \in Figure : shown[p].point <=> p = 7 - decimals
<1> DEFINE first    == DrawingStart(mass)
           n        == NumDigits(mass.whole)
           decimals == 8 - first - n
           W(k)     == DigitAt(mass.whole, k)
           F(k)     == DigitAt(mass.frac, k)
           J(p)     == p - first + 1
           number   == 10000 * shown[3].digit + 1000 * shown[4].digit + 100 * shown[5].digit
                         + 10 * shown[6].digit + shown[7].digit
<1>1. /\ mass.whole \in Nat /\ mass.whole <= Bits24 + 3 /\ mass.negative \in BOOLEAN
      /\ mass.frac \in Nat /\ mass.frac < Power10[6]
  <2>1. /\ mass.whole \in Nat /\ mass.whole <= Bits24 + 2 /\ mass.negative \in BOOLEAN
        /\ mass.frac \in Nat /\ mass.frac < Decimals
    BY MassIs
  <2>2. mass.whole <= Bits24 + 3
    BY SMT, <2>1, Bits
  <2>3. mass.frac < Power10[6]
    BY SMT, <2>1, Powers DEF Decimals
  <2> QED
    BY <2>1, <2>2, <2>3
<1>2. n \in 1 .. 8 /\ mass.whole < Power10[n + 1]
  BY <1>1, Digits
<1>3. first \in {3, 4} /\ (mass.negative => first = 4)
  BY DEF DrawingStart
<1>4. \A p \in Figure : p < first => shown[p] = IF mass.negative THEN Minus ELSE Blank
  BY DrawingIs
<1>5. \A p \in Figure : p >= first => shown[p] = TextAt(mass, first, p)
  BY DrawingIs
<1> HIDE DEF first
<1>6. ASSUME NEW p
      PROVE  TextAt(mass, first, p) =
               IF J(p) <= n THEN Num(W(n - J(p)), J(p) = n)
                                     ELSE Num(F(5 - (J(p) - n)), FALSE)
  BY DEF TextAt
<1> HIDE DEF n, W, F, J
<1>7. mass.negative <=> shown[3] = Minus
  <2>1. CASE first = 4
    <3>1. 3 \in Figure /\ 3 < first
      BY SMT, <2>1 DEF Figure
    <3>2. shown[3] = IF mass.negative THEN Minus ELSE Blank
      BY <1>4, <3>1
    <3>3. Minus # Blank
      BY DEF Minus, Blank
    <3> QED
      BY Zenon, <1>1, <3>2, <3>3
  <2>2. CASE first = 3
    <3>1. shown[3].sign = "digit"
      BY SMT, <1>2, <1>5, <1>6, <2>2 DEF Figure, Num, J
    <3> QED
      BY SMT, <1>1, <1>3, <2>2, <3>1 DEF Minus
  <2> QED
    BY <1>3, <2>1, <2>2
<1>8. ASSUME NEW p \in Figure, p >= first
      PROVE  /\ J(p) <= n => shown[p].digit = W(n - J(p))
             /\ ~(J(p) <= n) => shown[p].digit = F(5 - (J(p) - n))
             /\ shown[p].point <=> J(p) = n
  <2>1. shown[p] = IF J(p) <= n THEN Num(W(n - J(p)), J(p) = n) ELSE Num(F(5 - (J(p) - n)), FALSE)
    BY <1>5, <1>6, <1>8
  <2>2. ~(J(p) <= n) => J(p) # n
    BY SMT, <1>2, <1>3 DEF Figure, J
  <2>3. \A d, dot : Num(d, dot).digit = d /\ Num(d, dot).point = dot
    BY DEF Num
  <2>4. CASE J(p) <= n
    <3>1. shown[p] = Num(W(n - J(p)), J(p) = n)
      BY <2>1, <2>4
    <3> QED
      BY ONLY <2>3, <2>4, <3>1, Zenon
  <2>5. CASE ~(J(p) <= n)
    <3>1. shown[p] = Num(F(5 - (J(p) - n)), FALSE)
      BY <2>1, <2>5
    <3> QED
      BY ONLY <2>2, <2>3, <2>5, <3>1, Zenon
  <2> QED
    BY <2>4, <2>5
<1>9. ASSUME NEW p \in Figure, p < first
      PROVE  shown[p].digit = 0 /\ shown[p].point = FALSE
  BY SMT, <1>4, <1>9 DEF Minus, Blank
<1>10. ASSUME decimals >= 0
       PROVE  \A p \in Figure : shown[p].point <=> p = 7 - decimals
  <2> TAKE p \in Figure
  <2>1. p \in Int
    BY SMT DEF Figure
  <2>2. CASE p >= first
    <3>1. J(p) = n <=> p = 7 - decimals
      BY SMT, <1>2, <1>3, <2>1 DEF J
    <3> QED
      BY Zenon, <1>8, <2>2, <3>1
  <2>3. CASE p < first
    <3>1. p # 7 - decimals
      BY SMT, <1>2, <1>3, <2>1, <2>3
    <3>2. shown[p].point = FALSE
      BY <1>9, <2>3
    <3> QED
      BY Zenon, <3>1, <3>2
  <2> QED
    BY SMT, <1>3, <2>1, <2>2, <2>3
<1>11. ASSUME decimals >= 0
       PROVE  number = mass.whole * Power10[decimals + 1] + (mass.frac \div Power10[6 - decimals])
  <2>1. /\ mass.whole < Power10[2] => W(0) = mass.whole
        /\ mass.whole < Power10[3] => 10 * W(1) + W(0) = mass.whole
        /\ mass.whole < Power10[4] => 100 * W(2) + 10 * W(1) + W(0) = mass.whole
        /\ mass.whole < Power10[5] => 1000 * W(3) + 100 * W(2) + 10 * W(1) + W(0) = mass.whole
        /\ mass.whole < Power10[6] =>
             10000 * W(4) + 1000 * W(3) + 100 * W(2) + 10 * W(1) + W(0) = mass.whole
    BY <1>1, WholeDigits DEF W
  <2>2. /\ mass.frac \div Power10[6] = 0
        /\ mass.frac \div Power10[5] = F(4)
        /\ mass.frac \div Power10[4] = 10 * F(4) + F(3)
        /\ mass.frac \div Power10[3] = 100 * F(4) + 10 * F(3) + F(2)
        /\ mass.frac \div Power10[2] = 1000 * F(4) + 100 * F(3) + 10 * F(2) + F(1)
    BY <1>1, FracDigits DEF F
  <2>3. \A k \in 0 .. 4 : W(k) \in Int /\ F(k) \in Int
    BY SMT, <1>1, DigitIs DEF W, F
  <2>4. CASE first = 3 /\ n = 1
    <3>1. /\ shown[3].digit = W(0) /\ shown[4].digit = F(4) /\ shown[5].digit = F(3)
          /\ shown[6].digit = F(2) /\ shown[7].digit = F(1) /\ decimals = 4
      BY SMT, <1>8, <1>9, <2>4 DEF Figure, J
    <3> QED
      BY SMT, <1>1, <1>2, <2>1, <2>2, <2>3, <2>4, <3>1, Powers
  <2>5. CASE first = 3 /\ n = 2
    <3>1. /\ shown[3].digit = W(1) /\ shown[4].digit = W(0) /\ shown[5].digit = F(4)
          /\ shown[6].digit = F(3) /\ shown[7].digit = F(2) /\ decimals = 3
      BY SMT, <1>8, <1>9, <2>5 DEF Figure, J
    <3> QED
      BY SMT, <1>1, <1>2, <2>1, <2>2, <2>3, <2>5, <3>1, Powers
  <2>6. CASE first = 3 /\ n = 3
    <3>1. /\ shown[3].digit = W(2) /\ shown[4].digit = W(1) /\ shown[5].digit = W(0)
          /\ shown[6].digit = F(4) /\ shown[7].digit = F(3) /\ decimals = 2
      BY SMT, <1>8, <1>9, <2>6 DEF Figure, J
    <3> QED
      BY SMT, <1>1, <1>2, <2>1, <2>2, <2>3, <2>6, <3>1, Powers
  <2>7. CASE first = 3 /\ n = 4
    <3>1. /\ shown[3].digit = W(3) /\ shown[4].digit = W(2) /\ shown[5].digit = W(1)
          /\ shown[6].digit = W(0) /\ shown[7].digit = F(4) /\ decimals = 1
      BY SMT, <1>8, <1>9, <2>7 DEF Figure, J
    <3> QED
      BY SMT, <1>1, <1>2, <2>1, <2>2, <2>3, <2>7, <3>1, Powers
  <2>8. CASE first = 3 /\ n = 5
    <3>1. /\ shown[3].digit = W(4) /\ shown[4].digit = W(3) /\ shown[5].digit = W(2)
          /\ shown[6].digit = W(1) /\ shown[7].digit = W(0) /\ decimals = 0
      BY SMT, <1>8, <1>9, <2>8 DEF Figure, J
    <3> QED
      BY SMT, <1>1, <1>2, <2>1, <2>2, <2>3, <2>8, <3>1, Powers
  <2>9. CASE first = 4 /\ n = 1
    <3>1. /\ shown[3].digit = 0 /\ shown[4].digit = W(0) /\ shown[5].digit = F(4)
          /\ shown[6].digit = F(3) /\ shown[7].digit = F(2) /\ decimals = 3
      BY SMT, <1>8, <1>9, <2>9 DEF Figure, J
    <3> QED
      BY SMT, <1>1, <1>2, <2>1, <2>2, <2>3, <2>9, <3>1, Powers
  <2>10. CASE first = 4 /\ n = 2
    <3>1. /\ shown[3].digit = 0 /\ shown[4].digit = W(1) /\ shown[5].digit = W(0)
          /\ shown[6].digit = F(4) /\ shown[7].digit = F(3) /\ decimals = 2
      BY SMT, <1>8, <1>9, <2>10 DEF Figure, J
    <3> QED
      BY SMT, <1>1, <1>2, <2>1, <2>2, <2>3, <2>10, <3>1, Powers
  <2>11. CASE first = 4 /\ n = 3
    <3>1. /\ shown[3].digit = 0 /\ shown[4].digit = W(2) /\ shown[5].digit = W(1)
          /\ shown[6].digit = W(0) /\ shown[7].digit = F(4) /\ decimals = 1
      BY SMT, <1>8, <1>9, <2>11 DEF Figure, J
    <3> QED
      BY SMT, <1>1, <1>2, <2>1, <2>2, <2>3, <2>11, <3>1, Powers
  <2>12. CASE first = 4 /\ n = 4
    <3>1. /\ shown[3].digit = 0 /\ shown[4].digit = W(3) /\ shown[5].digit = W(2)
          /\ shown[6].digit = W(1) /\ shown[7].digit = W(0) /\ decimals = 0
      BY SMT, <1>8, <1>9, <2>12 DEF Figure, J
    <3> QED
      BY SMT, <1>1, <1>2, <2>1, <2>2, <2>3, <2>12, <3>1, Powers
  <2>13. (first = 3 /\ n \in 1 .. 5) \/ (first = 4 /\ n \in 1 .. 4)
    BY SMT, <1>2, <1>3, <1>11
  <2> QED
    BY SMT, <2>4, <2>5, <2>6, <2>7, <2>8, <2>9, <2>10, <2>11, <2>12, <2>13
<1> QED
  BY <1>7, <1>10, <1>11 DEF first, n, decimals, number

=============================================================================
