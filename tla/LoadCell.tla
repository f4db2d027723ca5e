------------------------------ MODULE LoadCell ------------------------------
(***************************************************************************)
(* The arithmetic of the HX711 driver: what readValue makes of the three   *)
(* bytes it clocks in, and what read_average, get_value and get_units make *)
(* of several readings.                                                    *)
(***************************************************************************)
EXTENDS Integers, FiniteSets

Byte   == 0 .. 255
Bits8  == 256
Bits16 == 256 * 256
Bits24 == 256 * 256 * 256

(* What the converter measures, 24 bits with the sign. *)
Lowest  == -(128 * Bits16)
Highest == 128 * Bits16 - 1
Reading == Lowest .. Highest

(* What it sends: the bytes of the two's complement, highest first. *)
Wire(n) ==
  LET m == n % Bits24
  IN  <<m \div Bits16, (m \div Bits8) % Bits8, m % Bits8>>

(* Fault: the sign is not looked at. *)
FillerUnsigned(msb) == 0

(* The filler 0xFF or 0x00, as the highest byte of a signed long. *)
Filler(msb) == IF msb >= 128 THEN -1 ELSE 0

ReadValue(data) ==
  Filler(data[1]) * Bits24 + data[1] * Bits16 + data[2] * Bits8 + data[3]

(* Division of two longs, which truncates towards zero. *)
Quotient(sum, times) == IF sum >= 0 THEN sum \div times ELSE -((-sum) \div times)

(* get_value, with OFFSET, of an average. *)
GetValue(average, offset) == average - offset

-----------------------------------------------------------------------------
(* get_units: the value over SCALE, a float, of which weighingTask prints   *)
(* the whole part and five decimals.                                       *)

Magnitude(x) == IF x >= 0 THEN x ELSE -x

Decimals == 100 * 1000

Mass ==
  [kind : {"finite", "inf", "nan"}, negative : BOOLEAN, whole : 0 .. Bits24 + 2,
   frac : 0 .. Decimals - 1, zero : BOOLEAN, below_ten : BOOLEAN]

(* The number q + r/k, m times. *)
Scaled(x, m, k) == [q |-> x.q * m + (x.r * m) \div k, r |-> (x.r * m) % k]

(* The nearest whole number to q + r/k, the even one of two. *)
Nearest(x, k) ==
  IF 2 * x.r > k \/ (2 * x.r = k /\ x.q % 2 = 1) THEN x.q + 1 ELSE x.q

(* A float has 24 bits: so many of those of a/k come after the point.  (Of *)
(* less than 2^-8, which is drawn as zero, it has some more.)              *)
FractionBits(a, k) ==
  Cardinality({i \in 0 .. 23 : a \div k < 2 ^ i}) + Cardinality({i \in 1 .. 7 : a * 2 ^ i < k})

(* a/k as a float, in units of its last bit.  (By way of a double, whose   *)
(* own rounding changes nothing for k below 2^29.)                         *)
Significand(a, k) ==
  LET f == FractionBits(a, k)
      x == [q |-> a \div k, r |-> a % k]
  IN  Nearest(Scaled(Scaled(Scaled(x, 2 ^ (f \div 3), k), 2 ^ ((f + 1) \div 3), k),
                     2 ^ ((f + 2) \div 3), k), k)

(* What sprintf makes of a float: its whole part, and the rest of t / 32p  *)
(* times 32 * 25 * 25 * 5, which is 10^5.                                  *)
Printed(a, k) ==
  LET f == FractionBits(a, k)
      g == IF f < 5 THEN 5 ELSE f
      t == Significand(a, k) * 2 ^ (g - f)
      p == 2 ^ (g - 5)
      w == (t \div p) \div 32
      x == [q |-> (t \div p) % 32, r |-> t % p]
      d == Nearest(Scaled(Scaled(Scaled(x, 25, p), 25, p), 5, p), p)
  IN  IF d = Decimals THEN [whole |-> w + 1, frac |-> 0] ELSE [whole |-> w, frac |-> d]

(* A scale of zero: the value is divided as a double. *)
Infinite(value) ==
  [kind |-> IF value = 0 THEN "nan" ELSE "inf", negative |-> value < 0, whole |-> 0, frac |-> 0,
   zero |-> FALSE, below_ten |-> FALSE]

(* How weighingTask sorts the mass: |mass| <= 0.005, and |mass| < 10.      *)
(* (Rounding carries no quotient across these for a factor below 2^25.)    *)
GetUnits(value, scale) ==
  LET a == Magnitude(value)
      k == Magnitude(scale)
      n == Printed(a, k)
  IN  IF scale = 0 THEN Infinite(value)
      ELSE [kind      |-> "finite",
            negative  |-> value # 0 /\ ((value < 0) # (scale < 0)),
            whole     |-> n.whole,
            frac      |-> n.frac,
            zero      |-> a <= k \div 200,
            below_ten |-> a < 10 * k]

=============================================================================
