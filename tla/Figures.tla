------------------------------ MODULE Figures ------------------------------
(***************************************************************************)
(* What weighingTask writes of a mass: the texts, as sprintf formats them, *)
(* and the digits 3 to 7 of the display, as max7219_draw_text_7seg merges  *)
(* each point into the digit before it.                                    *)
(***************************************************************************)
EXTENDS LoadCell

Power10 ==
  LET m == 1000 IN <<1, 10, 100, m, 10 * m, 100 * m, m * m, 10 * m * m, 100 * m * m>>

(* The digits of a whole number below 10^8. *)
NumDigits(w) == CHOOSE n \in 1 .. 8 : w < Power10[n + 1] /\ (n = 1 \/ w >= Power10[n])

(* Digit k of a number, counted from the right from 0. *)
DigitAt(number, k) == (number \div Power10[k + 1]) % 10

(* Fault: two decimals more. *)
DisplaymassLengthSeven(mass) == NumDigits(mass.whole) + 1 + 7

(* The characters of "%2.3f" and, of the magnitude, of "%2.5f", at most. *)
TotalmassLength(mass) == (IF mass.negative THEN 1 ELSE 0) + NumDigits(mass.whole + 1) + 1 + 3

DisplaymassLength(mass) == NumDigits(mass.whole) + 1 + 5

-----------------------------------------------------------------------------
(* Digits of the display *)

(* Places 0 to 2 are only ever written one after the other, all three as   *)
(* letters or all three as blanks: place 2 stands for them.                *)
Place  == 2 .. 7
Figure == 3 .. 7

Blank       == [sign |-> "blank", digit |-> 0, point |-> FALSE]
Minus       == [sign |-> "minus", digit |-> 0, point |-> FALSE]
Letter      == [sign |-> "letter", digit |-> 0, point |-> FALSE]
Stray       == [sign |-> "stray", digit |-> 0, point |-> FALSE]
Num(d, dot) == [sign |-> "digit", digit |-> d, point |-> dot]

Glyph == [sign : {"blank", "minus", "letter", "stray", "digit"}, digit : 0 .. 9, point : BOOLEAN]

(* The text of a mass, drawn from place first: its j-th character that is  *)
(* not the point, which goes with the last digit before it.                *)
TextAt(mass, first, p) ==
  LET n == NumDigits(mass.whole)
      j == p - first + 1
  IN  IF j <= n THEN Num(DigitAt(mass.whole, n - j), j = n)
                ELSE Num(DigitAt(mass.frac, 5 - (j - n)), FALSE)

(* "inf" or "nan", drawn from place first.  The loop does not stop at the  *)
(* end of the text: what follows is read behind the table of segments, or  *)
(* is left in the array of an older text.                                  *)
WordAt(first, p) == IF p - first < 3 THEN Letter ELSE Stray

(* Fault: a negative mass of ten or more takes all five places. *)
DrawingStartUnsigned(mass) == IF mass.below_ten THEN 4 ELSE 3

(* Negative masses are drawn after a minus and those below ten after a     *)
(* blank; the others, and "nan", take five places.                         *)
DrawingStart(mass) == IF mass.negative \/ mass.below_ten THEN 4 ELSE 3

(* What weighingTask writes to place p. *)
Drawing(mass, p) ==
  LET first == DrawingStart(mass)
  IN  CASE mass.zero -> IF p = 7 THEN Num(0, FALSE) ELSE Blank
        [] ~mass.zero /\ p < first  -> IF mass.negative THEN Minus ELSE Blank
        [] ~mass.zero /\ p >= first ->
             IF mass.kind = "finite" THEN TextAt(mass, first, p) ELSE WordAt(first, p)

=============================================================================
