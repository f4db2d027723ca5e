---------------------------- MODULE ReadoutProofs ----------------------------
(***************************************************************************)
(* Readout's safety properties, for every calibration, every set of        *)
(* readings and every number of samples.                                   *)
(***************************************************************************)
EXTENDS Readout, FiguresProofs

(* Every step is one of these. *)
LEMMA NextCases ==
  ASSUME Next
  PROVE  \/ Clear("weighing", "start", "weigh") \/ Clear("weighing", "tare_clear", "weigh")
         \/ Clear("battery", "shown", "unflag") \/ Clear("btc", "clear", "resume")
         \/ DrawWord("weighing", "tare", "tare_begin") \/ DrawWord("battery", "message", "shown")
         \/ DrawWord("btc", "word", "suspend")
         \/ Sample("weighing", "measure") \/ Sample("weighing", "tare_measure")
         \/ Sample("btc", "measure")
         \/ Tare("weighing", "tare_measure", "tared") \/ Tare("btc", "measure", "clear")
         \/ WeighBegin \/ WeighTareBegin \/ BleBegin
         \/ WeighMeasured \/ WeighDraw \/ WeighAgain \/ WeighUnflag \/ ButtonLatched
         \/ LowFlag \/ LowUnflag \/ TareWrite
         \/ Suspend("btc", "suspend", "weighing", "suspend_battery")
         \/ Suspend("btc", "suspend_battery", "battery", "begin")
         \/ Resume("btc", "resume", "weighing", "resume_battery")
         \/ Resume("btc", "resume_battery", "battery", "idle")
         \/ Suspend("battery", "rest", "weighing", "sampling")
         \/ Resume("battery", "sampling", "weighing", "rest")
         \/ Resume("battery", "sampling", "weighing", "low")
BY Zenon DEF Next, WeighingStep, BatteryStep, BtcStep, WeighStart, WeighSaysTare, WeighTared,
             WeighCleared, LowMessage, LowClear, BleWord, BleTared, BleClear, BleSuspend, BleResume,
             BatterySuspend, BatteryResume

LEMMA PcStep ==
  ASSUME TypeOK, PcOK, Next
  PROVE  PcOK'
<1> USE DEF TypeOK, PcOK, At, Goto, Step, Task, Looping, Labels, Place, Numbers, Flags
<1>1. CASE Clear("weighing", "start", "weigh")
  BY SMT, <1>1 DEF Clear
<1>2. CASE Clear("weighing", "tare_clear", "weigh")
  BY SMT, <1>2 DEF Clear
<1>3. CASE Clear("battery", "shown", "unflag")
  BY SMT, <1>3 DEF Clear
<1>4. CASE Clear("btc", "clear", "resume")
  BY SMT, <1>4 DEF Clear
<1>5. CASE DrawWord("weighing", "tare", "tare_begin")
  BY SMT, <1>5 DEF DrawWord
<1>6. CASE DrawWord("battery", "message", "shown")
  BY SMT, <1>6 DEF DrawWord
<1>7. CASE DrawWord("btc", "word", "suspend")
  BY SMT, <1>7 DEF DrawWord
<1>8. CASE Sample("weighing", "measure")
  BY SMT, <1>8 DEF Sample
<1>9. CASE Sample("weighing", "tare_measure")
  BY SMT, <1>9 DEF Sample
<1>10. CASE Sample("btc", "measure")
  BY SMT, <1>10 DEF Sample
<1>11. CASE Tare("weighing", "tare_measure", "tared")
  BY SMT, <1>11 DEF Tare
<1>12. CASE Tare("btc", "measure", "clear")
  BY SMT, <1>12 DEF Tare
<1>13. CASE WeighBegin
  BY SMT, <1>13 DEF WeighBegin, Measure
<1>14. CASE WeighTareBegin
  BY SMT, <1>14 DEF WeighTareBegin, Measure
<1>15. CASE BleBegin
  BY SMT, <1>15 DEF BleBegin, Measure
<1>16. CASE WeighMeasured
  BY SMT, <1>16 DEF WeighMeasured
<1>17. CASE WeighDraw
  BY SMT, <1>17 DEF WeighDraw
<1>18. CASE WeighAgain
  BY SMT, <1>18 DEF WeighAgain
<1>19. CASE WeighUnflag
  BY SMT, <1>19 DEF WeighUnflag
<1>20. CASE ButtonLatched
  BY SMT, <1>20 DEF ButtonLatched
<1>21. CASE LowFlag
  BY SMT, <1>21 DEF LowFlag
<1>22. CASE LowUnflag
  BY SMT, <1>22 DEF LowUnflag
<1>23. CASE TareWrite
  BY SMT, <1>23 DEF TareWrite
<1>24. CASE Suspend("btc", "suspend", "weighing", "suspend_battery")
  BY SMT, <1>24 DEF Suspend
<1>25. CASE Suspend("btc", "suspend_battery", "battery", "begin")
  BY SMT, <1>25 DEF Suspend
<1>26. CASE Resume("btc", "resume", "weighing", "resume_battery")
  BY SMT, <1>26 DEF Resume
<1>27. CASE Resume("btc", "resume_battery", "battery", "idle")
  BY SMT, <1>27 DEF Resume
<1>28. CASE Suspend("battery", "rest", "weighing", "sampling")
  BY SMT, <1>28 DEF Suspend
<1>29. CASE Resume("battery", "sampling", "weighing", "rest")
  BY SMT, <1>29 DEF Resume
<1>30. CASE Resume("battery", "sampling", "weighing", "low")
  BY SMT, <1>30 DEF Resume
<1> QED
  BY ONLY NextCases, Next, <1>1, <1>2, <1>3, <1>4, <1>5, <1>6, <1>7, <1>8, <1>9, <1>10, <1>11,
     <1>12, <1>13, <1>14, <1>15, <1>16, <1>17, <1>18, <1>19, <1>20, <1>21, <1>22, <1>23, <1>24,
     <1>25, <1>26, <1>27,
     <1>28, <1>29, <1>30, Zenon

LEMMA Factors ==
  /\ Times["weigh"] \in Nat /\ Times["weigh"] > 0 /\ Times["weigh"] <= 255
  /\ Times["tare"] \in Nat /\ Times["tare"] > 0 /\ Times["tare"] <= 255
BY SMT, ReadoutAssumption DEF ReadoutAssumption

LEMMA OffsetIsReading ==
  ASSUME SumFits
  PROVE  offset \in Reading /\ offset \in Int /\ Lowest <= offset /\ offset <= Highest
BY ReadingIs DEF SumFits

(* The difference of two readings is a value that makes a mass.            *)
LEMMA ValueMakesMass ==
  ASSUME NEW r \in Reading, NEW o \in Reading, NEW k \in Int
  PROVE  GetUnits(GetValue(r, o), k) \in Mass
<1>1. /\ GetValue(r, o) \in Int
      /\ -Bits24 <= GetValue(r, o) /\ GetValue(r, o) <= Bits24
  BY SMT, ReadingIs, Bounds, Bits DEF GetValue
<1> QED
  BY <1>1, UnitsAreMass

(* An average is of as many samples as were wanted.                        *)
LEMMA AverageIsReading ==
  ASSUME TypeOK, SumFits, NEW t \in Meter, pc[t] \in Measuring, left[t] = 0,
         NEW use \in {"weigh", "tare"}, Wanted(t) = Times[use]
  PROVE  Average(t, use) \in Reading
<1>1. sum[t] \in Int /\ Times[use] \in Nat /\ Times[use] > 0
  BY SMT, Factors DEF TypeOK
<1>2. Lowest * Times[use] <= sum[t] /\ sum[t] <= Highest * Times[use]
  <2>1. LET taken == Wanted(t) - left[t]
        IN  Lowest * taken <= sum[t] /\ sum[t] <= Highest * taken
    BY Zenon DEF SumFits
  <2>2. Wanted(t) - left[t] = Times[use]
    BY SMT, <1>1
  <2> QED
    BY <2>1, <2>2
<1> QED
  BY <1>1, <1>2, QuotientIsReading DEF Average

LEMMA GlyphsAre == Blank \in Glyph /\ Letter \in Glyph
BY SMT DEF Blank, Letter, Glyph

LEMMA TypeStep ==
  ASSUME TypeOK, PcOK, SumFits, Next
  PROVE  TypeOK'
<1>0. \A l : l \in Label <=> \/ l \in Labels["weighing"] \/ l \in Labels["battery"] \/ l \in Labels["btc"]
  BY DEF Label, Task
<1> USE <1>0 DEF TypeOK, At, Goto, Step, Task, Place, Numbers, Flags, Meter, Labels
<1>1. CASE Clear("weighing", "start", "weigh")
  BY SMT, <1>1, GlyphsAre DEF Clear, Put
<1>2. CASE Clear("weighing", "tare_clear", "weigh")
  BY SMT, <1>2, GlyphsAre DEF Clear, Put
<1>3. CASE Clear("battery", "shown", "unflag")
  BY SMT, <1>3, GlyphsAre DEF Clear, Put
<1>4. CASE Clear("btc", "clear", "resume")
  BY SMT, <1>4, GlyphsAre DEF Clear, Put
<1>5. CASE DrawWord("weighing", "tare", "tare_begin")
  BY SMT, <1>5, GlyphsAre DEF DrawWord, Put
<1>6. CASE DrawWord("battery", "message", "shown")
  BY SMT, <1>6, GlyphsAre DEF DrawWord, Put
<1>7. CASE DrawWord("btc", "word", "suspend")
  BY SMT, <1>7, GlyphsAre DEF DrawWord, Put
<1>8. CASE Sample("weighing", "measure")
  <2>1. \A c \in cells : ReadValue(Wire(c)) \in Int
    BY SMT, ReadsWire, ReadingIs
  <2>2. PICK c \in cells : sum' = [sum EXCEPT !["weighing"] = @ + ReadValue(Wire(c))]
    BY <1>8 DEF Sample
  <2> QED
    BY SMT, <1>8, <2>1, <2>2 DEF Sample
<1>9. CASE Sample("weighing", "tare_measure")
  <2>1. \A c \in cells : ReadValue(Wire(c)) \in Int
    BY SMT, ReadsWire, ReadingIs
  <2>2. PICK c \in cells : sum' = [sum EXCEPT !["weighing"] = @ + ReadValue(Wire(c))]
    BY <1>9 DEF Sample
  <2> QED
    BY SMT, <1>9, <2>1, <2>2 DEF Sample
<1>10. CASE Sample("btc", "measure")
  <2>1. \A c \in cells : ReadValue(Wire(c)) \in Int
    BY SMT, ReadsWire, ReadingIs
  <2>2. PICK c \in cells : sum' = [sum EXCEPT !["btc"] = @ + ReadValue(Wire(c))]
    BY <1>10 DEF Sample
  <2> QED
    BY SMT, <1>10, <2>1, <2>2 DEF Sample
<1>11. CASE Tare("weighing", "tare_measure", "tared")
  <2>1. Average("weighing", "tare") \in Reading
    BY SMT, <1>11, AverageIsReading DEF Tare, Measuring, Wanted
  <2>2. Average("weighing", "tare") \in Int
    BY <2>1, ReadingIs
  <2> QED
    BY SMT, <1>11, <2>2 DEF Tare
<1>12. CASE Tare("btc", "measure", "clear")
  <2>1. Average("btc", "tare") \in Reading
    BY SMT, <1>12, AverageIsReading DEF Tare, Measuring, Wanted
  <2>2. Average("btc", "tare") \in Int
    BY <2>1, ReadingIs
  <2> QED
    BY SMT, <1>12, <2>2 DEF Tare
<1>13. CASE WeighBegin
  BY SMT, <1>13, Factors DEF WeighBegin, Measure
<1>14. CASE WeighTareBegin
  BY SMT, <1>14, Factors DEF WeighTareBegin, Measure
<1>15. CASE BleBegin
  BY SMT, <1>15, Factors DEF BleBegin, Measure
<1>16. CASE WeighMeasured
  <2>1. Average("weighing", "weigh") \in Reading
    BY SMT, <1>16, AverageIsReading DEF WeighMeasured, Measuring, Wanted
  <2>2. GetUnits(GetValue(Average("weighing", "weigh"), offset), scale) \in Mass
    BY <2>1, OffsetIsReading, ValueMakesMass
  <2> QED
    <3>1. CASE displaying_batt_low
      BY SMT, <1>16, <3>1 DEF WeighMeasured
    <3>2. CASE ~displaying_batt_low
      <4>1. /\ mass' \in Mass /\ touched' \in BOOLEAN
            /\ pc' = [pc EXCEPT !["weighing"] = "draw"] /\ cursor' = [cursor EXCEPT !["weighing"] = 3]
            /\ sum' = [sum EXCEPT !["weighing"] = 0]
            /\ UNCHANGED <<cells, scale, offset, suspended, left, tare_flag, displaying_batt_low, screen>>
        BY Zenon, <1>16, <2>2, <3>2 DEF WeighMeasured
      <4> QED
        BY SMT, <4>1
    <3> QED
      BY <3>1, <3>2
<1>17. CASE WeighDraw
  <2>1. cursor["weighing"] \in Figure
    BY SMT, <1>17 DEF PcOK, WeighDraw, Figure
  <2>2. Drawing(mass, cursor["weighing"]) \in Glyph
    BY <2>1, DrawingIsGlyph
  <2> QED
    BY SMT, <1>17, <2>2 DEF WeighDraw, Put
<1>18. CASE WeighAgain
  BY SMT, <1>18 DEF WeighAgain
<1>19. CASE WeighUnflag
  <2>1. /\ tare_flag' \in BOOLEAN /\ pc' = [pc EXCEPT !["weighing"] = "tare_clear"]
        /\ UNCHANGED <<cells, scale, offset, mass, sum, left, suspended, cursor, displaying_batt_low, screen, touched>>
    BY Zenon, <1>19 DEF WeighUnflag
  <2> QED
    BY SMT, <2>1
<1>20. CASE ButtonLatched
  BY SMT, <1>20 DEF ButtonLatched
<1>21. CASE LowFlag
  BY SMT, <1>21 DEF LowFlag
<1>22. CASE LowUnflag
  <2>1. /\ displaying_batt_low' \in BOOLEAN /\ pc' = [pc EXCEPT !["battery"] = "rest"]
        /\ UNCHANGED <<cells, scale, offset, mass, sum, left, suspended, cursor, tare_flag, screen, touched>>
    BY Zenon, <1>22 DEF LowUnflag
  <2> QED
    BY SMT, <2>1
<1>23. CASE TareWrite
  BY SMT, <1>23 DEF TareWrite
<1>24. CASE Suspend("btc", "suspend", "weighing", "suspend_battery")
  BY SMT, <1>24 DEF Suspend
<1>25. CASE Suspend("btc", "suspend_battery", "battery", "begin")
  BY SMT, <1>25 DEF Suspend
<1>26. CASE Resume("btc", "resume", "weighing", "resume_battery")
  BY SMT, <1>26 DEF Resume
<1>27. CASE Resume("btc", "resume_battery", "battery", "idle")
  BY SMT, <1>27 DEF Resume
<1>28. CASE Suspend("battery", "rest", "weighing", "sampling")
  BY SMT, <1>28 DEF Suspend
<1>29. CASE Resume("battery", "sampling", "weighing", "rest")
  BY SMT, <1>29 DEF Resume
<1>30. CASE Resume("battery", "sampling", "weighing", "low")
  BY SMT, <1>30 DEF Resume
<1> QED
  BY ONLY NextCases, Next, <1>1, <1>2, <1>3, <1>4, <1>5, <1>6, <1>7, <1>8, <1>9, <1>10, <1>11,
     <1>12, <1>13, <1>14, <1>15, <1>16, <1>17, <1>18, <1>19, <1>20, <1>21, <1>22, <1>23, <1>24,
     <1>25, <1>26, <1>27,
     <1>28, <1>29, <1>30, Zenon

-----------------------------------------------------------------------------
(* The sums *)

(* What a step can do to a task's average: nothing, begin it, add a        *)
(* reading, or be done with it.                                            *)
LEMMA MeterCases ==
  ASSUME TypeOK, PcOK, Next
  PROVE  \A t \in Meter :
           \/ pc'[t] \notin Measuring
           \/ pc'[t] = pc[t] /\ sum'[t] = sum[t] /\ left'[t] = left[t]
           \/ left'[t] = Wanted(t)' /\ sum'[t] = 0
           \/ /\ pc'[t] = pc[t] /\ left[t] > 0 /\ left'[t] = left[t] - 1
              /\ \E c \in Reading : sum'[t] = sum[t] + c
<1> USE DEF TypeOK, At, Goto, Step, Task, Place, Numbers, Flags, Meter, Labels, Measuring
<1>1. CASE Clear("weighing", "start", "weigh")
  BY SMT, <1>1 DEF Clear
<1>2. CASE Clear("weighing", "tare_clear", "weigh")
  BY SMT, <1>2 DEF Clear
<1>3. CASE Clear("battery", "shown", "unflag")
  BY SMT, <1>3 DEF Clear
<1>4. CASE Clear("btc", "clear", "resume")
  BY SMT, <1>4 DEF Clear
<1>5. CASE DrawWord("weighing", "tare", "tare_begin")
  BY SMT, <1>5 DEF DrawWord
<1>6. CASE DrawWord("battery", "message", "shown")
  BY SMT, <1>6 DEF DrawWord
<1>7. CASE DrawWord("btc", "word", "suspend")
  BY SMT, <1>7 DEF DrawWord
<1>8. CASE Sample("weighing", "measure")
  <2>1. PICK c \in cells : sum' = [sum EXCEPT !["weighing"] = @ + ReadValue(Wire(c))]
    BY <1>8 DEF Sample
  <2>2. c \in Reading /\ ReadValue(Wire(c)) = c
    BY ReadsWire
  <2>3. sum' = [sum EXCEPT !["weighing"] = @ + c]
    BY <2>1, <2>2
  <2> QED
    BY SMT, <1>8, <2>2, <2>3 DEF Sample
<1>9. CASE Sample("weighing", "tare_measure")
  <2>1. PICK c \in cells : sum' = [sum EXCEPT !["weighing"] = @ + ReadValue(Wire(c))]
    BY <1>9 DEF Sample
  <2>2. c \in Reading /\ ReadValue(Wire(c)) = c
    BY ReadsWire
  <2>3. sum' = [sum EXCEPT !["weighing"] = @ + c]
    BY <2>1, <2>2
  <2> QED
    BY SMT, <1>9, <2>2, <2>3 DEF Sample
<1>10. CASE Sample("btc", "measure")
  <2>1. PICK c \in cells : sum' = [sum EXCEPT !["btc"] = @ + ReadValue(Wire(c))]
    BY <1>10 DEF Sample
  <2>2. c \in Reading /\ ReadValue(Wire(c)) = c
    BY ReadsWire
  <2>3. sum' = [sum EXCEPT !["btc"] = @ + c]
    BY <2>1, <2>2
  <2> QED
    BY SMT, <1>10, <2>2, <2>3 DEF Sample
<1>11. CASE Tare("weighing", "tare_measure", "tared")
  BY SMT, <1>11 DEF Tare
<1>12. CASE Tare("btc", "measure", "clear")
  BY SMT, <1>12 DEF Tare
<1>13. CASE WeighBegin
  BY SMT, <1>13 DEF WeighBegin, Measure, Wanted
<1>14. CASE WeighTareBegin
  BY SMT, <1>14 DEF WeighTareBegin, Measure, Wanted
<1>15. CASE BleBegin
  BY SMT, <1>15 DEF BleBegin, Measure, Wanted
<1>16. CASE WeighMeasured
  BY SMT, <1>16 DEF WeighMeasured
<1>17. CASE WeighDraw
  BY SMT, <1>17 DEF WeighDraw
<1>18. CASE WeighAgain
  BY SMT, <1>18 DEF WeighAgain
<1>19. CASE WeighUnflag
  BY SMT, <1>19 DEF WeighUnflag
<1>20. CASE ButtonLatched
  BY SMT, <1>20 DEF ButtonLatched
<1>21. CASE LowFlag
  BY SMT, <1>21 DEF LowFlag
<1>22. CASE LowUnflag
  BY SMT, <1>22 DEF LowUnflag
<1>23. CASE TareWrite
  BY SMT, <1>23 DEF TareWrite
<1>24. CASE Suspend("btc", "suspend", "weighing", "suspend_battery")
  BY SMT, <1>24 DEF Suspend
<1>25. CASE Suspend("btc", "suspend_battery", "battery", "begin")
  BY SMT, <1>25 DEF Suspend
<1>26. CASE Resume("btc", "resume", "weighing", "resume_battery")
  BY SMT, <1>26 DEF Resume
<1>27. CASE Resume("btc", "resume_battery", "battery", "idle")
  BY SMT, <1>27 DEF Resume
<1>28. CASE Suspend("battery", "rest", "weighing", "sampling")
  BY SMT, <1>28 DEF Suspend
<1>29. CASE Resume("battery", "sampling", "weighing", "rest")
  BY SMT, <1>29 DEF Resume
<1>30. CASE Resume("battery", "sampling", "weighing", "low")
  BY SMT, <1>30 DEF Resume
<1> QED
  BY ONLY NextCases, Next, <1>1, <1>2, <1>3, <1>4, <1>5, <1>6, <1>7, <1>8, <1>9, <1>10, <1>11,
     <1>12, <1>13, <1>14, <1>15, <1>16, <1>17, <1>18, <1>19, <1>20, <1>21, <1>22, <1>23, <1>24,
     <1>25, <1>26, <1>27,
     <1>28, <1>29, <1>30, Zenon

(* OFFSET is always an average.                                            *)
LEMMA OffsetStep ==
  ASSUME TypeOK, SumFits, Next
  PROVE  offset' \in Reading
<1>1. offset \in Reading
  BY DEF SumFits
<1>2. ASSUME NEW t \in Meter, NEW label, NEW next, Tare(t, label, next),
             label \in Measuring, Wanted(t) = Times["tare"]
      PROVE  offset' \in Reading
  BY Zenon, <1>2, AverageIsReading DEF Tare, At
<1>3. CASE WeighMeasured
  BY Zenon, <1>1, <1>3 DEF WeighMeasured
<1>4. CASE Clear("weighing", "start", "weigh")
  BY Zenon, <1>1, <1>4 DEF Clear, Numbers
<1>5. CASE Clear("weighing", "tare_clear", "weigh")
  BY Zenon, <1>1, <1>5 DEF Clear, Numbers
<1>6. CASE Clear("battery", "shown", "unflag")
  BY Zenon, <1>1, <1>6 DEF Clear, Numbers
<1>7. CASE Clear("btc", "clear", "resume")
  BY Zenon, <1>1, <1>7 DEF Clear, Numbers
<1>8. CASE DrawWord("weighing", "tare", "tare_begin")
  BY Zenon, <1>1, <1>8 DEF DrawWord, Numbers
<1>9. CASE DrawWord("battery", "message", "shown")
  BY Zenon, <1>1, <1>9 DEF DrawWord, Numbers
<1>10. CASE DrawWord("btc", "word", "suspend")
  BY Zenon, <1>1, <1>10 DEF DrawWord, Numbers
<1>11. CASE Sample("weighing", "measure")
  BY Zenon, <1>1, <1>11 DEF Sample, Numbers
<1>12. CASE Sample("weighing", "tare_measure")
  BY Zenon, <1>1, <1>12 DEF Sample, Numbers
<1>13. CASE Sample("btc", "measure")
  BY Zenon, <1>1, <1>13 DEF Sample, Numbers
<1>14. CASE Tare("weighing", "tare_measure", "tared")
  <2>1. Wanted("weighing") = Times["tare"] /\ "weighing" \in Meter /\ "tare_measure" \in Measuring
    BY SMT, <1>14 DEF Wanted, Meter, Measuring, Tare, At
  <2> QED
    BY Zenon, <1>1, <1>2, <2>1, <1>14
<1>15. CASE Tare("btc", "measure", "clear")
  <2>1. Wanted("btc") = Times["tare"] /\ "btc" \in Meter /\ "measure" \in Measuring
    BY SMT, <1>15 DEF Wanted, Meter, Measuring, Tare, At
  <2> QED
    BY Zenon, <1>1, <1>2, <2>1, <1>15
<1>16. CASE WeighBegin
  BY Zenon, <1>1, <1>16 DEF WeighBegin, Numbers
<1>17. CASE WeighTareBegin
  BY Zenon, <1>1, <1>17 DEF WeighTareBegin, Numbers
<1>18. CASE BleBegin
  BY Zenon, <1>1, <1>18 DEF BleBegin, Numbers
<1>19. CASE WeighDraw
  BY Zenon, <1>1, <1>19 DEF WeighDraw, Numbers
<1>20. CASE WeighAgain
  BY Zenon, <1>1, <1>20 DEF WeighAgain, Numbers
<1>21. CASE WeighUnflag
  BY Zenon, <1>1, <1>21 DEF WeighUnflag, Numbers
<1>22. CASE ButtonLatched
  BY Zenon, <1>1, <1>22 DEF ButtonLatched, Numbers
<1>23. CASE LowFlag
  BY Zenon, <1>1, <1>23 DEF LowFlag, Numbers
<1>24. CASE LowUnflag
  BY Zenon, <1>1, <1>24 DEF LowUnflag, Numbers
<1>25. CASE TareWrite
  BY Zenon, <1>1, <1>25 DEF TareWrite, Numbers
<1>26. CASE Suspend("btc", "suspend", "weighing", "suspend_battery")
  BY Zenon, <1>1, <1>26 DEF Suspend, Numbers
<1>27. CASE Suspend("btc", "suspend_battery", "battery", "begin")
  BY Zenon, <1>1, <1>27 DEF Suspend, Numbers
<1>28. CASE Resume("btc", "resume", "weighing", "resume_battery")
  BY Zenon, <1>1, <1>28 DEF Resume, Numbers
<1>29. CASE Resume("btc", "resume_battery", "battery", "idle")
  BY Zenon, <1>1, <1>29 DEF Resume, Numbers
<1>30. CASE Suspend("battery", "rest", "weighing", "sampling")
  BY Zenon, <1>1, <1>30 DEF Suspend, Numbers
<1>31. CASE Resume("battery", "sampling", "weighing", "rest")
  BY Zenon, <1>1, <1>31 DEF Resume, Numbers
<1>32. CASE Resume("battery", "sampling", "weighing", "low")
  BY Zenon, <1>1, <1>32 DEF Resume, Numbers
<1> QED
  BY ONLY NextCases, Next, <1>4, <1>5, <1>6, <1>7, <1>8, <1>9, <1>10, <1>11, <1>12, <1>13,
     <1>14, <1>15, <1>16, <1>17, <1>18, <1>3, <1>19, <1>20, <1>21, <1>22, <1>23, <1>24, <1>25,
     <1>26, <1>27, <1>28, <1>29,
     <1>30, <1>31, <1>32, Zenon

LEMMA SumStep ==
  ASSUME TypeOK, PcOK, SumFits, Next, TypeOK'
  PROVE  SumFits'
<1> DEFINE Taken(t) == Wanted(t) - left[t]
<1>1. ASSUME NEW t \in Meter, pc'[t] \in Measuring
      PROVE  /\ Taken(t)' \in 0 .. 255
             /\ Lowest * Taken(t)' <= sum'[t] /\ sum'[t] <= Highest * Taken(t)'
  <2>1. /\ Wanted(t) \in Nat /\ Wanted(t) <= 255 /\ Wanted(t)' \in Nat
        /\ left[t] \in Nat /\ left'[t] \in Nat /\ sum[t] \in Int
    <3>1. /\ Wanted(t) \in {Times["weigh"], Times["tare"]}
          /\ Wanted(t)' \in {Times["weigh"], Times["tare"]}
      BY Zenon DEF Wanted
    <3>2. left[t] \in 0 .. 255 /\ left'[t] \in 0 .. 255 /\ sum[t] \in Int
      BY Zenon DEF TypeOK
    <3> QED
      BY SMT, <3>1, <3>2, Factors
  <2>2. pc[t] \in Measuring =>
          /\ Taken(t) \in 0 .. 255
          /\ Lowest * Taken(t) <= sum[t] /\ sum[t] <= Highest * Taken(t)
    BY Zenon DEF SumFits
  <2>3. pc'[t] = pc[t] => Wanted(t)' = Wanted(t)
    BY Zenon DEF Wanted
  <2>4. CASE pc'[t] = pc[t] /\ sum'[t] = sum[t] /\ left'[t] = left[t]
    BY Zenon, <1>1, <2>2, <2>3, <2>4
  <2>5. CASE left'[t] = Wanted(t)' /\ sum'[t] = 0
    <3>1. Taken(t)' = 0
      BY SMT, <2>1, <2>5
    <3> HIDE DEF Taken
    <3> QED
      BY SMT, <2>5, <3>1, Bounds
  <2>6. CASE /\ pc'[t] = pc[t] /\ left[t] > 0 /\ left'[t] = left[t] - 1
             /\ \E c \in Reading : sum'[t] = sum[t] + c
    <3>1. PICK c \in Reading : sum'[t] = sum[t] + c
      BY <2>6
    <3>2. Taken(t)' = Taken(t) + 1 /\ Taken(t) \in Int /\ Taken(t) >= 0 /\ Taken(t)' \in 0 .. 255
      BY SMT, <1>1, <2>1, <2>2, <2>3, <2>6
    <3>3. Lowest * Taken(t) <= sum[t] /\ sum[t] <= Highest * Taken(t)
      BY <1>1, <2>2, <2>6
    <3>4. c \in Int /\ Lowest <= c /\ c <= Highest
      BY ReadingIs
    <3> HIDE DEF Taken
    <3>5. Lowest * Taken(t)' = Lowest * Taken(t) + Lowest /\ Highest * Taken(t)' = Highest * Taken(t) + Highest
      BY SMT, <3>2, Bounds
    <3> DEFINE lo == Lowest * Taken(t)
               hi == Highest * Taken(t)
    <3>6. lo \in Int /\ hi \in Int
      BY SMT, <3>2, Bounds
    <3> HIDE DEF lo, hi
    <3>7. lo + Lowest <= sum[t] + c /\ sum[t] + c <= hi + Highest
      BY SMT, <2>1, <3>3, <3>4, <3>6, Bounds DEF lo, hi
    <3> QED
      BY <3>1, <3>2, <3>5, <3>7 DEF lo, hi
  <2> QED
    BY Zenon, <1>1, <2>4, <2>5, <2>6, MeterCases
<1>2. offset' \in Reading
  BY OffsetStep
<1> QED
  BY Zenon, <1>1, <1>2 DEF SumFits

-----------------------------------------------------------------------------
(* The places *)

LEMMA PlacesStep ==
  ASSUME TypeOK, PcOK, PlacesOK, Next
  PROVE  PlacesOK'
<1> SUFFICES ASSUME NEW p \in Place PROVE PlaceOK(p)'
  BY DEF PlacesOK
<1>1. ToBeCleared(p) <=>
        \/ pc["weighing"] \in {"tare", "tare_begin", "tare_measure", "tared"}
        \/ pc["weighing"] \in {"start", "tare_clear"} /\ p <= 9 - cursor["weighing"]
        \/ pc["battery"] = "message" \/ (pc["battery"] = "shown" /\ p <= 9 - cursor["battery"])
        \/ pc["btc"] \in {"word", "suspend", "suspend_battery", "begin", "measure"}
        \/ pc["btc"] = "clear" /\ p <= 9 - cursor["btc"]
  BY SMT DEF ToBeCleared, WillClear, Clears, Task
<1>2. ToBeCleared(p)' <=>
        \/ pc'["weighing"] \in {"tare", "tare_begin", "tare_measure", "tared"}
        \/ pc'["weighing"] \in {"start", "tare_clear"} /\ p <= 9 - cursor'["weighing"]
        \/ pc'["battery"] = "message" \/ (pc'["battery"] = "shown" /\ p <= 9 - cursor'["battery"])
        \/ pc'["btc"] \in {"word", "suspend", "suspend_battery", "begin", "measure"}
        \/ pc'["btc"] = "clear" /\ p <= 9 - cursor'["btc"]
  BY SMT DEF ToBeCleared, WillClear, Clears, Task
<1>3. PlaceOK(p)
  BY DEF PlacesOK
<1> USE DEF TypeOK, At, Goto, Step, Task, Place, Figure, Numbers, Flags, PlaceOK, ToBeDrawn
<1>4. CASE Clear("weighing", "start", "weigh")
  BY SMT, <1>1, <1>2, <1>3, <1>4 DEF Clear, Put, PcOK, Looping
<1>5. CASE Clear("weighing", "tare_clear", "weigh")
  BY SMT, <1>1, <1>2, <1>3, <1>5 DEF Clear, Put, PcOK, Looping
<1>6. CASE Clear("battery", "shown", "unflag")
  BY SMT, <1>1, <1>2, <1>3, <1>6 DEF Clear, Put, PcOK, Looping
<1>7. CASE Clear("btc", "clear", "resume")
  BY SMT, <1>1, <1>2, <1>3, <1>7 DEF Clear, Put, PcOK, Looping
<1>8. CASE DrawWord("weighing", "tare", "tare_begin")
  BY SMT, <1>1, <1>2, <1>3, <1>8 DEF DrawWord, Put, PcOK, Looping
<1>9. CASE DrawWord("battery", "message", "shown")
  BY SMT, <1>1, <1>2, <1>3, <1>9 DEF DrawWord, Put, PcOK, Looping
<1>10. CASE DrawWord("btc", "word", "suspend")
  BY SMT, <1>1, <1>2, <1>3, <1>10 DEF DrawWord, Put, PcOK, Looping
<1>11. CASE Sample("weighing", "measure")
  BY SMT, <1>1, <1>2, <1>3, <1>11 DEF Sample
<1>12. CASE Sample("weighing", "tare_measure")
  BY SMT, <1>1, <1>2, <1>3, <1>12 DEF Sample
<1>13. CASE Sample("btc", "measure")
  BY SMT, <1>1, <1>2, <1>3, <1>13 DEF Sample
<1>14. CASE Tare("weighing", "tare_measure", "tared")
  BY SMT, <1>1, <1>2, <1>3, <1>14 DEF Tare, PcOK, Looping
<1>15. CASE Tare("btc", "measure", "clear")
  BY SMT, <1>1, <1>2, <1>3, <1>15 DEF Tare, PcOK, Looping
<1>16. CASE WeighBegin
  BY SMT, <1>1, <1>2, <1>3, <1>16 DEF WeighBegin
<1>17. CASE WeighTareBegin
  BY SMT, <1>1, <1>2, <1>3, <1>17 DEF WeighTareBegin
<1>18. CASE BleBegin
  BY SMT, <1>1, <1>2, <1>3, <1>18 DEF BleBegin
<1>19. CASE WeighMeasured
  BY SMT, <1>1, <1>2, <1>3, <1>19 DEF WeighMeasured
<1>20. CASE WeighDraw
  <2> DEFINE d == Drawing(mass, cursor["weighing"])
  <2>1. /\ screen' = [screen EXCEPT ![cursor["weighing"]] = d]
        /\ Step("weighing", "pause") /\ pc["weighing"] = "draw"
        /\ UNCHANGED mass
    BY Zenon, <1>20 DEF WeighDraw, Put
  <2>2. cursor["weighing"] \in 3 .. 7
    BY SMT, <2>1 DEF PcOK
  <2>3. CASE p = cursor["weighing"]
    BY SMT, <2>1, <2>2, <2>3
  <2>4. CASE p # cursor["weighing"]
    <3> HIDE DEF d
    <3>1. screen'[p] = screen[p]
      BY SMT, <2>1, <2>4
    <3>2. ToBeCleared(p) => ToBeCleared(p)'
      BY SMT, <1>1, <1>2, <2>1
    <3>3. ToBeDrawn(p) => ToBeDrawn(p)'
      BY SMT, <2>1, <2>2, <2>4
    <3> QED
      BY Zenon, <1>3, <2>1, <3>1, <3>2, <3>3
  <2> QED
    BY <2>3, <2>4
<1>21. CASE WeighAgain
  BY SMT, <1>1, <1>2, <1>3, <1>21 DEF WeighAgain
<1>22. CASE WeighUnflag
  <2>1. /\ pc["weighing"] = "tared" /\ pc' = [pc EXCEPT !["weighing"] = "tare_clear"]
        /\ UNCHANGED <<cursor, mass, screen>>
    BY Zenon, <1>22 DEF WeighUnflag
  <2> QED
    BY SMT, <1>1, <1>2, <1>3, <2>1 DEF PcOK, Looping
<1>23. CASE ButtonLatched
  BY SMT, <1>1, <1>2, <1>3, <1>23 DEF ButtonLatched
<1>24. CASE LowFlag
  BY SMT, <1>1, <1>2, <1>3, <1>24 DEF LowFlag
<1>25. CASE LowUnflag
  BY SMT, <1>1, <1>2, <1>3, <1>25 DEF LowUnflag
<1>26. CASE TareWrite
  BY SMT, <1>1, <1>2, <1>3, <1>26 DEF TareWrite
<1>27. CASE Suspend("btc", "suspend", "weighing", "suspend_battery")
  BY SMT, <1>1, <1>2, <1>3, <1>27 DEF Suspend
<1>28. CASE Suspend("btc", "suspend_battery", "battery", "begin")
  BY SMT, <1>1, <1>2, <1>3, <1>28 DEF Suspend
<1>29. CASE Resume("btc", "resume", "weighing", "resume_battery")
  BY SMT, <1>1, <1>2, <1>3, <1>29 DEF Resume
<1>30. CASE Resume("btc", "resume_battery", "battery", "idle")
  BY SMT, <1>1, <1>2, <1>3, <1>30 DEF Resume
<1>31. CASE Suspend("battery", "rest", "weighing", "sampling")
  BY SMT, <1>1, <1>2, <1>3, <1>31 DEF Suspend
<1>32. CASE Resume("battery", "sampling", "weighing", "rest")
  BY SMT, <1>1, <1>2, <1>3, <1>32 DEF Resume
<1>33. CASE Resume("battery", "sampling", "weighing", "low")
  BY SMT, <1>1, <1>2, <1>3, <1>33 DEF Resume
<1> QED
  BY ONLY NextCases, Next, <1>4, <1>5, <1>6, <1>7, <1>8, <1>9, <1>10, <1>11, <1>12, <1>13,
     <1>14, <1>15, <1>16, <1>17, <1>18, <1>19, <1>20, <1>21, <1>22, <1>23, <1>24, <1>25, <1>26,
     <1>27, <1>28, <1>29, <1>30,
     <1>31, <1>32, <1>33, Zenon

LEMMA FigureStep ==
  ASSUME TypeOK, PcOK, FigureOK, Next
  PROVE  FigureOK'
<1> SUFFICES ASSUME ~touched'
             PROVE  /\ pc'["weighing"] \in {"draw", "pause", "weigh", "measure", "tare"}
                    /\ \A p \in Figure : Drawn(p)' => screen'[p] = Drawing(mass, p)'
  BY DEF FigureOK
<1>1. ~touched => /\ pc["weighing"] \in {"draw", "pause", "weigh", "measure", "tare"}
                  /\ \A p \in Figure : Drawn(p) => screen[p] = Drawing(mass, p)
  BY DEF FigureOK
<1> USE DEF TypeOK, At, Goto, Step, Task, Place, Figure, Numbers, Flags, Drawn
<1>2. CASE Clear("weighing", "start", "weigh")
  BY Zenon, <1>2 DEF Clear
<1>3. CASE Clear("weighing", "tare_clear", "weigh")
  BY Zenon, <1>3 DEF Clear
<1>4. CASE Clear("battery", "shown", "unflag")
  BY Zenon, <1>4 DEF Clear
<1>5. CASE Clear("btc", "clear", "resume")
  BY Zenon, <1>5 DEF Clear
<1>6. CASE DrawWord("weighing", "tare", "tare_begin")
  BY Zenon, <1>6 DEF DrawWord
<1>7. CASE DrawWord("battery", "message", "shown")
  BY Zenon, <1>7 DEF DrawWord
<1>8. CASE DrawWord("btc", "word", "suspend")
  BY Zenon, <1>8 DEF DrawWord
<1>9. CASE Sample("weighing", "measure")
  BY SMT, <1>1, <1>9 DEF Sample
<1>10. CASE Sample("weighing", "tare_measure")
  BY SMT, <1>1, <1>10 DEF Sample
<1>11. CASE Sample("btc", "measure")
  BY SMT, <1>1, <1>11 DEF Sample
<1>12. CASE Tare("weighing", "tare_measure", "tared")
  BY SMT, <1>1, <1>12 DEF Tare
<1>13. CASE Tare("btc", "measure", "clear")
  BY SMT, <1>1, <1>13 DEF Tare
<1>14. CASE WeighBegin
  BY SMT, <1>1, <1>14 DEF WeighBegin
<1>15. CASE WeighTareBegin
  BY SMT, <1>1, <1>15 DEF WeighTareBegin
<1>16. CASE BleBegin
  BY SMT, <1>1, <1>16 DEF BleBegin
<1>17. CASE WeighMeasured
  <2>1. CASE displaying_batt_low
    BY SMT, <1>1, <1>17, <2>1 DEF WeighMeasured
  <2>2. CASE ~displaying_batt_low
    <3>1. /\ pc' = [pc EXCEPT !["weighing"] = "draw"] /\ cursor' = [cursor EXCEPT !["weighing"] = 3]
      BY Zenon, <1>17, <2>2 DEF WeighMeasured
    <3> QED
      BY SMT, <3>1
  <2> QED
    BY <2>1, <2>2
<1>18. CASE WeighDraw
  <2> DEFINE d == Drawing(mass, cursor["weighing"])
  <2>1. /\ screen' = [screen EXCEPT ![cursor["weighing"]] = d]
        /\ Step("weighing", "pause") /\ pc["weighing"] = "draw"
        /\ UNCHANGED <<mass, touched>>
    BY Zenon, <1>18 DEF WeighDraw, Put
  <2>2. pc'["weighing"] \in {"draw", "pause"}
    BY SMT, <2>1
  <2>3. ASSUME NEW p \in Figure, Drawn(p)' PROVE screen'[p] = Drawing(mass, p)
    <3>1. CASE p = cursor["weighing"]
      BY SMT, <2>1, <3>1
    <3>2. CASE p # cursor["weighing"]
      <4> HIDE DEF d
      <4>1. screen'[p] = screen[p]
        BY SMT, <2>1, <3>2
      <4>2. Drawn(p)
        BY SMT, <2>1, <2>3, <3>2
      <4> QED
        BY Zenon, <1>1, <2>1, <4>1, <4>2
    <3> QED
      BY <3>1, <3>2
  <2> QED
    BY Zenon, <2>1, <2>2, <2>3
<1>19. CASE WeighAgain
  BY SMT, <1>1, <1>19 DEF WeighAgain
<1>20. CASE WeighUnflag
  <2>1. /\ pc["weighing"] = "tared" /\ UNCHANGED touched
    BY Zenon, <1>20 DEF WeighUnflag
  <2> QED
    BY SMT, <1>1, <2>1
<1>21. CASE ButtonLatched
  BY SMT, <1>1, <1>21 DEF ButtonLatched
<1>22. CASE LowFlag
  BY SMT, <1>1, <1>22 DEF LowFlag
<1>23. CASE LowUnflag
  BY SMT, <1>1, <1>23 DEF LowUnflag
<1>24. CASE TareWrite
  BY SMT, <1>1, <1>24 DEF TareWrite
<1>25. CASE Suspend("btc", "suspend", "weighing", "suspend_battery")
  BY SMT, <1>1, <1>25 DEF Suspend
<1>26. CASE Suspend("btc", "suspend_battery", "battery", "begin")
  BY SMT, <1>1, <1>26 DEF Suspend
<1>27. CASE Resume("btc", "resume", "weighing", "resume_battery")
  BY SMT, <1>1, <1>27 DEF Resume
<1>28. CASE Resume("btc", "resume_battery", "battery", "idle")
  BY SMT, <1>1, <1>28 DEF Resume
<1>29. CASE Suspend("battery", "rest", "weighing", "sampling")
  BY SMT, <1>1, <1>29 DEF Suspend
<1>30. CASE Resume("battery", "sampling", "weighing", "rest")
  BY SMT, <1>1, <1>30 DEF Resume
<1>31. CASE Resume("battery", "sampling", "weighing", "low")
  BY SMT, <1>1, <1>31 DEF Resume
<1> QED
  BY ONLY NextCases, Next, <1>2, <1>3, <1>4, <1>5, <1>6, <1>7, <1>8, <1>9, <1>10, <1>11, <1>12,
     <1>13, <1>14, <1>15, <1>16, <1>17, <1>18, <1>19, <1>20, <1>21, <1>22, <1>23, <1>24, <1>25,
     <1>26, <1>27, <1>28,
     <1>29, <1>30, <1>31, Zenon

-----------------------------------------------------------------------------
(* The theorems *)

LEMMA InitHolds == Init => IInv
<1> SUFFICES ASSUME Init PROVE IInv
  OBVIOUS
<1>1. offset \in Reading /\ cells \subseteq Reading /\ scale \in Int
  <2>1. PICK s \in Setups : offset = s[1] /\ cells = s[2] /\ scale = s[3]
    BY DEF Init
  <2>2. s \in Reading \X (SUBSET Reading) \X Int
    BY ReadoutAssumption DEF ReadoutAssumption
  <2> QED
    BY SMT, <2>1, <2>2
<1>2. /\ mass = GetUnits(0, scale) /\ pc = [weighing |-> "start", battery |-> "rest", btc |-> "idle"]
      /\ suspended = {} /\ cursor = [t \in Task |-> 2]
      /\ sum = [t \in Meter |-> 0] /\ left = [t \in Meter |-> 0]
      /\ tare_flag \in BOOLEAN /\ displaying_batt_low \in BOOLEAN
      /\ screen = [p \in Place |-> Letter] /\ touched = TRUE
  BY Zenon DEF Init
<1>3. TypeOK
  <2>1. pc \in [Task -> Label]
    <3>1. {"start", "rest", "idle"} \subseteq Label
      BY SMT DEF Label, Labels, Task
    <3> QED
      BY SMT, <1>2, <3>1 DEF Task
  <2>2. offset \in Int
    BY <1>1, ReadingIs
  <2>3. screen \in [Place -> Glyph]
    BY Zenon, <1>2, GlyphsAre
  <2>4. mass \in Mass
    <3>1. 0 \in Int /\ -Bits24 <= 0 /\ 0 <= Bits24
      BY SMT, Bits
    <3> QED
      BY <1>1, <1>2, <3>1, UnitsAreMass
  <2>5. cursor \in [Task -> Place] /\ sum \in [Meter -> Int] /\ left \in [Meter -> 0 .. 255]
    BY SMT, <1>2 DEF Place
  <2> QED
    BY <1>1, <1>2, <2>1, <2>2, <2>3, <2>4, <2>5 DEF TypeOK
<1>4. SumFits
  <2>1. \A t \in Meter : pc[t] \notin Measuring
    BY SMT, <1>2 DEF Meter, Measuring
  <2> QED
    BY Zenon, <1>1, <2>1 DEF SumFits
<1>5. PcOK
  BY SMT, <1>2 DEF PcOK, Labels, Looping, Task
<1>6. PlacesOK
  <2> SUFFICES ASSUME NEW p \in Place PROVE PlaceOK(p)
    BY DEF PlacesOK
  <2>1. pc["weighing"] \in Clears("weighing") /\ p <= 9 - cursor["weighing"] /\ "weighing" \in Task
    BY SMT, <1>2 DEF Clears, Place, Task
  <2> QED
    BY Zenon, <2>1 DEF PlaceOK, ToBeCleared
<1>7. FigureOK
  BY <1>2 DEF FigureOK
<1> QED
  BY <1>3, <1>4, <1>5, <1>6, <1>7 DEF IInv

LEMMA StepHolds == IInv /\ [Next]_vars => IInv'
<1> SUFFICES ASSUME IInv, [Next]_vars PROVE IInv'
  OBVIOUS
<1>1. CASE Next
  BY <1>1, TypeStep, SumStep, PcStep, PlacesStep, FigureStep DEF IInv
<1>2. CASE UNCHANGED vars
  BY Zenon, <1>2 DEF vars, IInv, TypeOK, SumFits, Wanted, PcOK, PlacesOK, PlaceOK, ToBeDrawn,
     ToBeCleared, FigureOK, Drawn
<1> QED
  BY <1>1, <1>2

(* Throughout: everybody is at one of its places in the code, the averages *)
(* are of as many readings as were wanted, every place that shows          *)
(* something else than the mass is about to be cleared or drawn, and a     *)
(* mass nobody has written into is the one drawn last.                     *)
THEOREM ReadoutInductive == Spec => []IInv
<1> QED
  BY InitHolds, StepHolds, PTL DEF Spec

(* The types, the places of the display and of each cursor among them.     *)
THEOREM ReadoutTypes == Spec => []TypeOK
<1>1. IInv => TypeOK
  BY DEF IInv
<1> QED
  BY ReadoutInductive, <1>1, PTL

(* read_average's long does not overflow and OFFSET is a reading, for any  *)
(* number of samples a uint8_t can ask for.                                *)
THEOREM NoOverflow == Spec => []SumFits
<1>1. IInv => SumFits
  BY DEF IInv
<1> QED
  BY ReadoutInductive, <1>1, PTL

(* TotalmassStr and displaymassStr hold every text weighingTask formats,   *)
(* whatever the calibration factor below 2^25.                             *)
THEOREM TextsFitArrays == Spec => []TextFits
<1>1. IInv => TextFits
  BY TextsFit DEF IInv, TypeOK, TextFits
<1> QED
  BY ReadoutInductive, <1>1, PTL

(* When all three tasks have done with the display, no place shows part of *)
(* an earlier mass or of a word, nor what lies behind a text in memory,    *)
(* unless the mass is infinite or not a number: each write that goes astray*)
(* is followed by a clear or a drawing of the same place.                  *)
THEOREM NothingStale == Spec => []NoStalePlace
<1>1. IInv => NoStalePlace
  <2> SUFFICES ASSUME IInv, Resting, mass.kind = "finite", NEW p \in Place
               PROVE  /\ p \notin Figure => screen[p] = Blank
                      /\ p \in Figure => screen[p] \in {Blank, Drawing(mass, p)} /\ screen[p] # Stray
    <3>1. Figure \subseteq Place
      BY SMT DEF Figure, Place
    <3> QED
      BY Zenon, <3>1 DEF NoStalePlace
  <2>1. ~ToBeDrawn(p) /\ ~ToBeCleared(p)
    BY SMT DEF Resting, ToBeDrawn, ToBeCleared, Clears, WillClear, Task
  <2>2. PlaceOK(p)
    BY DEF IInv, PlacesOK
  <2>3. p \in Figure => Drawing(mass, p) # Stray
    BY DrawingIsGlyph DEF IInv, TypeOK
  <2>4. Blank # Stray
    BY DEF Blank, Stray
  <2> QED
    BY Zenon, <2>1, <2>2, <2>3, <2>4 DEF PlaceOK
<1> QED
  BY ReadoutInductive, <1>1, PTL

(* A mass nobody has written into reads as what get_units returned, a float*)
(* with its rounding and sprintf's, for every load and every calibration   *)
(* factor below 2^25: no digit is lost in front, and sign and point are in *)
(* place.                                                                  *)
THEOREM DisplayIsMass == Spec => []ShownIsMass
<1>1. IInv => ShownIsMass
  <2> SUFFICES ASSUME IInv, Resting, ~touched, mass.kind = "finite"
               PROVE  LET decimals == 8 - DrawingStart(mass) - NumDigits(mass.whole)
                      IN  IF mass.zero
                            THEN ShownNumber = 0 /\ \A p \in Figure : ~screen[p].point
                            ELSE /\ mass.negative <=> screen[3] = Minus
                                 /\ decimals >= 0 =>
                                      /\ ShownNumber = mass.whole * Power10[decimals + 1]
                                                         + (mass.frac \div Power10[6 - decimals])
                                      /\ \A p \in Figure : screen[p].point <=> p = 7 - decimals
    BY Zenon DEF ShownIsMass
  <2>1. mass \in Mass
    BY DEF IInv, TypeOK
  <2>2. \A p \in Figure : screen[p] = Drawing(mass, p)
    <3>1. \A p : Drawn(p)
      BY DEF Resting, Drawn
    <3> QED
      BY <3>1 DEF IInv, FigureOK
  <2>3. CASE mass.zero
    <3>1. \A p \in Figure : screen[p] = IF p = 7 THEN Num(0, FALSE) ELSE Blank
      BY <2>1, <2>2, <2>3, DrawingIs
    <3>2. \A p \in Figure : screen[p].digit = 0 /\ ~screen[p].point
      <4>1. Num(0, FALSE).digit = 0 /\ ~Num(0, FALSE).point /\ Blank.digit = 0 /\ ~Blank.point
        BY DEF Num, Blank
      <4> QED
        BY Zenon, <3>1, <4>1
    <3>3. ShownNumber = 0
      BY SMT, <3>2 DEF ShownNumber, Figure
    <3> QED
      BY <2>3, <3>2, <3>3
  <2>4. CASE ~mass.zero
    BY <2>1, <2>2, <2>4, FigureIsMass DEF ShownNumber
  <2> QED
    BY <2>3, <2>4
<1> QED
  BY ReadoutInductive, <1>1, PTL

=============================================================================
