------------------------------ MODULE Readout ------------------------------
(***************************************************************************)
(* From the converter to the display, place by place: the weighing task,   *)
(* the battery task and the BLE host's task (BTC) draw and clear the same  *)
(* places, each of which is one SPI transfer, and suspend each other       *)
(* anywhere.  (WeighingScale has the tasks' logging, NVS and start-up, and *)
(* the samples that are spoiled; here a sample is what the wire carries.)  *)
(***************************************************************************)
EXTENDS Figures

CONSTANTS
  Setups,       (* OFFSET after the boot tare, readings, calibration factor *)
  Times         (* samples averaged by get_units(1) and by tare(2)         *)

ASSUME ReadoutAssumption ==
  /\ Setups \subseteq Reading \X (SUBSET Reading) \X Int
  /\ \A setup \in Setups : Magnitude(setup[3]) < 2 * Bits24
  /\ Times \in [{"weigh", "tare"} -> 1 .. 255]

VARIABLES
  cells, scale,     (* of this run                                         *)
  offset,
  mass,             (* drawn last                                          *)
  pc,               (* where each task is                                  *)
  suspended,        (* the tasks that are                                  *)
  cursor,           (* each task's next place, while it draws or clears    *)
  sum, left,        (* each task's read_average                            *)
  tare_flag, displaying_batt_low,
  screen,           (* what each place shows                               *)
  touched           (* history: somebody else has written to places 3 to 7 *)
                    (* since the weighing task began to draw the mass      *)

vars == <<cells, scale, offset, mass, pc, suspended, cursor, sum, left,
          tare_flag, displaying_batt_low, screen, touched>>

Task  == {"weighing", "battery", "btc"}
Meter == {"weighing", "btc"}

(* Where each task can be.                                                 *)
Labels ==
  [weighing |-> {"start", "weigh", "measure", "draw", "pause", "tare", "tare_begin",
                 "tare_measure", "tared", "tare_clear"},
   battery  |-> {"rest", "sampling", "low", "message", "shown", "unflag"},
   btc      |-> {"idle", "word", "suspend", "suspend_battery", "begin", "measure", "clear",
                 "resume", "resume_battery"}]
Label == UNION {Labels[t] : t \in Task}

Numbers == <<cells, scale, offset, mass, sum, left>>
Flags   == <<tare_flag, displaying_batt_low>>

Init ==
  /\ \E s \in Setups : offset = s[1] /\ cells = s[2] /\ scale = s[3]
  /\ mass = GetUnits(0, scale)
  /\ pc = [weighing |-> "start", battery |-> "rest", btc |-> "idle"]
  /\ suspended = {} /\ cursor = [t \in Task |-> 2]
  /\ sum = [t \in Meter |-> 0] /\ left = [t \in Meter |-> 0]
  /\ tare_flag = FALSE /\ displaying_batt_low = FALSE
  /\ screen = [p \in Place |-> Letter] /\ touched = TRUE

-----------------------------------------------------------------------------
(* What the tasks do *)

At(t, label)   == pc[t] = label /\ t \notin suspended
Goto(t, label) == pc' = [pc EXCEPT ![t] = label]

(* Fault: the loop runs once too often. *)
StepTooFar(t, next) ==
  IF cursor[t] = 8
    THEN Goto(t, next) /\ cursor' = [cursor EXCEPT ![t] = 2]
    ELSE cursor' = [cursor EXCEPT ![t] = @ + 1] /\ UNCHANGED pc

(* Task t is in a loop over the places, from 2, and leaves it for next. *)
Step(t, next) ==
  IF cursor[t] = 7
    THEN Goto(t, next) /\ cursor' = [cursor EXCEPT ![t] = 2]
    ELSE cursor' = [cursor EXCEPT ![t] = @ + 1] /\ UNCHANGED pc

Put(p, glyph) == screen' = [screen EXCEPT ![p] = glyph]

(* max7219_draw_text_7seg of a word that fills the display. *)
DrawWord(t, label, next) ==
  /\ At(t, label)
  /\ Put(cursor[t], Letter)
  /\ touched' = TRUE
  /\ Step(t, next)
  /\ UNCHANGED <<Numbers, suspended, Flags>>

(* max7219_clear goes by the chip's registers, which are mirrored. *)
Clear(t, label, next) ==
  /\ At(t, label)
  /\ Put(9 - cursor[t], Blank)
  /\ touched' = TRUE
  /\ Step(t, next)
  /\ UNCHANGED <<Numbers, suspended, Flags>>

(* vTaskSuspend and vTaskResume by task t. *)
Suspend(t, label, victim, next) ==
  /\ At(t, label)
  /\ suspended' = suspended \cup {victim}
  /\ Goto(t, next)
  /\ UNCHANGED <<Numbers, cursor, Flags, screen, touched>>

Resume(t, label, victim, next) ==
  /\ At(t, label)
  /\ suspended' = suspended \ {victim}
  /\ Goto(t, next)
  /\ UNCHANGED <<Numbers, cursor, Flags, screen, touched>>

(* Task t begins an average. *)
Measure(t, use) ==
  /\ sum' = [sum EXCEPT ![t] = 0]
  /\ left' = [left EXCEPT ![t] = Times[use]]

(* readValue, added to the sum of read_average. *)
Sample(t, label) ==
  /\ At(t, label) /\ left[t] > 0
  /\ \E c \in cells : sum' = [sum EXCEPT ![t] = @ + ReadValue(Wire(c))]
  /\ left' = [left EXCEPT ![t] = @ - 1]
  /\ UNCHANGED <<cells, scale, offset, mass, pc, suspended, cursor, Flags, screen, touched>>

Average(t, use) == Quotient(sum[t], Times[use])

(* tare: set_offset. *)
Tare(t, label, next) ==
  /\ At(t, label) /\ left[t] = 0
  /\ offset' = Average(t, "tare")
  /\ sum' = [sum EXCEPT ![t] = 0]
  /\ Goto(t, next)
  /\ UNCHANGED <<cells, scale, mass, suspended, cursor, left, Flags, screen, touched>>

-----------------------------------------------------------------------------
(* weighingTask and tareTask *)

WeighStart == Clear("weighing", "start", "weigh")

WeighBegin ==
  /\ At("weighing", "weigh")
  /\ Measure("weighing", "weigh")
  /\ Goto("weighing", "measure")
  /\ UNCHANGED <<cells, scale, offset, mass, suspended, cursor, Flags, screen, touched>>

(* The mass is known: draw it, from place 3, or leave the low battery      *)
(* message alone.                                                          *)
WeighMeasured ==
  /\ At("weighing", "measure") /\ left["weighing"] = 0
  /\ IF displaying_batt_low
       THEN Goto("weighing", "pause") /\ UNCHANGED <<mass, cursor, touched>>
       ELSE /\ mass' = GetUnits(GetValue(Average("weighing", "weigh"), offset), scale)
            /\ Goto("weighing", "draw") /\ touched' = FALSE
            /\ cursor' = [cursor EXCEPT !["weighing"] = 3]
  /\ sum' = [sum EXCEPT !["weighing"] = 0]
  /\ UNCHANGED <<cells, scale, offset, suspended, left, Flags, screen>>

(* Fault: a figure of four places leaves the fifth to the one before it. *)
WeighDrawShort ==
  /\ At("weighing", "draw")
  /\ Put(cursor["weighing"], IF cursor["weighing"] < DrawingStart(mass)
                               THEN screen[cursor["weighing"]]
                               ELSE Drawing(mass, cursor["weighing"]))
  /\ Step("weighing", "pause")
  /\ UNCHANGED <<Numbers, suspended, Flags, touched>>

WeighDraw ==
  /\ At("weighing", "draw")
  /\ Put(cursor["weighing"], Drawing(mass, cursor["weighing"]))
  /\ Step("weighing", "pause")
  /\ UNCHANGED <<Numbers, suspended, Flags, touched>>

WeighAgain ==
  /\ At("weighing", "pause")
  /\ Goto("weighing", IF tare_flag THEN "tare" ELSE "weigh")
  /\ UNCHANGED <<Numbers, suspended, cursor, Flags, screen, touched>>

(* display_tare, tare(2), and the flag goes down before display_clear. *)
WeighSaysTare == DrawWord("weighing", "tare", "tare_begin")

WeighTareBegin ==
  /\ At("weighing", "tare_begin")
  /\ Measure("weighing", "tare")
  /\ Goto("weighing", "tare_measure")
  /\ UNCHANGED <<cells, scale, offset, mass, suspended, cursor, Flags, screen, touched>>

WeighTared == Tare("weighing", "tare_measure", "tared")

WeighUnflag ==
  /\ At("weighing", "tared")
  /\ tare_flag' = FALSE
  /\ Goto("weighing", "tare_clear")
  /\ UNCHANGED <<Numbers, suspended, cursor, displaying_batt_low, screen, touched>>

WeighCleared == Clear("weighing", "tare_clear", "weigh")

WeighingStep ==
  \/ WeighStart \/ WeighBegin \/ Sample("weighing", "measure") \/ WeighMeasured \/ WeighDraw
  \/ WeighAgain \/ WeighSaysTare \/ WeighTareBegin \/ Sample("weighing", "tare_measure")
  \/ WeighTared \/ WeighUnflag \/ WeighCleared

(* tareTask, unless BTC has suspended it. *)
ButtonLatched ==
  /\ pc["btc"] \in {"idle", "word", "suspend"} /\ ~tare_flag
  /\ tare_flag' = TRUE
  /\ UNCHANGED <<Numbers, pc, suspended, cursor, displaying_batt_low, screen, touched>>

-----------------------------------------------------------------------------
(* battery_level_check_task *)

(* The battery is sampled while the weighing task is held up: whoever has  *)
(* suspended that, it is resumed.                                          *)
BatterySuspend == Suspend("battery", "rest", "weighing", "sampling")

BatteryResume(next) == Resume("battery", "sampling", "weighing", next)

(* The battery is low. *)
LowFlag ==
  /\ At("battery", "low")
  /\ displaying_batt_low' = TRUE
  /\ Goto("battery", "message")
  /\ UNCHANGED <<Numbers, suspended, cursor, tare_flag, screen, touched>>

LowMessage == DrawWord("battery", "message", "shown")

LowClear == Clear("battery", "shown", "unflag")

LowUnflag ==
  /\ At("battery", "unflag")
  /\ displaying_batt_low' = FALSE
  /\ Goto("battery", "rest")
  /\ UNCHANGED <<Numbers, suspended, cursor, tare_flag, screen, touched>>

BatteryStep ==
  \/ BatterySuspend \/ BatteryResume("rest") \/ BatteryResume("low")
  \/ LowFlag \/ LowMessage \/ LowClear \/ LowUnflag

-----------------------------------------------------------------------------
(* BTC, from a client's write to the tare characteristic *)

TareWrite ==
  /\ At("btc", "idle")
  /\ Goto("btc", "word")
  /\ UNCHANGED <<Numbers, suspended, cursor, Flags, screen, touched>>

BleWord == DrawWord("btc", "word", "suspend")

BleSuspend(label, victim, next) == Suspend("btc", label, victim, next)

BleBegin ==
  /\ At("btc", "begin")
  /\ Measure("btc", "tare")
  /\ Goto("btc", "measure")
  /\ UNCHANGED <<cells, scale, offset, mass, suspended, cursor, Flags, screen, touched>>

BleTared == Tare("btc", "measure", "clear")

BleClear == Clear("btc", "clear", "resume")

BleResume(label, victim, next) == Resume("btc", label, victim, next)

BtcStep ==
  \/ BleWord
  \/ BleSuspend("suspend", "weighing", "suspend_battery")
  \/ BleSuspend("suspend_battery", "battery", "begin")
  \/ BleBegin \/ Sample("btc", "measure") \/ BleTared \/ BleClear
  \/ BleResume("resume", "weighing", "resume_battery")
  \/ BleResume("resume_battery", "battery", "idle")

Next == WeighingStep \/ ButtonLatched \/ BatteryStep \/ TareWrite \/ BtcStep

Spec == Init /\ [][Next]_vars

-----------------------------------------------------------------------------
(* Safety *)

(* Type correctness. *)
TypeOK ==
  /\ scale \in Int /\ offset \in Int /\ mass \in Mass /\ cells \subseteq Reading
  /\ pc \in [Task -> Label] /\ suspended \subseteq Task /\ cursor \in [Task -> Place]
  /\ sum \in [Meter -> Int] /\ left \in [Meter -> 0 .. 255]
  /\ tare_flag \in BOOLEAN /\ displaying_batt_low \in BOOLEAN
  /\ screen \in [Place -> Glyph] /\ touched \in BOOLEAN

(* The long in which read_average adds its samples up does not overflow,   *)
(* nor does the difference to OFFSET, itself a reading: each sample, its   *)
(* sign extended from 24 bits, adds at most 2^23, and times is a uint8_t.  *)
Wanted(t) == IF pc[t] = "measure" /\ t = "weighing" THEN Times["weigh"] ELSE Times["tare"]
Measuring == {"measure", "tare_measure"}

SumFits ==
  /\ \A t \in Meter : pc[t] \in Measuring =>
       LET taken == Wanted(t) - left[t]
       IN  /\ taken \in 0 .. 255
           /\ Lowest * taken <= sum[t] /\ sum[t] <= Highest * taken
  /\ offset \in Reading

(* Neither text of a mass, its terminating 0 included, overruns its array  *)
(* of 16 characters.                                                       *)
TextFits ==
  TotalmassLength(mass) < 16 /\ DisplaymassLength(mass) < 16

(* Between two drawings: the weighing task has drawn the mass and nobody   *)
(* else is at the display.                                                 *)
Resting ==
  pc["weighing"] = "pause" /\ pc["btc"] = "idle" /\ pc["battery"] \notin {"message", "shown"}

(* However the three have overwritten each other, what is left then are    *)
(* places of the mass drawn last, or blanks: unless that is infinite or not*)
(* a number, no place shows a digit of an earlier mass, a letter of a word *)
(* or what is not part of any text.                                        *)
NoStalePlace ==
  Resting /\ mass.kind = "finite" =>
    /\ \A p \in Place \ Figure : screen[p] = Blank
    /\ \A p \in Figure : screen[p] \in {Blank, Drawing(mass, p)} /\ screen[p] # Stray

(* A figure nobody has written into reads as the mass, cut off after the   *)
(* decimals that fit: no digit is lost in front, the point is in place and *)
(* so is the minus.  (Beyond 9999 below zero and 99999 above it digits are *)
(* lost; then only the sign is right.)                                     *)
ShownNumber ==
  10000 * screen[3].digit + 1000 * screen[4].digit + 100 * screen[5].digit
    + 10 * screen[6].digit + screen[7].digit

ShownIsMass ==
  LET decimals == 8 - DrawingStart(mass) - NumDigits(mass.whole)
  IN  Resting /\ ~touched /\ mass.kind = "finite" =>
        IF mass.zero THEN ShownNumber = 0 /\ \A p \in Figure : ~screen[p].point
        ELSE /\ mass.negative <=> screen[3] = Minus
             /\ decimals >= 0 =>
                  /\ ShownNumber = mass.whole * Power10[decimals + 1]
                                     + (mass.frac \div Power10[6 - decimals])
                  /\ \A p \in Figure : screen[p].point <=> p = 7 - decimals

-----------------------------------------------------------------------------
(* What the safety properties rest on *)

Looping == [weighing |-> {"start", "draw", "tare", "tare_clear"},
            battery  |-> {"message", "shown"},
            btc      |-> {"word", "clear"}]

(* Each task is in its own code, and goes through the places from 2 in     *)
(* every loop but that of the mass, which starts from 3.                   *)
PcOK ==
  \A t \in Task :
    /\ pc[t] \in Labels[t]
    /\ pc[t] \notin Looping[t] => cursor[t] = 2
    /\ pc[t] = "draw" => cursor[t] >= 3

(* A word that is being drawn, or is there, will be cleared; so will the   *)
(* places from 2 on of one that is being cleared.                          *)
Clears(t) ==
  CASE t = "weighing" -> {"start", "tare_clear"}
    [] t = "battery"  -> {"shown"}
    [] t = "btc"      -> {"clear"}
WillClear(t) ==
  CASE t = "weighing" -> {"tare", "tare_begin", "tare_measure", "tared"}
    [] t = "battery"  -> {"message"}
    [] t = "btc"      -> {"word", "suspend", "suspend_battery", "begin", "measure"}

ToBeCleared(p) ==
  \E t \in Task : pc[t] \in WillClear(t) \/ (pc[t] \in Clears(t) /\ p <= 9 - cursor[t])
ToBeDrawn(p) == pc["weighing"] = "draw" /\ p >= cursor["weighing"]

(* A place that shows neither a blank nor its part of the mass drawn last  *)
(* is about to be cleared or drawn.                                        *)
PlaceOK(p) ==
  \/ screen[p] = Blank
  \/ p \in Figure /\ screen[p] = Drawing(mass, p)
  \/ ToBeDrawn(p) \/ ToBeCleared(p)

PlacesOK == \A p \in Place : PlaceOK(p)

(* As long as nobody else writes, the places drawn so far are the mass's.  *)
Drawn(p) == pc["weighing"] = "draw" => p < cursor["weighing"]

FigureOK ==
  ~touched =>
    /\ pc["weighing"] \in {"draw", "pause", "weigh", "measure", "tare"}
    /\ \A p \in Figure : Drawn(p) => screen[p] = Drawing(mass, p)

IInv == TypeOK /\ SumFits /\ PcOK /\ PlacesOK /\ FigureOK

=============================================================================
