---------------------------- MODULE WeighingTasks ----------------------------
(***************************************************************************)
(* weighingTask, which measures, shows the mass and serves the tare        *)
(* button, and tareTask, which polls that button.                          *)
(***************************************************************************)
EXTENDS ScaleState

(* The delay of a second is over: clear "BATT ..", weigh. *)
WeighStart ==
  /\ At("weighing", "start")
  /\ Draw("blank")
  /\ StartAverage("weighing", "weigh")
  /\ UNCHANGED <<task, log, readers, spoiled, high, calVars, tare_flag, displaying_batt_low,
                 conVars, envVars>>

(* The mass is published and displaying_batt_low tested; the drawing comes *)
(* later.                                                                  *)
WeighMeasured ==
  /\ Averaged("weighing", "weigh")
  /\ EndAverage("weighing")
  /\ Goto("weighing", IF displaying_batt_low THEN "pause" ELSE "draw")
  /\ UNCHANGED <<task, log, readers, spoiled, high, calVars, tare_flag, displaying_batt_low, screen,
                 conVars, envVars>>

(* Fault: every round of the loop forgets the press, tared or not. *)
WeighDrawForgetting ==
  /\ At("weighing", "draw")
  /\ screen' = [screen EXCEPT !.right = "mass"] /\ tare_flag' = FALSE
  /\ Goto("weighing", "pause")
  /\ UNCHANGED <<task, log, chipVars, calVars, displaying_batt_low, conVars, envVars>>

(* Every branch draws digits 3 to 7 and none of digits 0 to 2. *)
WeighDraw ==
  /\ At("weighing", "draw")
  /\ screen' = [screen EXCEPT !.right = "mass"]
  /\ Goto("weighing", "pause")
  /\ UNCHANGED <<task, log, chipVars, calVars, tare_flag, displaying_batt_low,
                 conVars, envVars>>

(* 200 ms later: weigh again, or first tare. *)
WeighAgain ==
  /\ At("weighing", "pause")
  /\ ~tare_flag
  /\ StartAverage("weighing", "weigh")
  /\ UNCHANGED <<task, log, readers, spoiled, high, calVars, uiVars, conVars, envVars>>

WeighTare ==
  /\ At("weighing", "pause")
  /\ tare_flag
  /\ Draw("tare")
  /\ StartAverage("weighing", "tare")
  /\ UNCHANGED <<task, log, readers, spoiled, high, calVars, tare_flag, displaying_batt_low,
                 conVars, envVars>>

(* tare(2) ends; the offset is not written to NVS. *)
WeighTared ==
  /\ Averaged("weighing", "tare")
  /\ SetOffset("weighing")
  /\ EndAverage("weighing")
  /\ Goto("weighing", "settle")
  /\ UNCHANGED <<task, log, readers, spoiled, high, uiVars, conVars, envVars>>

(* 100 ms later: forget the press, and any that came meanwhile. *)
WeighSettled ==
  /\ At("weighing", "settle")
  /\ tare_flag' = FALSE
  /\ Draw("blank")
  /\ StartAverage("weighing", "weigh")
  /\ UNCHANGED <<task, log, readers, spoiled, high, calVars, displaying_batt_low, conVars,
                 envVars>>

WeighingStep ==
  \/ WeighStart \/ WeighMeasured \/ WeighDraw \/ WeighAgain
  \/ WeighTare \/ WeighTared \/ WeighSettled
  \/ Read("weighing")

(* tareTask finds the button down; 100 ms later it raises tare_flag. *)
ButtonSeen ==
  /\ At("button", "poll")
  /\ pressed
  /\ Goto("button", "debounce")
  /\ UNCHANGED <<task, log, chipVars, calVars, uiVars, conVars, envVars>>

ButtonLatched ==
  /\ At("button", "debounce")
  /\ tare_flag' = TRUE
  /\ Goto("button", "poll")
  /\ UNCHANGED <<task, log, chipVars, calVars, displaying_batt_low, screen, conVars,
                 envVars>>

ButtonStep == ButtonSeen \/ ButtonLatched

=============================================================================
