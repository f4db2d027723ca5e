----------------------------- MODULE BatteryTask -----------------------------
(***************************************************************************)
(* battery_level_check_task: it stops the weighing task while it samples   *)
(* the battery, and interrupts the display when the battery is low.        *)
(***************************************************************************)
EXTENDS ScaleState

(* The level of an averaged ADC reading, on the battery (0) or charging (1). *)
BatteryLevel(adc, charging) ==
  LET Threshold == IF charging = 1 THEN <<2800, 2900, 3150>> ELSE <<2150, 2650, 3100>>
  IN  Cardinality({i \in 1 .. 3 : adc >= Threshold[i]})

BatterySuspend ==
  /\ At("battery", "rest")
  /\ Suspend("battery", "weighing")
  /\ Goto("battery", "sampling")
  /\ UNCHANGED <<log, readers, avg, calVars, uiVars, conVars, envVars>>

(* Fault: the readings are logged before the weighing task is resumed. *)
BatteryResumeAfterLog ==
  /\ At("battery", "sampling")
  /\ log = NoTask
  /\ Resume("weighing")
  /\ Goto("battery", "report")
  /\ UNCHANGED <<log, chipVars, calVars, uiVars, conVars, envVars>>

(* Fault: the weighing task is not resumed. *)
BatteryForget ==
  /\ At("battery", "sampling")
  /\ Goto("battery", "report")
  /\ UNCHANGED <<task, log, chipVars, calVars, uiVars, conVars, envVars>>

BatteryResume ==
  /\ At("battery", "sampling")
  /\ Resume("weighing")
  /\ Goto("battery", "report")
  /\ UNCHANGED <<log, chipVars, calVars, uiVars, conVars, envVars>>

(* The readings are logged only after the weighing task runs again. *)
BatteryReport ==
  /\ At("battery", "report")
  /\ log = NoTask
  /\ log' = "battery"
  /\ Goto("battery", "reporting")
  /\ UNCHANGED <<task, chipVars, calVars, uiVars, conVars, envVars>>

BatteryJudge ==
  /\ At("battery", "reporting")
  /\ log' = NoTask
  /\ \E adc \in Adc, charging \in 0 .. 1 :
       Goto("battery",
            IF BatteryLevel(adc, charging) = 0 /\ charging = 0 THEN "flag" ELSE "rest")
  /\ UNCHANGED <<task, chipVars, calVars, uiVars, conVars, envVars>>

LowFlag ==
  /\ At("battery", "flag")
  /\ displaying_batt_low' = TRUE
  /\ Goto("battery", "message")
  /\ UNCHANGED <<task, log, chipVars, calVars, tare_flag, screen, conVars, envVars>>

(* display_percentage prints before it draws. *)
LowMessage ==
  /\ At("battery", "message")
  /\ log = NoTask
  /\ Draw("batt")
  /\ Goto("battery", "shown")
  /\ UNCHANGED <<task, log, chipVars, calVars, tare_flag, displaying_batt_low, conVars,
                 envVars>>

(* Faults: the message is not cleared; the flag is not lowered. *)
LowKeep ==
  /\ At("battery", "shown")
  /\ Goto("battery", "unflag")
  /\ UNCHANGED <<task, log, chipVars, calVars, uiVars, conVars, envVars>>

LowKeepFlag ==
  /\ At("battery", "unflag")
  /\ Goto("battery", "rest")
  /\ UNCHANGED <<task, log, chipVars, calVars, uiVars, conVars, envVars>>

LowClear ==
  /\ At("battery", "shown")
  /\ Draw("blank")
  /\ Goto("battery", "unflag")
  /\ UNCHANGED <<task, log, chipVars, calVars, tare_flag, displaying_batt_low, conVars,
                 envVars>>

LowUnflag ==
  /\ At("battery", "unflag")
  /\ displaying_batt_low' = FALSE
  /\ Goto("battery", "rest")
  /\ UNCHANGED <<task, log, chipVars, calVars, tare_flag, screen, conVars, envVars>>

BatteryStep ==
  \/ BatterySuspend \/ BatteryResume \/ BatteryReport \/ BatteryJudge
  \/ LowFlag \/ LowMessage \/ LowClear \/ LowUnflag

=============================================================================
