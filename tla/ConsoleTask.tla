----------------------------- MODULE ConsoleTask -----------------------------
(***************************************************************************)
(* run_console and its commands.  "m", "one" and "c" prompt for a further  *)
(* command and run it inside their own handler; when that one returns,     *)
(* the whole nest does.  Only "x" and "save" resume what "m" suspended.    *)
(***************************************************************************)
EXTENDS ScaleState

(* linenoise returned this command; prompting and echoing use stdout. *)
Typed(c) ==
  /\ At("console", "prompt")
  /\ c \in Commands
  /\ log = NoTask

Menu ==
  /\ Typed("m")
  /\ Goto("console", "menu_weighing")
  /\ UNCHANGED <<task, log, chipVars, calVars, uiVars, conVars, envVars>>

(* The victim is stopped wherever it is, inside ESP_LOGI too. *)
MenuWeighing ==
  /\ At("console", "menu_weighing")
  /\ Suspend("console", "weighing")
  /\ session' = TRUE
  /\ Goto("console", "menu")
  /\ UNCHANGED <<log, readers, avg, calVars, uiVars, nested, envVars>>

MenuBattery ==
  /\ At("console", "menu")
  /\ Suspend("console", "battery")
  /\ Goto("console", "say")
  /\ UNCHANGED <<log, readers, avg, calVars, uiVars, conVars, envVars>>

CalOrTare ==
  /\ Typed("one")
  /\ Goto("console", "say")
  /\ UNCHANGED <<task, log, chipVars, calVars, uiVars, conVars, envVars>>

(* ESP_LOGI of the choices, then a prompt nested in this command. *)
Say ==
  /\ At("console", "say")
  /\ log = NoTask
  /\ nested' = TRUE
  /\ Goto("console", "prompt")
  /\ UNCHANGED <<task, log, chipVars, calVars, uiVars, session, envVars>>

(* "t" and "c" start an average; the factor of "sc" is still to be typed. *)
ToAverage ==
  /\ \E c \in {"t", "c"} : Typed(c) /\ StartAverage("console", c)
  /\ UNCHANGED <<task, log, readers, spoiled, high, calVars, uiVars, conVars, envVars>>

NewCalibrate ==
  /\ Typed("sc")
  /\ Goto("console", "number")
  /\ UNCHANGED <<task, log, chipVars, calVars, uiVars, conVars, envVars>>

(* linechar = atoi(line): anything that is not a number is 0. *)
TypedFactor ==
  /\ At("console", "number")
  /\ linechar' \in Factors \cup {0}
  /\ StartAverage("console", "sc")
  /\ UNCHANGED <<task, log, readers, spoiled, high, offset, scale, nvsVars, uiVars, conVars, envVars>>

ConsoleTared ==
  /\ Averaged("console", "t")
  /\ SetOffset("console")
  /\ EndAverage("console")
  /\ Goto("console", "store")
  /\ UNCHANGED <<task, log, readers, spoiled, high, uiVars, conVars, envVars>>

ConsoleStore ==
  /\ At("console", "store")
  /\ WriteOffset
  /\ nested' = FALSE
  /\ Goto("console", "prompt")
  /\ UNCHANGED <<task, log, chipVars, uiVars, session, envVars>>

(* The reading has been printed: "c" prompts again, "sc" returns. *)
Calibrated ==
  /\ \E c \in {"c", "sc"} : Averaged("console", c) /\ nested' = (c = "c")
  /\ EndAverage("console")
  /\ Goto("console", "prompt")
  /\ UNCHANGED <<task, log, readers, spoiled, high, calVars, uiVars, session, envVars>>

(* Fault: the new factor is not stored. *)
SaveWithoutStoring ==
  /\ Typed("save")
  /\ scale' = linechar
  /\ Goto("console", "resume_weighing")
  /\ UNCHANGED <<task, log, chipVars, offset, linechar, nvsVars, uiVars, conVars, envVars>>

SaveNewCalibrate ==
  /\ Typed("save")
  /\ scale' = linechar
  /\ Goto("console", "save")
  /\ UNCHANGED <<task, log, chipVars, offset, linechar, nvsVars, uiVars, conVars, envVars>>

SaveScale ==
  /\ At("console", "save")
  /\ WriteScale
  /\ Goto("console", "resume_weighing")
  /\ UNCHANGED <<task, log, chipVars, uiVars, conVars, envVars>>

Exit ==
  /\ Typed("x")
  /\ Goto("console", "resume_weighing")
  /\ UNCHANGED <<task, log, chipVars, calVars, uiVars, conVars, envVars>>

ResumeWeighing ==
  /\ At("console", "resume_weighing")
  /\ Resume("weighing")
  /\ Goto("console", "resume_battery")
  /\ UNCHANGED <<log, chipVars, calVars, uiVars, conVars, envVars>>

ResumeBattery ==
  /\ At("console", "resume_battery")
  /\ Resume("battery")
  /\ session' = FALSE
  /\ nested' = FALSE
  /\ Goto("console", "prompt")
  /\ UNCHANGED <<log, chipVars, calVars, uiVars, envVars>>

(* Anything else typed in a nested prompt ends the nest. *)
Unrecognized ==
  /\ At("console", "prompt")
  /\ nested
  /\ log = NoTask
  /\ nested' = FALSE
  /\ UNCHANGED <<task, pc, log, chipVars, calVars, uiVars, session, envVars>>

(* What the operator types, and what the task then does by itself. *)
ConsoleInput == \/ Menu \/ CalOrTare \/ ToAverage \/ NewCalibrate \/ TypedFactor
                \/ SaveNewCalibrate \/ Exit \/ Unrecognized

ConsoleStep == \/ MenuWeighing \/ MenuBattery \/ Say \/ ConsoleTared \/ ConsoleStore \/ Calibrated
               \/ SaveScale \/ ResumeWeighing \/ ResumeBattery
               \/ Read("console")

=============================================================================
