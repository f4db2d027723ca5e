--------------------------- MODULE BleTareHandler ---------------------------
(***************************************************************************)
(* The Bluetooth host task (BTC) handling a write to the tare              *)
(* characteristic (CANCEL_OTA in the source).  BTC handles one event at a  *)
(* time, and is prompt to start once app_main has enabled BLE.             *)
(***************************************************************************)
EXTENDS ScaleState

(* The write is logged, then display_tare. *)
TareWrite ==
  /\ BleClient
  /\ At("btc", "idle")
  /\ log = NoTask
  /\ Draw("tare")
  /\ Goto("btc", "suspend_weighing")
  /\ UNCHANGED <<task, log, chipVars, calVars, tare_flag, displaying_batt_low, conVars,
                 envVars>>

(* One vTaskSuspend of the handler. *)
BleSuspend(label, victim, next) ==
  /\ At("btc", label)
  /\ Suspend("btc", victim)
  /\ Goto("btc", next)
  /\ UNCHANGED <<log, readers, avg, calVars, uiVars, conVars, envVars>>

BleSuspendWeighing == BleSuspend("suspend_weighing", "weighing", "suspend_button")
BleSuspendButton   == BleSuspend("suspend_button", "button", "suspend_battery")
BleSuspendBattery  == BleSuspend("suspend_battery", "battery", "measure")

(* 300 ms later, tare(2). *)
BleMeasure ==
  /\ At("btc", "measure")
  /\ StartAverage("btc", "tare")
  /\ UNCHANGED <<task, log, readers, spoiled, high, calVars, uiVars, conVars, envVars>>

BleTared ==
  /\ Averaged("btc", "tare")
  /\ SetOffset("btc")
  /\ EndAverage("btc")
  /\ Goto("btc", "store")
  /\ UNCHANGED <<task, log, readers, spoiled, high, uiVars, conVars, envVars>>

(* Fault: a write that fails is a tare to repeat. *)
BleStoreRetrying ==
  /\ At("btc", "store")
  /\ WriteOffset
  /\ Goto("btc", IF nvsOffset' = offset THEN "clear" ELSE "measure")
  /\ UNCHANGED <<task, log, chipVars, uiVars, conVars, envVars>>

BleStore ==
  /\ At("btc", "store")
  /\ WriteOffset
  /\ Goto("btc", "clear")
  /\ UNCHANGED <<task, log, chipVars, uiVars, conVars, envVars>>

BleClear ==
  /\ At("btc", "clear")
  /\ Draw("blank")
  /\ Goto("btc", "resume_weighing")
  /\ UNCHANGED <<task, log, chipVars, calVars, tare_flag, displaying_batt_low, conVars,
                 envVars>>

(* One vTaskResume of the handler. *)
BleResume(label, victim, next) ==
  /\ At("btc", label)
  /\ Resume(victim)
  /\ Goto("btc", next)
  /\ UNCHANGED <<log, chipVars, calVars, uiVars, conVars, envVars>>

(* Fault: tareTask is not resumed. *)
BleForgetButton ==
  /\ At("btc", "resume_button")
  /\ Goto("btc", "resume_battery")
  /\ UNCHANGED <<task, log, chipVars, calVars, uiVars, conVars, envVars>>

BleResumeWeighing == BleResume("resume_weighing", "weighing", "resume_button")
BleResumeButton   == BleResume("resume_button", "button", "resume_battery")
BleResumeBattery  == BleResume("resume_battery", "battery", "idle")

BtcStep ==
  \/ BleSuspendWeighing \/ BleSuspendButton \/ BleSuspendBattery
  \/ BleMeasure \/ BleTared \/ BleStore \/ BleClear
  \/ BleResumeWeighing \/ BleResumeButton \/ BleResumeBattery
  \/ Read("btc")

=============================================================================
