------------------------------ MODULE BootTask ------------------------------
(***************************************************************************)
(* app_main: it starts the display and the BLE services, tares the scale,  *)
(* and only then creates the tasks, so a BLE write can find their handles  *)
(* still NULL.                                                             *)
(***************************************************************************)
EXTENDS ScaleState

(* RAM at the first line of app_main. *)
TaskAtReset == [t \in Task |-> IF t = "main" THEN "active" ELSE "absent"]
PcAtReset   == [t \in Task |-> IF t = "main" THEN "start" ELSE "off"]
Blank       == [left |-> "blank", right |-> "blank"]

Reset ==
  /\ task = TaskAtReset /\ pc = PcAtReset /\ log = NoTask
  /\ readers = {} /\ spoiled = {} /\ high = {} /\ avg = [t \in Task |-> NoAverage]
  /\ offset = {} /\ scale = 1 /\ linechar = 0
  /\ tare_flag = FALSE /\ displaying_batt_low = FALSE /\ screen = Blank
  /\ nested = FALSE /\ session = FALSE

(* The same, reached by a reset: what is in NVS survives. *)
Reboot ==
  /\ task' = TaskAtReset /\ pc' = PcAtReset /\ log' = NoTask
  /\ readers' = {} /\ spoiled' = {} /\ high' = {} /\ avg' = [t \in Task |-> NoAverage]
  /\ offset' = {} /\ scale' = 1 /\ linechar' = 0
  /\ tare_flag' = FALSE /\ displaying_batt_low' = FALSE /\ screen' = Blank
  /\ nested' = FALSE /\ session' = FALSE
  /\ UNCHANGED <<nvsVars, envVars>>

(* Fault: the weighing task is created before the scale is initialised. *)
StartUpWithTask ==
  /\ At("main", "start")
  /\ task' = [task EXCEPT !["weighing"] = "active"]
  /\ pc' = [pc EXCEPT !["main"] = "ready", !["weighing"] = "start"]
  /\ avg' = [avg EXCEPT !["main"] = [use |-> "gain", left |-> Times["gain"], seen |-> {}]]
  /\ Draw("hello")
  /\ UNCHANGED <<log, readers, spoiled, high, calVars, tare_flag, displaying_batt_low,
                 conVars, envVars>>

(* init_nvs (which erases an NVS that is full), initDisplay ("HELLO"),     *)
(* init_ble and enable_ble_lead; then init_weighingScale calls begin,      *)
(* which sets the gain by a first reading.                                 *)
StartUp ==
  /\ At("main", "start")
  /\ task' = [task EXCEPT !["btc"] = "active"]
  /\ pc' = [pc EXCEPT !["main"] = "ready", !["btc"] = "idle"]
  /\ avg' = [avg EXCEPT !["main"] = [use |-> "gain", left |-> Times["gain"], seen |-> {}]]
  /\ \E ok \in NvsResults : /\ nvsOffset' = IF ok THEN nvsOffset ELSE {}
                            /\ nvsScale' = IF ok THEN nvsScale ELSE Unset
  /\ Draw("hello")
  /\ UNCHANGED <<log, readers, spoiled, high, offset, scale, linechar, tare_flag,
                 displaying_batt_low, conVars, envVars>>

(* The rest of init_weighingScale, and the start of tare(5). *)
InitScale ==
  /\ Averaged("main", "gain")
  /\ offset' = nvsOffset
  /\ scale' = StoredScale
  /\ StartAverage("main", "boot")
  /\ UNCHANGED <<task, log, readers, spoiled, high, linechar, nvsVars, uiVars, conVars, envVars>>

BootTare ==
  /\ Averaged("main", "boot")
  /\ SetOffset("main")
  /\ EndAverage("main")
  /\ Goto("main", "store")
  /\ UNCHANGED <<task, log, readers, spoiled, high, uiVars, conVars, envVars>>

BootStore ==
  /\ At("main", "store")
  /\ WriteOffset
  /\ Goto("main", "battery")
  /\ UNCHANGED <<task, log, chipVars, uiVars, conVars, envVars>>

(* battery() shows the level, whatever it is; initialize_console. *)
BootBattery ==
  /\ At("main", "battery")
  /\ Draw("batt")
  /\ Goto("main", "create_weighing")
  /\ UNCHANGED <<task, log, chipVars, calVars, tare_flag, displaying_batt_low,
                 conVars, envVars>>

(* One xTaskCreate of app_main. *)
BootCreate(label, t, first, next) ==
  /\ At("main", label)
  /\ Create(t, "main", first, next)
  /\ UNCHANGED <<log, chipVars, calVars, uiVars, conVars, envVars>>

CreateWeighing == BootCreate("create_weighing", "weighing", "start", "create_button")
CreateButton   == BootCreate("create_button", "button", "poll", "create_battery")
CreateBattery  == BootCreate("create_battery", "battery", "rest", "create_console")
CreateConsole  == BootCreate("create_console", "console", "prompt", "done")

MainStep ==
  \/ StartUp \/ InitScale \/ BootTare \/ BootStore \/ BootBattery
  \/ CreateWeighing \/ CreateButton \/ CreateBattery \/ CreateConsole
  \/ Read("main")

=============================================================================
