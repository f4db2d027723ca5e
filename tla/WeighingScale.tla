---------------------------- MODULE WeighingScale ----------------------------
(***************************************************************************)
(* The scale as its FreeRTOS tasks, the BLE host task and the operator run *)
(* it together, from power on.                                             *)
(***************************************************************************)
EXTENDS BootTask, WeighingTasks, BatteryTask, ConsoleTask, BleTareHandler

Init ==
  /\ Reset
  /\ nvsOffset = {}
  /\ nvsScale \in {Unset} \cup Factors
  /\ load \in Loads
  /\ pressed = FALSE

(* The operator changes the load, presses and releases the button. *)
PlaceLoad ==
  /\ load' \in Loads \ {load}
  /\ UNCHANGED <<task, pc, log, chipVars, calVars, uiVars, conVars, pressed>>

PushButton ==
  /\ Button
  /\ pressed' = ~pressed
  /\ UNCHANGED <<task, pc, log, chipVars, calVars, uiVars, conVars, load>>

PowerCycle == PowerLoss /\ Reboot

(* linenoise returns NULL for an empty line; only run_console's own loop   *)
(* tests for it, a nested prompt passes it on and the access resets the    *)
(* chip.                                                                   *)
EmptyNestedLine ==
  /\ \/ At("console", "prompt") /\ nested
     \/ At("console", "number")
  /\ log = NoTask
  /\ Reboot

Environment == PlaceLoad \/ PushButton \/ PowerCycle \/ EmptyNestedLine

Next ==
  \/ MainStep \/ WeighingStep \/ ButtonStep \/ BatteryStep
  \/ ConsoleInput \/ ConsoleStep
  \/ TareWrite \/ BtcStep
  \/ Environment

(* Every task the kernel can run again and again is run: all the loops     *)
(* block in vTaskDelay, so no priority starves another, and a released     *)
(* stdout lock is handed to a waiter.  Nobody has to type, to write over   *)
(* BLE or to touch the scale.                                              *)
Fairness ==
  /\ SF_vars(MainStep) /\ SF_vars(WeighingStep) /\ SF_vars(ButtonStep)
  /\ SF_vars(BatteryStep) /\ SF_vars(ConsoleStep) /\ SF_vars(BtcStep)

Safe == Init /\ [][Next]_vars
Spec == Safe /\ Fairness

-----------------------------------------------------------------------------
(* Safety *)

(* Type correctness of the shared state. *)
TypeOK ==
  /\ task \in [Task -> {"absent", "active", "suspended"}]
  /\ pc \in [Task -> Labels]
  /\ log \in Task \cup {NoTask}
  /\ readers \subseteq Task /\ spoiled \subseteq Task /\ high \subseteq Task
  /\ avg \in [Task -> [use : Uses, left : Nat, seen : SUBSET Sample]]
  /\ offset \subseteq Sample /\ nvsOffset \subseteq Sample
  /\ scale \in Nat /\ nvsScale \in Nat \cup {Unset} /\ linechar \in Nat
  /\ screen \in [left : Figures, right : Figures]
  /\ load \in Loads /\ pressed \in BOOLEAN

Flags ==
  /\ tare_flag \in BOOLEAN /\ displaying_batt_low \in BOOLEAN
  /\ nested \in BOOLEAN /\ session \in BOOLEAN

(* A suspension is somebody's to undo, with one exception.  FreeRTOS does  *)
(* not count suspensions and three tasks suspend the weighing task (battery*)
(* sampling, the console menu, the BLE tare), each resuming what another   *)
(* suspended; still, a suspended task is inside the open span of one of    *)
(* them that has its vTaskResume before it, or, where BTC has stopped      *)
(* itself on a NULL handle, a round of the battery task is to come.  The   *)
(* exception is a tare between the creation of tareTask and of the battery *)
(* task.  (That one may wait for ever on the way, for stdout or for the    *)
(* converter: BleTareEnds and MenuAppears are about that.)                 *)
BleMeasuring == {"measure", "ready", "note", "shift", "averaged", "store", "clear",
                 "resume_weighing"}
BleHolds(victim) ==
  CASE victim = "weighing" -> {"suspend_button", "suspend_battery"} \cup BleMeasuring
    [] victim = "button"   -> {"suspend_battery", "resume_button"} \cup BleMeasuring
    [] victim = "battery"  -> {"resume_button", "resume_battery"} \cup BleMeasuring

BtcResumes(victim) == Active("btc") /\ pc["btc"] \in BleHolds(victim)

StoppedAtBattery == task["btc"] = "suspended" /\ pc["btc"] = "measure"

NoOrphanedSuspension ==
  /\ task["weighing"] = "suspended" =>
       \/ pc["battery"] = "sampling"
       \/ session /\ pc["console"] # "resume_battery"
       \/ BtcResumes("weighing")
       \/ task["btc"] = "suspended" /\ task["battery"] # "suspended"
  /\ task["battery"] = "suspended" => session \/ BtcResumes("battery")
  /\ task["button"] = "suspended" => BtcResumes("button") \/ StoppedAtBattery

(* vTaskResume asserts that its handle is not NULL.  BLE is enabled long   *)
(* before the tasks exist, yet no resume meets a NULL handle: the first    *)
(* vTaskSuspend that does suspends the caller itself.                      *)
Resumes(t, victim) ==
  \/ t = "battery" /\ pc[t] = "sampling" /\ victim = "weighing"
  \/ t \in {"console", "btc"} /\ pc[t] = "resume_weighing" /\ victim = "weighing"
  \/ t \in {"console", "btc"} /\ pc[t] = "resume_battery" /\ victim = "battery"
  \/ t = "btc" /\ pc[t] = "resume_button" /\ victim = "button"

ResumeNeverNull ==
  \A t, victim \in Task : Active(t) /\ Resumes(t, victim) => task[victim] # "absent"

(* "The weighing scale always starts with a zero value": when app_main has *)
(* tared, OFFSET is an average of true samples, whatever a BLE client does *)
(* meanwhile and whatever NVS held, and it stays so until the button can   *)
(* be served.                                                              *)
StartsFromZero ==
  pc["main"] \in {"store", "battery", "create_weighing", "create_button"}
    => offset # {} /\ Garbage \notin offset

(* From init_weighingScale on, the scale in use is the one a restart would *)
(* read back from NVS, except while "save" is storing it.  (A write to NVS *)
(* that fails breaks this: nobody looks at its result.)                    *)
ScaleLoaded ==
  pc["main"] # "start" /\ ~(pc["main"] \in Reading /\ avg["main"].use = "gain")

ScaleIsStored == ScaleLoaded /\ pc["console"] # "save" => scale = StoredScale

(* Nobody reads the converter while another task does, as long as no BLE   *)
(* client writes and the operator keeps to commands that do not read it.   *)
OneReader == Cardinality(readers) <= 1

-----------------------------------------------------------------------------
(* What the safety properties rest on *)

MainLabels == Reading \cup {"start", "store", "battery", "create_weighing", "create_button",
                            "create_battery", "create_console", "done"}
WeighingLabels == Reading \cup {"off", "start", "draw", "pause", "settle"}
BatteryLabels  == {"off", "rest", "sampling", "report", "reporting", "flag", "message", "shown",
                   "unflag"}
ConsoleLabels  == Reading \cup {"off", "prompt", "menu_weighing", "menu", "say", "number",
                                "store", "save", "resume_weighing", "resume_battery"}
BtcLabels == Reading \cup {"off", "idle", "suspend_weighing", "suspend_button",
                           "suspend_battery", "measure", "store", "clear", "resume_weighing",
                           "resume_button", "resume_battery"}

(* Each task is in its own code, and off exactly while its handle is NULL. *)
PcOK ==
  /\ pc["main"] \in MainLabels /\ pc["weighing"] \in WeighingLabels
  /\ pc["button"] \in {"off", "poll", "debounce"} /\ pc["battery"] \in BatteryLabels
  /\ pc["console"] \in ConsoleLabels /\ pc["btc"] \in BtcLabels
  /\ \A t \in Task : task[t] = "absent" <=> pc[t] = "off"

(* The tasks in readers are those inside readValue; its caller wants more. *)
ReadOK ==
  /\ \A t \in Task : t \in readers <=> pc[t] \in {"note", "shift"}
  /\ spoiled \subseteq readers
  /\ \A t \in Task : pc[t] \in {"ready", "note", "shift"} => avg[t].left > 0
  /\ \A t \in Task : pc[t] = "averaged" => avg[t].seen # {}

(* app_main alone creates tasks, each at its place in this order. *)
Early == Reading \cup {"start", "store", "battery", "create_weighing"}

CreationOrder ==
  /\ task["btc"] = "absent"      <=> pc["main"] = "start"
  /\ task["weighing"] = "absent" <=> pc["main"] \in Early
  /\ task["button"] = "absent"   <=> pc["main"] \in Early \cup {"create_button"}
  /\ task["battery"] = "absent"  <=> pc["main"] \in Early \cup {"create_button", "create_battery"}
  /\ task["console"] = "absent"  <=> pc["main"] # "done"

(* A BLE tare gets past each vTaskSuspend only if its victim exists: BTC   *)
(* suspends itself otherwise, and nobody resumes BTC.                      *)
BleOrder ==
  /\ pc["btc"] = "suspend_battery" /\ Active("btc") => task["button"] # "absent"
  /\ pc["btc"] = "measure" /\ Active("btc") => task["battery"] # "absent"
  /\ pc["btc"] \in Reading \cup {"store", "clear", "resume_weighing", "resume_button",
                               "resume_battery"} => task["battery"] # "absent"

(* The boot tare sees true samples only, and the weighing task cannot tare *)
(* before tareTask exists.                                                 *)
BootClean ==
  /\ pc["main"] \in Reading => "main" \notin spoiled /\ avg["main"].seen \subseteq Loads
  /\ task["button"] = "absent" => ~tare_flag /\ pc["weighing"] # "settle"
  /\ task["button"] = "absent" /\ pc["weighing"] \in Reading => avg["weighing"].use = "weigh"

(* The menu suspends the battery task as part of an open session. *)
MenuOpen == pc["console"] = "menu" => session

IInv ==
  /\ TypeOK /\ Flags /\ PcOK /\ ReadOK
  /\ CreationOrder /\ BleOrder /\ BootClean /\ MenuOpen

(* Where no BLE client writes and the operator uses no command that reads  *)
(* the converter, neither BTC nor the console gets to a reading.           *)
Unattended == ~BleClient /\ Commands \cap {"t", "c", "sc"} = {}

NoOtherReader ==
  /\ pc["console"] \notin Reading \cup {"number"}
  /\ pc["btc"] \in {"off", "idle"}

-----------------------------------------------------------------------------
(* Liveness *)

(* The weighing task is never stopped for good by the battery task.        *)
KeepsWeighing == []<>(pc["weighing"] = "shift")

(* The display comes back to the mass and nothing else: weighing draws     *)
(* digits 3 to 7 only, so whatever "BATT LO", "HELLO" or "tare" put into   *)
(* digits 0 to 2 has to be cleared by its author.  (While the battery      *)
(* stays low, how often the mass is seen is a matter of timing.)           *)
ShowsMass ==
  <>[]~displaying_batt_low => []<>(screen = [left |-> "blank", right |-> "mass"])

(* A press that is latched while no tare is under way is served by a new   *)
(* tare, however the battery task stops the weighing task meanwhile.  (One *)
(* that is latched during a tare is forgotten with it: tare_flag only goes *)
(* down at its end, weighing_scale.c:226.)                                 *)
Taring ==
  \/ pc["weighing"] \in Reading /\ avg["weighing"].use = "tare"
  \/ pc["weighing"] = "settle"

PressIsServed ==
  tare_flag /\ ~Taring ~>
    avg["weighing"] = [use |-> "tare", left |-> Times["tare"], seen |-> {}]

(* The low battery message ends.                                           *)
LowMessageEnds == displaying_batt_low ~> ~displaying_batt_low

(* The three ways in which BTC can stop: the tare handler suspended itself *)
(* on a NULL handle; a task it suspended inside ESP_LOGI holds stdout; one *)
(* it suspended between two edges of the clock holds the converter down.   *)
StdoutHeld == log # NoTask /\ task[log] = "suspended"
BtcStops   == task["btc"] = "suspended" \/ StdoutHeld \/ PoweredDown

(* Every BLE tare ends, so that BTC takes events again, or one of the three *)
(* lasts for ever.                                                         *)
BleTareEnds == []<>(pc["btc"] \in {"off", "idle"}) \/ <>[]BtcStops

(* The scale weighs on under BLE tares, unless BTC stops for ever.         *)
WeighsOn == []<>(pc["weighing"] = "shift") \/ <>[]BtcStops

-----------------------------------------------------------------------------
(* What the documentation says and the code does not do *)

(* README.md:65, press "m" and "you will be provided a menu": the command  *)
(* reaches the prompt of its menu.                                         *)
MenuAppears == (pc["console"] = "menu_weighing") ~> nested

(* README.md:92, "Tare Weight": the tare of a steady load leaves that      *)
(* load as OFFSET.                                                         *)
BleTareIsTrue == pc["btc"] = "store" => Garbage \notin offset

=============================================================================
