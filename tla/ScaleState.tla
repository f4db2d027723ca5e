----------------------------- MODULE ScaleState -----------------------------
(***************************************************************************)
(* State shared by the tasks of the weighing scale firmware, and the       *)
(* services they share: the FreeRTOS kernel (task handles, vTaskSuspend,   *)
(* vTaskResume, the stdout lock taken by ESP_LOGI and printf), the HX711   *)
(* load-cell converter and its driver, the seven segment display and the   *)
(* values kept in RAM and in NVS.  The tasks themselves are in BootTask,   *)
(* WeighingTasks, BatteryTask, ConsoleTask and BleTareHandler; they are    *)
(* composed in WeighingScale.                                              *)
(***************************************************************************)
EXTENDS Naturals, FiniteSets

CONSTANTS
  Loads,        (* weights the operator may put on the platform            *)
  Garbage,      (* a sample clocked out of the converter out of step       *)
  Times,        (* samples averaged by each use of the converter           *)
  Factors,      (* calibration factors the operator may type               *)
  Unset,        (* NVS holds no value under this key                       *)
  NoTask,       (* nobody holds the stdout lock                            *)
  Adc,          (* readings of the battery's ADC channel                   *)
  Commands,     (* console commands the operator uses ("one" is typed 1)    *)
  Button,       (* the operator presses the tare button                   *)
  BleClient,    (* a BLE client writes the tare characteristic             *)
  PowerLoss,    (* the supply may be switched off and on at any time       *)
  NvsMayFail    (* a write to NVS may fail, and a full NVS is erased at start *)

Task == {"main", "weighing", "button", "battery", "console", "btc"}
Uses == {"gain", "boot", "weigh", "tare", "t", "c", "sc"}
AllCommands == {"m", "x", "one", "t", "c", "sc", "save"}

ASSUME ConstantsAssumption ==
  /\ Garbage \notin Loads
  /\ NoTask \notin Task
  /\ Times \in [Uses -> Nat \ {0}]
  /\ Factors \subseteq Nat
  /\ Unset \notin Nat
  /\ Adc \subseteq 0 .. 4095
  /\ Commands \subseteq AllCommands
  /\ Button \in BOOLEAN
  /\ BleClient \in BOOLEAN
  /\ PowerLoss \in BOOLEAN
  /\ NvsMayFail \in BOOLEAN

VARIABLES
  task,         (* handle NULL ("absent"), ready or blocked ("active"), or "suspended" *)
  pc,           (* where each task is                                      *)
  log,          (* holder of the stdout lock                               *)
  readers,      (* tasks between is_ready() and the end of readValue()     *)
  spoiled,      (* readers whose sample is no longer the converter's       *)
  high,         (* who was stopped with PD_SCK high, if nobody has clocked it since *)
  avg,          (* each task's read_average(): its use, what is left, the samples *)
  offset,       (* OFFSET, as the set of samples it is the average of      *)
  nvsOffset,    (* the offset in NVS; {} is the initial 0                  *)
  scale,        (* SCALE                                                   *)
  nvsScale,     (* the scale in NVS                                        *)
  linechar,     (* the factor last typed under "sc"                        *)
  tare_flag,
  displaying_batt_low,
  screen,       (* who drew digits 0-2 (left) and 3-7 (right)              *)
  nested,       (* the console prompt is inside another command            *)
  session,      (* history: "m" suspended the tasks and no "x" or "save" resumed them *)
  load,         (* the weight on the platform                              *)
  pressed       (* BUTTON_GPIO is low                                      *)

chipVars == <<readers, spoiled, high, avg>>
nvsVars  == <<nvsOffset, nvsScale>>
calVars  == <<offset, scale, linechar, nvsVars>>
uiVars   == <<tare_flag, displaying_batt_low, screen>>
conVars  == <<nested, session>>
envVars  == <<load, pressed>>
vars == <<task, pc, log, chipVars, calVars, uiVars, conVars, envVars>>

Sample  == Loads \cup {Garbage}
Figures == {"blank", "hello", "tare", "batt", "mass"}
Reading == {"ready", "note", "shift", "averaged"}
Labels  == Reading \cup
  {"off", "start", "scale", "store", "battery", "create_weighing", "create_button",
   "create_battery", "create_console", "done", "draw", "pause", "settle", "poll", "debounce",
   "rest", "sampling", "report", "reporting", "flag", "message", "shown", "unflag",
   "prompt", "menu", "say", "number", "save", "resume_weighing", "resume_battery",
   "menu_weighing", "idle", "suspend_weighing", "suspend_button", "suspend_battery", "measure", "clear",
   "resume_button"}

-----------------------------------------------------------------------------
(* The kernel *)

Active(t) == task[t] = "active"

At(t, label) == Active(t) /\ pc[t] = label

Goto(t, label) == pc' = [pc EXCEPT ![t] = label]

(* Task t stops where it is.  Stopped between the two edges of a clock     *)
(* pulse it leaves PD_SCK high, which powers the converter down and spoils *)
(* its sample.  (Stopped again, it may have lowered PD_SCK in between.)    *)
Stop(t) ==
  /\ task' = [task EXCEPT ![t] = "suspended"]
  /\ \/ UNCHANGED <<spoiled, high>>
     \/ Active(t) /\ high' = high \ {t} /\ UNCHANGED spoiled
     \/ Active(t) /\ pc[t] = "shift" /\ high' = {t} /\ spoiled' = spoiled \cup {t}

(* Fault: a NULL handle suspends nobody. *)
SuspendUnlessNull(self, victim) ==
  \/ task[victim] # "absent" /\ Stop(victim)
  \/ task[victim] = "absent" /\ UNCHANGED <<task, spoiled, high>>

(* vTaskSuspend(handle of victim), called by self: NULL means the caller.  *)
Suspend(self, victim) ==
  \/ task[victim] # "absent" /\ Stop(victim)
  \/ task[victim] = "absent" /\ Stop(self)

(* vTaskResume(handle of victim); it asserts that the handle is not NULL.  *)
(* One call undoes any number of suspensions.                              *)
Resume(victim) ==
  /\ task[victim] # "absent"
  /\ task' = [task EXCEPT ![victim] = "active"]

(* xTaskCreate of t, whose code starts at the given label. *)
Create(t, creator, label, next) ==
  /\ task' = [task EXCEPT ![t] = "active"]
  /\ pc' = [pc EXCEPT ![t] = label, ![creator] = next]

-----------------------------------------------------------------------------
(* The HX711 driver *)

NoAverage == [use |-> "gain", left |-> 0, seen |-> {}]

(* Task t calls read_average(Times[use]). *)
StartAverage(t, use) ==
  /\ Goto(t, "ready")
  /\ avg' = [avg EXCEPT ![t] = [use |-> use, left |-> Times[use], seen |-> {}]]

(* The converter is powered down: a suspended task keeps PD_SCK high. *)
PoweredDown == \E u \in high : task[u] = "suspended"

(* readValue finds DOUT low and begins to log.  A converter that is powered *)
(* down keeps DOUT high, and the loop before the first pulse has no limit. *)
ReadReady(t) ==
  /\ At(t, "ready")
  /\ ~PoweredDown
  /\ log = NoTask
  /\ log' = t
  /\ readers' = readers \cup {t}
  /\ Goto(t, "note")
  /\ UNCHANGED <<task, spoiled, high, avg, calVars, uiVars, conVars, envVars>>

(* Its first clock pulse: anyone else who saw DOUT low loses that sample,  *)
(* and a task already clocking the converter spoils this one too.          *)
ReadShift(t) ==
  /\ At(t, "note")
  /\ log' = NoTask
  /\ spoiled' = spoiled \cup (readers \ {t})
                  \cup {u \in {t} : \E o \in readers \ {t} : pc[o] = "shift"}
  /\ high' = {}
  /\ Goto(t, "shift")
  /\ UNCHANGED <<task, readers, avg, calVars, uiVars, conVars, envVars>>

(* The last bit is in; read_average adds the sample up. *)
ReadEnd(t) ==
  /\ At(t, "shift")
  /\ LET sample == IF t \in spoiled THEN Garbage ELSE load
     IN  avg' = [avg EXCEPT ![t] = [use |-> @.use, left |-> @.left - 1, seen |-> @.seen \cup {sample}]]
  /\ readers' = readers \ {t}
  /\ spoiled' = spoiled \ {t}
  /\ high' = {}
  /\ Goto(t, IF avg[t].left = 1 THEN "averaged" ELSE "ready")
  /\ UNCHANGED <<task, log, calVars, uiVars, conVars, envVars>>

Read(t) == ReadReady(t) \/ ReadShift(t) \/ ReadEnd(t)

(* Task t takes the average of the call it made for this use. *)
Averaged(t, use) == At(t, "averaged") /\ avg[t].use = use

EndAverage(t) == avg' = [avg EXCEPT ![t] = NoAverage]

-----------------------------------------------------------------------------
(* Display and NVS *)

(* max7219_draw_text_7seg at digit 0, and max7219_clear. *)
Draw(figure) == screen' = [left |-> figure, right |-> figure]

NvsResults == {TRUE} \cup {ok \in {FALSE} : NvsMayFail}

(* write_offset_nvs and write_scale_nvs; every caller ignores the result. *)
WriteOffset ==
  /\ \E ok \in NvsResults : nvsOffset' = IF ok THEN offset ELSE nvsOffset
  /\ UNCHANGED <<offset, scale, nvsScale, linechar>>

WriteScale ==
  /\ \E ok \in NvsResults : nvsScale' = IF ok THEN scale ELSE nvsScale
  /\ UNCHANGED <<offset, scale, nvsOffset, linechar>>

(* read_offset_nvs and read_scale_nvs leave the default when nothing is stored. *)
StoredScale == IF nvsScale = Unset THEN 1 ELSE nvsScale

(* tare() has its average: set_offset. *)
SetOffset(t) ==
  /\ offset' = avg[t].seen
  /\ UNCHANGED <<scale, linechar, nvsVars>>

=============================================================================
