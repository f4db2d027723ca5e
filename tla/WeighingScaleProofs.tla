------------------------- MODULE WeighingScaleProofs -------------------------
(***************************************************************************)
(* The safety properties of WeighingScale, for all loads, averages,        *)
(* factors, commands and battery readings.  IInv is inductive: one lemma   *)
(* for each of its conjuncts, and one for each property that is inductive  *)
(* relative to it, follows every action of Next, and the theorems at the   *)
(* end put them together.                                                  *)
(***************************************************************************)
EXTENDS WeighingScale, FiniteSetTheorems, TLAPS

(* The tasks that use the converter. *)
Readers == {"main", "weighing", "console", "btc"}

(* The tasks by name. *)
LEMMA Names ==
  {"main", "weighing", "button", "battery", "console", "btc"} \subseteq Task
  BY DEF Task

(* vTaskSuspend keeps the types of what it changes. *)
LEMMA SuspendType ==
  ASSUME NEW self \in Task, NEW victim \in Task, TypeOK, Suspend(self, victim)
  PROVE  /\ task' \in [Task -> {"absent", "active", "suspended"}]
         /\ spoiled' \subseteq Task /\ high' \subseteq Task
  BY SMTT(30) DEF TypeOK, Suspend, Stop

(* A task created by app_main is not reading the converter, nor is app_main. *)
LEMMA CreateReads ==
  ASSUME NEW t \in Task, NEW label \in Labels \ Reading, NEW next \in Labels \ Reading,
         TypeOK, ReadOK, "main" \in Task, pc[t] = "off", pc["main"] \notin Reading,
         Create(t, "main", label, next), UNCHANGED chipVars
  PROVE  ReadOK'
<1>1. pc' \in [Task -> Labels] /\ \A u \in Task : pc'[u] \in Reading => pc'[u] = pc[u]
  BY SMTT(30) DEF TypeOK, Create, Labels, Reading
<1>2. \A u \in Task : pc[u] \in Reading => pc'[u] = pc[u]
  BY SMTT(30) DEF TypeOK, Create, Labels, Reading
<1> QED  BY <1>1, <1>2, SMTT(30) DEF ReadOK, chipVars, Reading

(* The Boolean variables stay Boolean. *)
LEMMA FlagsStep == IInv /\ [Next]_vars => Flags'
<1> SUFFICES ASSUME IInv PROVE [Next]_vars => Flags'
  OBVIOUS
<1> USE DEF IInv, Flags
<1> USE DEF vars, chipVars, calVars, nvsVars, uiVars, conVars, envVars, At, Active, Goto, Resume,
       Typed, StartAverage, Averaged, EndAverage, NoAverage, SetOffset, WriteOffset, WriteScale,
       NvsResults, Draw
<1>1. ASSUME NEW t \in Readers PROVE Read(t) => Flags'
  <2>1. ReadReady(t) => Flags'  BY Zenon DEF ReadReady, Readers
  <2>2. ReadShift(t) => Flags'  BY Zenon DEF ReadShift, Readers
  <2>3. ReadEnd(t) => Flags'  BY Zenon DEF ReadEnd, Readers
  <2> QED  BY ONLY <2>1, <2>2, <2>3 DEF Read
<1>2. MainStep => Flags'
  <2>1. Read("main") => Flags'  BY ONLY <1>1, Zenon DEF Readers
  <2>2. StartUp \/ InitScale \/ BootTare \/ BootStore \/ BootBattery \/ CreateWeighing \/
         CreateButton \/ CreateBattery \/ CreateConsole => Flags'
    BY Zenon DEF StartUp, InitScale, BootTare, BootStore, BootBattery, CreateWeighing,
           CreateButton, CreateBattery, CreateConsole, BootCreate, Create
  <2> QED  BY ONLY <2>1, <2>2, Zenon DEF MainStep
<1>3. WeighingStep => Flags'
  <2>1. Read("weighing") => Flags'  BY ONLY <1>1, Zenon DEF Readers
  <2>2. WeighStart \/ WeighMeasured \/ WeighDraw \/ WeighAgain \/ WeighTare \/ WeighTared \/
         WeighSettled => Flags'
    BY Zenon DEF WeighStart, WeighMeasured, WeighDraw, WeighAgain, WeighTare, WeighTared,
           WeighSettled
  <2> QED  BY ONLY <2>1, <2>2, Zenon DEF WeighingStep
<1>4. ButtonStep => Flags'  BY Zenon DEF ButtonStep, ButtonSeen, ButtonLatched
<1>5. BatteryStep => Flags'
  BY Zenon DEF BatteryStep, BatterySuspend, BatteryResume, BatteryReport, BatteryJudge, LowFlag,
         LowMessage, LowClear, LowUnflag, Suspend, Stop
<1>6. ConsoleInput => Flags'
  BY Zenon DEF ConsoleInput, Menu, CalOrTare, ToAverage, NewCalibrate, TypedFactor,
         SaveNewCalibrate, Exit, Unrecognized, Suspend, Stop
<1>7. ConsoleStep => Flags'
  <2>1. Read("console") => Flags'  BY ONLY <1>1, Zenon DEF Readers
  <2>2. MenuWeighing \/ MenuBattery \/ Say \/ ConsoleTared \/ ConsoleStore \/ Calibrated \/
         SaveScale \/ ResumeWeighing \/ ResumeBattery => Flags'
    BY Zenon DEF MenuWeighing, MenuBattery, Say, ConsoleTared, ConsoleStore, Calibrated,
           SaveScale,
           ResumeWeighing, ResumeBattery, Suspend, Stop
  <2> QED  BY ONLY <2>1, <2>2, Zenon DEF ConsoleStep
<1>8. BtcStep => Flags'
  <2>1. Read("btc") => Flags'  BY ONLY <1>1, Zenon DEF Readers
  <2>2. BleSuspendWeighing \/ BleSuspendButton \/ BleSuspendBattery \/ BleMeasure \/ BleTared \/
         BleStore \/ BleClear \/ BleResumeWeighing \/ BleResumeButton \/ BleResumeBattery =>
         Flags'
    BY Zenon DEF BleSuspendWeighing, BleSuspendButton, BleSuspendBattery, BleMeasure, BleTared,
           BleStore, BleClear, BleResumeWeighing, BleResumeButton, BleResumeBattery, BleSuspend,
           Suspend, Stop, BleResume
  <2> QED  BY ONLY <2>1, <2>2, Zenon DEF BtcStep
<1>9. Environment => Flags'
  BY Zenon DEF Environment, PlaceLoad, PushButton, PowerCycle, EmptyNestedLine, Reboot,
         TaskAtReset, PcAtReset, Blank
<1>10. TareWrite => Flags'  BY Zenon DEF TareWrite
<1>11. UNCHANGED vars => Flags'  BY Zenon
<1> QED  BY ONLY <1>2, <1>3, <1>4, <1>5, <1>6, <1>7, <1>8, <1>9, <1>10, <1>11, Zenon DEF Next

(* Every action keeps the types of the other variables. *)
LEMMA TypeStep == IInv /\ [Next]_vars => TypeOK'
<1> SUFFICES ASSUME IInv PROVE [Next]_vars => TypeOK'
  OBVIOUS
<1> USE Names, ConstantsAssumption DEF IInv, TypeOK, ReadOK, Labels, Reading, Figures, Uses,
       Sample, StoredScale
<1> USE DEF vars, chipVars, calVars, nvsVars, uiVars, conVars, envVars, At, Active, Goto, Resume,
       Typed, StartAverage, Averaged, EndAverage, NoAverage, SetOffset, WriteOffset, WriteScale,
       NvsResults, Draw
<1>1. ASSUME NEW t \in Readers PROVE Read(t) => TypeOK'
  <2>1. ReadReady(t) => TypeOK'  BY SMTT(30) DEF ReadReady, Readers
  <2>2. ReadShift(t) => TypeOK'  BY SMTT(30) DEF ReadShift, Readers
  <2>3. ReadEnd(t) => TypeOK'  BY SMTT(30) DEF ReadEnd, Readers
  <2> QED  BY ONLY <2>1, <2>2, <2>3 DEF Read
<1>2. MainStep => TypeOK'
  <2>1. StartUp => TypeOK'  BY SMTT(30) DEF StartUp
  <2>2. InitScale => TypeOK'  BY SMTT(30) DEF InitScale
  <2>3. BootTare => TypeOK'  BY SMTT(30) DEF BootTare
  <2>4. BootStore => TypeOK'  BY SMTT(30) DEF BootStore
  <2>5. BootBattery => TypeOK'  BY SMTT(30) DEF BootBattery
  <2>6. CreateWeighing => TypeOK'
    <3> SUFFICES ASSUME CreateWeighing PROVE TypeOK'
      OBVIOUS
    <3>1. task' \in [Task -> {"absent", "active", "suspended"}]
      BY SMTT(30) DEF CreateWeighing, BootCreate, Create
    <3>2. pc' \in [Task -> Labels]
      BY SMTT(30) DEF CreateWeighing, BootCreate, Create
    <3> QED  BY <3>1, <3>2, SMTT(30) DEF CreateWeighing, BootCreate
  <2>7. CreateButton => TypeOK'
    <3> SUFFICES ASSUME CreateButton PROVE TypeOK'
      OBVIOUS
    <3>1. task' \in [Task -> {"absent", "active", "suspended"}]
      BY SMTT(30) DEF CreateButton, BootCreate, Create
    <3>2. pc' \in [Task -> Labels]
      BY SMTT(30) DEF CreateButton, BootCreate, Create
    <3> QED  BY <3>1, <3>2, SMTT(30) DEF CreateButton, BootCreate
  <2>8. CreateBattery => TypeOK'
    <3> SUFFICES ASSUME CreateBattery PROVE TypeOK'
      OBVIOUS
    <3>1. task' \in [Task -> {"absent", "active", "suspended"}]
      BY SMTT(30) DEF CreateBattery, BootCreate, Create
    <3>2. pc' \in [Task -> Labels]
      BY SMTT(30) DEF CreateBattery, BootCreate, Create
    <3> QED  BY <3>1, <3>2, SMTT(30) DEF CreateBattery, BootCreate
  <2>9. CreateConsole => TypeOK'
    <3> SUFFICES ASSUME CreateConsole PROVE TypeOK'
      OBVIOUS
    <3>1. task' \in [Task -> {"absent", "active", "suspended"}]
      BY SMTT(30) DEF CreateConsole, BootCreate, Create
    <3>2. pc' \in [Task -> Labels]
      BY SMTT(30) DEF CreateConsole, BootCreate, Create
    <3> QED  BY <3>1, <3>2, SMTT(30) DEF CreateConsole, BootCreate
  <2>10. Read("main") => TypeOK'  BY ONLY <1>1, Zenon DEF Readers
  <2> QED  BY ONLY <2>1, <2>2, <2>3, <2>4, <2>5, <2>6, <2>7, <2>8, <2>9, <2>10, Zenon DEF MainStep
<1>3. WeighingStep => TypeOK'
  <2>1. WeighStart => TypeOK'  BY SMTT(30) DEF WeighStart
  <2>2. WeighMeasured => TypeOK'  BY SMTT(30) DEF WeighMeasured
  <2>3. WeighDraw => TypeOK'  BY SMTT(30) DEF WeighDraw
  <2>4. WeighAgain => TypeOK'  BY SMTT(30) DEF WeighAgain
  <2>5. WeighTare => TypeOK'  BY SMTT(30) DEF WeighTare
  <2>6. WeighTared => TypeOK'  BY SMTT(30) DEF WeighTared
  <2>7. WeighSettled => TypeOK'  BY SMTT(30) DEF WeighSettled
  <2>8. Read("weighing") => TypeOK'  BY ONLY <1>1, Zenon DEF Readers
  <2> QED  BY ONLY <2>1, <2>2, <2>3, <2>4, <2>5, <2>6, <2>7, <2>8, Zenon DEF WeighingStep
<1>4. ButtonStep => TypeOK'
  <2>1. ButtonSeen => TypeOK'  BY SMTT(30) DEF ButtonSeen
  <2>2. ButtonLatched => TypeOK'  BY SMTT(30) DEF ButtonLatched
  <2> QED  BY ONLY <2>1, <2>2, Zenon DEF ButtonStep
<1>5. BatteryStep => TypeOK'
  <2>1. BatterySuspend => TypeOK'
    BY SuspendType, SMTT(30) DEF BatterySuspend
  <2>2. BatteryResume => TypeOK'  BY SMTT(30) DEF BatteryResume
  <2>3. BatteryReport => TypeOK'  BY SMTT(30) DEF BatteryReport
  <2>4. BatteryJudge => TypeOK'  BY SMTT(30) DEF BatteryJudge
  <2>5. LowFlag => TypeOK'  BY SMTT(30) DEF LowFlag
  <2>6. LowMessage => TypeOK'  BY SMTT(30) DEF LowMessage
  <2>7. LowClear => TypeOK'  BY SMTT(30) DEF LowClear
  <2>8. LowUnflag => TypeOK'  BY SMTT(30) DEF LowUnflag
  <2> QED  BY ONLY <2>1, <2>2, <2>3, <2>4, <2>5, <2>6, <2>7, <2>8, Zenon DEF BatteryStep
<1>6. ConsoleInput => TypeOK'
  <2>1. Menu => TypeOK'
    BY SuspendType, SMTT(30) DEF Menu
  <2>2. CalOrTare => TypeOK'  BY SMTT(30) DEF CalOrTare
  <2>3. ToAverage => TypeOK'  BY SMTT(30) DEF ToAverage
  <2>4. NewCalibrate => TypeOK'  BY SMTT(30) DEF NewCalibrate
  <2>5. TypedFactor => TypeOK'  BY SMTT(30) DEF TypedFactor
  <2>6. SaveNewCalibrate => TypeOK'  BY SMTT(30) DEF SaveNewCalibrate
  <2>7. Exit => TypeOK'  BY SMTT(30) DEF Exit
  <2>8. Unrecognized => TypeOK'  BY SMTT(30) DEF Unrecognized
  <2> QED  BY ONLY <2>1, <2>2, <2>3, <2>4, <2>5, <2>6, <2>7, <2>8, Zenon DEF ConsoleInput
<1>7. ConsoleStep => TypeOK'
  <2>1. MenuBattery => TypeOK'
    BY SuspendType, SMTT(30) DEF MenuBattery
  <2>2. Say => TypeOK'  BY SMTT(30) DEF Say
  <2>3. ConsoleTared => TypeOK'  BY SMTT(30) DEF ConsoleTared
  <2>4. ConsoleStore => TypeOK'  BY SMTT(30) DEF ConsoleStore
  <2>5. Calibrated => TypeOK'  BY SMTT(30) DEF Calibrated
  <2>6. SaveScale => TypeOK'  BY SMTT(30) DEF SaveScale
  <2>7. ResumeWeighing => TypeOK'  BY SMTT(30) DEF ResumeWeighing
  <2>8. ResumeBattery => TypeOK'  BY SMTT(30) DEF ResumeBattery
  <2>9. Read("console") => TypeOK'  BY ONLY <1>1, Zenon DEF Readers
  <2>10. MenuWeighing => TypeOK'
    BY SuspendType, SMTT(30) DEF MenuWeighing
  <2> QED  BY ONLY <2>1, <2>2, <2>3, <2>4, <2>5, <2>6, <2>7, <2>8, <2>9, <2>10, Zenon DEF
         ConsoleStep
<1>8. BtcStep => TypeOK'
  <2>1. BleSuspendWeighing => TypeOK'
    BY SuspendType, SMTT(30) DEF BleSuspendWeighing, BleSuspend
  <2>2. BleSuspendButton => TypeOK'
    BY SuspendType, SMTT(30) DEF BleSuspendButton, BleSuspend
  <2>3. BleSuspendBattery => TypeOK'
    BY SuspendType, SMTT(30) DEF BleSuspendBattery, BleSuspend
  <2>4. BleMeasure => TypeOK'  BY SMTT(30) DEF BleMeasure
  <2>5. BleTared => TypeOK'  BY SMTT(30) DEF BleTared
  <2>6. BleStore => TypeOK'  BY SMTT(30) DEF BleStore
  <2>7. BleClear => TypeOK'  BY SMTT(30) DEF BleClear
  <2>8. BleResumeWeighing => TypeOK'  BY SMTT(30) DEF BleResumeWeighing, BleResume
  <2>9. BleResumeButton => TypeOK'  BY SMTT(30) DEF BleResumeButton, BleResume
  <2>10. BleResumeBattery => TypeOK'  BY SMTT(30) DEF BleResumeBattery, BleResume
  <2>11. Read("btc") => TypeOK'  BY ONLY <1>1, Zenon DEF Readers
  <2> QED  BY ONLY <2>1, <2>2, <2>3, <2>4, <2>5, <2>6, <2>7, <2>8, <2>9, <2>10, <2>11, Zenon DEF
         BtcStep
<1>9. Environment => TypeOK'
  <2>1. PlaceLoad => TypeOK'  BY SMTT(30) DEF PlaceLoad
  <2>2. PushButton => TypeOK'  BY SMTT(30) DEF PushButton
  <2>3. PowerCycle => TypeOK'  BY SMTT(30) DEF PowerCycle, Reboot, TaskAtReset, PcAtReset, Blank
  <2>4. EmptyNestedLine => TypeOK'
    BY SMTT(30) DEF EmptyNestedLine, Reboot, TaskAtReset, PcAtReset, Blank
  <2> QED  BY ONLY <2>1, <2>2, <2>3, <2>4, Zenon DEF Environment
<1>10. TareWrite => TypeOK'  BY SMTT(30) DEF TareWrite
<1>11. UNCHANGED vars => TypeOK'  BY SMTT(30)
<1> QED  BY ONLY <1>2, <1>3, <1>4, <1>5, <1>6, <1>7, <1>8, <1>9, <1>10, <1>11, Zenon DEF Next

(* A task stays in its own code, and off exactly while its handle is NULL. *)
LEMMA PcStep == IInv /\ [Next]_vars => PcOK'
<1> SUFFICES ASSUME IInv PROVE [Next]_vars => PcOK'
  OBVIOUS
<1> USE Names, ConstantsAssumption DEF IInv, TypeOK, PcOK, Reading, MainLabels, WeighingLabels,
       BatteryLabels, ConsoleLabels, BtcLabels
<1> USE DEF vars, chipVars, calVars, nvsVars, uiVars, conVars, envVars, At, Active, Goto, Resume,
       Typed, StartAverage, Averaged, EndAverage, NoAverage, SetOffset, WriteOffset, WriteScale,
       NvsResults, Draw
<1>1. ASSUME NEW t \in Readers PROVE Read(t) => PcOK'
  <2>1. ReadReady(t) => PcOK'  BY SMTT(30) DEF ReadReady, Readers
  <2>2. ReadShift(t) => PcOK'  BY SMTT(30) DEF ReadShift, Readers
  <2>3. ReadEnd(t) => PcOK'  BY SMTT(30) DEF ReadEnd, Readers
  <2> QED  BY ONLY <2>1, <2>2, <2>3 DEF Read
<1>2. MainStep => PcOK'
  <2>1. StartUp => PcOK'  BY SMTT(30) DEF StartUp
  <2>2. InitScale => PcOK'  BY SMTT(30) DEF InitScale
  <2>3. BootTare => PcOK'  BY SMTT(30) DEF BootTare
  <2>4. BootStore => PcOK'  BY SMTT(30) DEF BootStore
  <2>5. BootBattery => PcOK'  BY SMTT(30) DEF BootBattery
  <2>6. CreateWeighing => PcOK'  BY SMTT(30) DEF CreateWeighing, BootCreate, Create
  <2>7. CreateButton => PcOK'  BY SMTT(30) DEF CreateButton, BootCreate, Create
  <2>8. CreateBattery => PcOK'  BY SMTT(30) DEF CreateBattery, BootCreate, Create
  <2>9. CreateConsole => PcOK'  BY SMTT(30) DEF CreateConsole, BootCreate, Create
  <2>10. Read("main") => PcOK'  BY ONLY <1>1, Zenon DEF Readers
  <2> QED  BY ONLY <2>1, <2>2, <2>3, <2>4, <2>5, <2>6, <2>7, <2>8, <2>9, <2>10, Zenon DEF MainStep
<1>3. WeighingStep => PcOK'
  <2>1. Read("weighing") => PcOK'  BY ONLY <1>1, Zenon DEF Readers
  <2>2. WeighStart \/ WeighMeasured \/ WeighDraw \/ WeighAgain \/ WeighTare \/ WeighTared \/
         WeighSettled => PcOK'
    BY SMTT(30) DEF WeighStart, WeighMeasured, WeighDraw, WeighAgain, WeighTare, WeighTared,
           WeighSettled
  <2> QED  BY ONLY <2>1, <2>2, Zenon DEF WeighingStep
<1>4. ButtonStep => PcOK'  BY SMTT(30) DEF ButtonStep, ButtonSeen, ButtonLatched
<1>5. BatteryStep => PcOK'
  <2>1. BatterySuspend => PcOK'  BY SMTT(30) DEF BatterySuspend, Suspend, Stop
  <2>2. BatteryResume => PcOK'  BY SMTT(30) DEF BatteryResume
  <2>3. BatteryReport => PcOK'  BY SMTT(30) DEF BatteryReport
  <2>4. BatteryJudge => PcOK'  BY SMTT(30) DEF BatteryJudge
  <2>5. LowFlag => PcOK'  BY SMTT(30) DEF LowFlag
  <2>6. LowMessage => PcOK'  BY SMTT(30) DEF LowMessage
  <2>7. LowClear => PcOK'  BY SMTT(30) DEF LowClear
  <2>8. LowUnflag => PcOK'  BY SMTT(30) DEF LowUnflag
  <2> QED  BY ONLY <2>1, <2>2, <2>3, <2>4, <2>5, <2>6, <2>7, <2>8, Zenon DEF BatteryStep
<1>6. ConsoleInput => PcOK'
  <2>1. Menu => PcOK'  BY SMTT(30) DEF Menu, Suspend, Stop
  <2>2. CalOrTare => PcOK'  BY SMTT(30) DEF CalOrTare
  <2>3. ToAverage => PcOK'  BY SMTT(30) DEF ToAverage
  <2>4. NewCalibrate => PcOK'  BY SMTT(30) DEF NewCalibrate
  <2>5. TypedFactor => PcOK'  BY SMTT(30) DEF TypedFactor
  <2>6. SaveNewCalibrate => PcOK'  BY SMTT(30) DEF SaveNewCalibrate
  <2>7. Exit => PcOK'  BY SMTT(30) DEF Exit
  <2>8. Unrecognized => PcOK'  BY SMTT(30) DEF Unrecognized
  <2> QED  BY ONLY <2>1, <2>2, <2>3, <2>4, <2>5, <2>6, <2>7, <2>8, Zenon DEF ConsoleInput
<1>7. ConsoleStep => PcOK'
  <2>1. MenuBattery => PcOK'  BY SMTT(30) DEF MenuBattery, Suspend, Stop
  <2>2. Say => PcOK'  BY SMTT(30) DEF Say
  <2>3. ConsoleTared => PcOK'  BY SMTT(30) DEF ConsoleTared
  <2>4. ConsoleStore => PcOK'  BY SMTT(30) DEF ConsoleStore
  <2>5. Calibrated => PcOK'  BY SMTT(30) DEF Calibrated
  <2>6. SaveScale => PcOK'  BY SMTT(30) DEF SaveScale
  <2>7. ResumeWeighing => PcOK'  BY SMTT(30) DEF ResumeWeighing
  <2>8. ResumeBattery => PcOK'  BY SMTT(30) DEF ResumeBattery
  <2>9. Read("console") => PcOK'  BY ONLY <1>1, Zenon DEF Readers
  <2>10. MenuWeighing => PcOK'  BY SMTT(30) DEF MenuWeighing, Suspend, Stop
  <2> QED  BY ONLY <2>1, <2>2, <2>3, <2>4, <2>5, <2>6, <2>7, <2>8, <2>9, <2>10, Zenon DEF
         ConsoleStep
<1>8. BtcStep => PcOK'
  <2>1. BleSuspendWeighing => PcOK'  BY SMTT(30) DEF BleSuspendWeighing, BleSuspend, Suspend, Stop
  <2>2. BleSuspendButton => PcOK'  BY SMTT(30) DEF BleSuspendButton, BleSuspend, Suspend, Stop
  <2>3. BleSuspendBattery => PcOK'  BY SMTT(30) DEF BleSuspendBattery, BleSuspend, Suspend, Stop
  <2>4. BleMeasure => PcOK'  BY SMTT(30) DEF BleMeasure
  <2>5. BleTared => PcOK'  BY SMTT(30) DEF BleTared
  <2>6. BleStore => PcOK'  BY SMTT(30) DEF BleStore
  <2>7. BleClear => PcOK'  BY SMTT(30) DEF BleClear
  <2>8. BleResumeWeighing => PcOK'  BY SMTT(30) DEF BleResumeWeighing, BleResume
  <2>9. BleResumeButton => PcOK'  BY SMTT(30) DEF BleResumeButton, BleResume
  <2>10. BleResumeBattery => PcOK'  BY SMTT(30) DEF BleResumeBattery, BleResume
  <2>11. Read("btc") => PcOK'  BY ONLY <1>1, Zenon DEF Readers
  <2> QED  BY ONLY <2>1, <2>2, <2>3, <2>4, <2>5, <2>6, <2>7, <2>8, <2>9, <2>10, <2>11, Zenon DEF
         BtcStep
<1>9. Environment => PcOK'
  <2>1. PlaceLoad => PcOK'  BY SMTT(30) DEF PlaceLoad
  <2>2. PushButton => PcOK'  BY SMTT(30) DEF PushButton
  <2>3. PowerCycle => PcOK'  BY SMTT(30) DEF PowerCycle, Reboot, TaskAtReset, PcAtReset, Blank
  <2>4. EmptyNestedLine => PcOK'
    BY SMTT(30) DEF EmptyNestedLine, Reboot, TaskAtReset, PcAtReset, Blank
  <2> QED  BY ONLY <2>1, <2>2, <2>3, <2>4, Zenon DEF Environment
<1>10. TareWrite => PcOK'  BY SMTT(30) DEF TareWrite
<1>11. UNCHANGED vars => PcOK'  BY SMTT(30)
<1> QED  BY ONLY <1>2, <1>3, <1>4, <1>5, <1>6, <1>7, <1>8, <1>9, <1>10, <1>11, Zenon DEF Next

(* readers are the tasks inside readValue, and no average is of nothing. *)
LEMMA ReadStep == IInv /\ [Next]_vars => ReadOK'
<1> SUFFICES ASSUME IInv PROVE [Next]_vars => ReadOK'
  OBVIOUS
<1> USE Names, ConstantsAssumption DEF IInv, TypeOK, PcOK, ReadOK, CreationOrder, Early, Uses,
       Reading, MainLabels, WeighingLabels, BatteryLabels, ConsoleLabels, BtcLabels
<1> USE DEF vars, chipVars, calVars, nvsVars, uiVars, conVars, envVars, At, Active, Goto, Resume,
       Typed, StartAverage, Averaged, EndAverage, NoAverage, SetOffset, WriteOffset, WriteScale,
       NvsResults, Draw
<1>1. ASSUME NEW t \in Readers PROVE Read(t) => ReadOK'
  <2>1. ReadReady(t) => ReadOK'  BY SMTT(30) DEF ReadReady, Readers
  <2>2. ReadShift(t) => ReadOK'  BY SMTT(30) DEF ReadShift, Readers
  <2>3. ReadEnd(t) => ReadOK'
    <3> SUFFICES ASSUME ReadEnd(t) PROVE ReadOK'
      OBVIOUS
    <3>1. PICK s : avg' = [avg EXCEPT ![t] = [use |-> @.use, left |-> @.left - 1,
                                              seen |-> @.seen \cup {s}]]
      BY ONLY ReadEnd(t) DEF ReadEnd
    <3>2. t \in Task /\ avg[t].left \in Nat \ {0}
      BY SMTT(30) DEF ReadEnd, Readers
    <3>3. pc'[t] = "averaged" \/ (pc'[t] = "ready" /\ avg[t].left # 1)
      BY SMTT(30) DEF ReadEnd, Readers
    <3>4. s \in avg'[t].seen /\ avg'[t].left = avg[t].left - 1
      BY ONLY <3>1, <3>2, IInv, SMTT(30) DEF IInv, TypeOK
    <3>5. \A u \in Task \ {t} : avg'[u] = avg[u] /\ pc'[u] = pc[u]
      BY SMTT(30) DEF ReadEnd, Readers
    <3>6. readers' = readers \ {t} /\ spoiled' = spoiled \ {t}
      BY SMTT(30) DEF ReadEnd, Readers
    <3>7. avg'[t].seen # {} /\ (pc'[t] = "ready" => avg'[t].left > 0)
      BY ONLY <3>2, <3>3, <3>4, SMTT(30)
    <3> QED
      BY ONLY <3>3, <3>5, <3>6, <3>7, IInv, SMTT(30) DEF IInv, ReadOK
  <2> QED  BY ONLY <2>1, <2>2, <2>3 DEF Read
<1>2. MainStep => ReadOK'
  <2>1. StartUp => ReadOK'  BY SMTT(30) DEF StartUp
  <2>2. InitScale => ReadOK'  BY SMTT(30) DEF InitScale
  <2>3. BootTare => ReadOK'  BY SMTT(30) DEF BootTare
  <2>4. BootStore => ReadOK'  BY SMTT(30) DEF BootStore
  <2>5. BootBattery => ReadOK'  BY SMTT(30) DEF BootBattery
  <2>6. CreateWeighing => ReadOK'
    <3> SUFFICES ASSUME CreateWeighing PROVE ReadOK'
      OBVIOUS
    <3>1. pc["weighing"] = "off" /\ pc["main"] \notin Reading
      BY SMTT(30) DEF CreateWeighing, BootCreate
    <3> QED  BY ONLY <3>1, CreateReads, IInv, CreateWeighing, Names, SMTT(30)
             DEF CreateWeighing, BootCreate, IInv, Labels, Reading, chipVars
  <2>7. CreateButton => ReadOK'
    <3> SUFFICES ASSUME CreateButton PROVE ReadOK'
      OBVIOUS
    <3>1. pc["button"] = "off" /\ pc["main"] \notin Reading
      BY SMTT(30) DEF CreateButton, BootCreate
    <3> QED  BY ONLY <3>1, CreateReads, IInv, CreateButton, Names, SMTT(30)
             DEF CreateButton, BootCreate, IInv, Labels, Reading, chipVars
  <2>8. CreateBattery => ReadOK'
    <3> SUFFICES ASSUME CreateBattery PROVE ReadOK'
      OBVIOUS
    <3>1. pc["battery"] = "off" /\ pc["main"] \notin Reading
      BY SMTT(30) DEF CreateBattery, BootCreate
    <3> QED  BY ONLY <3>1, CreateReads, IInv, CreateBattery, Names, SMTT(30)
             DEF CreateBattery, BootCreate, IInv, Labels, Reading, chipVars
  <2>9. CreateConsole => ReadOK'
    <3> SUFFICES ASSUME CreateConsole PROVE ReadOK'
      OBVIOUS
    <3>1. pc["console"] = "off" /\ pc["main"] \notin Reading
      BY SMTT(30) DEF CreateConsole, BootCreate
    <3> QED  BY ONLY <3>1, CreateReads, IInv, CreateConsole, Names, SMTT(30)
             DEF CreateConsole, BootCreate, IInv, Labels, Reading, chipVars
  <2>10. Read("main") => ReadOK'  BY ONLY <1>1, Zenon DEF Readers
  <2> QED  BY ONLY <2>1, <2>2, <2>3, <2>4, <2>5, <2>6, <2>7, <2>8, <2>9, <2>10, Zenon DEF MainStep
<1>3. WeighingStep => ReadOK'
  <2>1. WeighStart => ReadOK'  BY SMTT(30) DEF WeighStart
  <2>2. WeighMeasured => ReadOK'  BY SMTT(30) DEF WeighMeasured
  <2>3. WeighDraw => ReadOK'  BY SMTT(30) DEF WeighDraw
  <2>4. WeighAgain => ReadOK'  BY SMTT(30) DEF WeighAgain
  <2>5. WeighTare => ReadOK'  BY SMTT(30) DEF WeighTare
  <2>6. WeighTared => ReadOK'  BY SMTT(30) DEF WeighTared
  <2>7. WeighSettled => ReadOK'  BY SMTT(30) DEF WeighSettled
  <2>8. Read("weighing") => ReadOK'  BY ONLY <1>1, Zenon DEF Readers
  <2> QED  BY ONLY <2>1, <2>2, <2>3, <2>4, <2>5, <2>6, <2>7, <2>8, Zenon DEF WeighingStep
<1>4. ButtonStep => ReadOK'
  <2>1. ButtonSeen => ReadOK'  BY SMTT(30) DEF ButtonSeen
  <2>2. ButtonLatched => ReadOK'  BY SMTT(30) DEF ButtonLatched
  <2> QED  BY ONLY <2>1, <2>2, Zenon DEF ButtonStep
<1>5. BatteryStep => ReadOK'
  <2>1. BatterySuspend => ReadOK'  BY SMTT(30) DEF BatterySuspend, Suspend, Stop
  <2>2. BatteryResume => ReadOK'  BY SMTT(30) DEF BatteryResume
  <2>3. BatteryReport => ReadOK'  BY SMTT(30) DEF BatteryReport
  <2>4. BatteryJudge => ReadOK'  BY SMTT(30) DEF BatteryJudge
  <2>5. LowFlag => ReadOK'  BY SMTT(30) DEF LowFlag
  <2>6. LowMessage => ReadOK'  BY SMTT(30) DEF LowMessage
  <2>7. LowClear => ReadOK'  BY SMTT(30) DEF LowClear
  <2>8. LowUnflag => ReadOK'  BY SMTT(30) DEF LowUnflag
  <2> QED  BY ONLY <2>1, <2>2, <2>3, <2>4, <2>5, <2>6, <2>7, <2>8, Zenon DEF BatteryStep
<1>6. ConsoleInput => ReadOK'
  <2>1. Menu => ReadOK'  BY SMTT(30) DEF Menu, Suspend, Stop
  <2>2. CalOrTare => ReadOK'  BY SMTT(30) DEF CalOrTare
  <2>3. ToAverage => ReadOK'  BY SMTT(30) DEF ToAverage
  <2>4. NewCalibrate => ReadOK'  BY SMTT(30) DEF NewCalibrate
  <2>5. TypedFactor => ReadOK'  BY SMTT(30) DEF TypedFactor
  <2>6. SaveNewCalibrate => ReadOK'  BY SMTT(30) DEF SaveNewCalibrate
  <2>7. Exit => ReadOK'  BY SMTT(30) DEF Exit
  <2>8. Unrecognized => ReadOK'  BY SMTT(30) DEF Unrecognized
  <2> QED  BY ONLY <2>1, <2>2, <2>3, <2>4, <2>5, <2>6, <2>7, <2>8, Zenon DEF ConsoleInput
<1>7. ConsoleStep => ReadOK'
  <2>1. MenuBattery => ReadOK'  BY SMTT(30) DEF MenuBattery, Suspend, Stop
  <2>2. Say => ReadOK'  BY SMTT(30) DEF Say
  <2>3. ConsoleTared => ReadOK'  BY SMTT(30) DEF ConsoleTared
  <2>4. ConsoleStore => ReadOK'  BY SMTT(30) DEF ConsoleStore
  <2>5. Calibrated => ReadOK'  BY SMTT(30) DEF Calibrated
  <2>6. SaveScale => ReadOK'  BY SMTT(30) DEF SaveScale
  <2>7. ResumeWeighing => ReadOK'  BY SMTT(30) DEF ResumeWeighing
  <2>8. ResumeBattery => ReadOK'  BY SMTT(30) DEF ResumeBattery
  <2>9. Read("console") => ReadOK'  BY ONLY <1>1, Zenon DEF Readers
  <2>10. MenuWeighing => ReadOK'  BY SMTT(30) DEF MenuWeighing, Suspend, Stop
  <2> QED  BY ONLY <2>1, <2>2, <2>3, <2>4, <2>5, <2>6, <2>7, <2>8, <2>9, <2>10, Zenon DEF
         ConsoleStep
<1>8. BtcStep => ReadOK'
  <2>1. BleSuspendWeighing => ReadOK'
    BY SMTT(30) DEF BleSuspendWeighing, BleSuspend, Suspend, Stop
  <2>2. BleSuspendButton => ReadOK'  BY SMTT(30) DEF BleSuspendButton, BleSuspend, Suspend, Stop
  <2>3. BleSuspendBattery => ReadOK'  BY SMTT(30) DEF BleSuspendBattery, BleSuspend, Suspend, Stop
  <2>4. BleMeasure => ReadOK'  BY SMTT(30) DEF BleMeasure
  <2>5. BleTared => ReadOK'  BY SMTT(30) DEF BleTared
  <2>6. BleStore => ReadOK'  BY SMTT(30) DEF BleStore
  <2>7. BleClear => ReadOK'  BY SMTT(30) DEF BleClear
  <2>8. BleResumeWeighing => ReadOK'  BY SMTT(30) DEF BleResumeWeighing, BleResume
  <2>9. BleResumeButton => ReadOK'  BY SMTT(30) DEF BleResumeButton, BleResume
  <2>10. BleResumeBattery => ReadOK'  BY SMTT(30) DEF BleResumeBattery, BleResume
  <2>11. Read("btc") => ReadOK'  BY ONLY <1>1, Zenon DEF Readers
  <2> QED  BY ONLY <2>1, <2>2, <2>3, <2>4, <2>5, <2>6, <2>7, <2>8, <2>9, <2>10, <2>11, Zenon DEF
         BtcStep
<1>9. Environment => ReadOK'
  <2>1. PlaceLoad => ReadOK'  BY SMTT(30) DEF PlaceLoad
  <2>2. PushButton => ReadOK'  BY SMTT(30) DEF PushButton
  <2>3. PowerCycle => ReadOK'  BY SMTT(30) DEF PowerCycle, Reboot, TaskAtReset, PcAtReset, Blank
  <2>4. EmptyNestedLine => ReadOK'
    BY SMTT(30) DEF EmptyNestedLine, Reboot, TaskAtReset, PcAtReset, Blank
  <2> QED  BY ONLY <2>1, <2>2, <2>3, <2>4, Zenon DEF Environment
<1>10. TareWrite => ReadOK'  BY SMTT(30) DEF TareWrite
<1>11. UNCHANGED vars => ReadOK'  BY SMTT(30)
<1> QED  BY ONLY <1>2, <1>3, <1>4, <1>5, <1>6, <1>7, <1>8, <1>9, <1>10, <1>11, Zenon DEF Next

(* A handle is set where app_main has created its task and nowhere else. *)
LEMMA CreationStep == IInv /\ [Next]_vars => CreationOrder'
<1> SUFFICES ASSUME IInv PROVE [Next]_vars => CreationOrder'
  OBVIOUS
<1> USE Names, ConstantsAssumption DEF IInv, TypeOK, PcOK, CreationOrder, Early, Reading,
       MainLabels, WeighingLabels, BatteryLabels, ConsoleLabels, BtcLabels
<1> USE DEF vars, chipVars, calVars, nvsVars, uiVars, conVars, envVars, At, Active, Goto, Resume,
       Typed, StartAverage, Averaged, EndAverage, NoAverage, SetOffset, WriteOffset, WriteScale,
       NvsResults, Draw
<1>1. ASSUME NEW t \in Readers PROVE Read(t) => CreationOrder'
  <2>1. ReadReady(t) => CreationOrder'  BY SMTT(30) DEF ReadReady, Readers
  <2>2. ReadShift(t) => CreationOrder'  BY SMTT(30) DEF ReadShift, Readers
  <2>3. ReadEnd(t) => CreationOrder'  BY SMTT(30) DEF ReadEnd, Readers
  <2> QED  BY ONLY <2>1, <2>2, <2>3 DEF Read
<1>2. MainStep => CreationOrder'
  <2>1. StartUp => CreationOrder'  BY SMTT(30) DEF StartUp
  <2>2. InitScale => CreationOrder'  BY SMTT(30) DEF InitScale
  <2>3. BootTare => CreationOrder'  BY SMTT(30) DEF BootTare
  <2>4. BootStore => CreationOrder'  BY SMTT(30) DEF BootStore
  <2>5. BootBattery => CreationOrder'  BY SMTT(30) DEF BootBattery
  <2>6. CreateWeighing => CreationOrder'  BY SMTT(30) DEF CreateWeighing, BootCreate, Create
  <2>7. CreateButton => CreationOrder'  BY SMTT(30) DEF CreateButton, BootCreate, Create
  <2>8. CreateBattery => CreationOrder'  BY SMTT(30) DEF CreateBattery, BootCreate, Create
  <2>9. CreateConsole => CreationOrder'  BY SMTT(30) DEF CreateConsole, BootCreate, Create
  <2>10. Read("main") => CreationOrder'  BY ONLY <1>1, Zenon DEF Readers
  <2> QED  BY ONLY <2>1, <2>2, <2>3, <2>4, <2>5, <2>6, <2>7, <2>8, <2>9, <2>10, Zenon DEF MainStep
<1>3. WeighingStep => CreationOrder'
  <2>1. Read("weighing") => CreationOrder'  BY ONLY <1>1, Zenon DEF Readers
  <2>2. WeighStart \/ WeighMeasured \/ WeighDraw \/ WeighAgain \/ WeighTare \/ WeighTared \/
         WeighSettled => CreationOrder'
    BY SMTT(30) DEF WeighStart, WeighMeasured, WeighDraw, WeighAgain, WeighTare, WeighTared,
           WeighSettled
  <2> QED  BY ONLY <2>1, <2>2, Zenon DEF WeighingStep
<1>4. ButtonStep => CreationOrder'  BY SMTT(30) DEF ButtonStep, ButtonSeen, ButtonLatched
<1>5. BatteryStep => CreationOrder'
  <2>1. BatterySuspend => CreationOrder'  BY SMTT(30) DEF BatterySuspend, Suspend, Stop
  <2>2. BatteryResume => CreationOrder'  BY SMTT(30) DEF BatteryResume
  <2>3. BatteryReport => CreationOrder'  BY SMTT(30) DEF BatteryReport
  <2>4. BatteryJudge => CreationOrder'  BY SMTT(30) DEF BatteryJudge
  <2>5. LowFlag => CreationOrder'  BY SMTT(30) DEF LowFlag
  <2>6. LowMessage => CreationOrder'  BY SMTT(30) DEF LowMessage
  <2>7. LowClear => CreationOrder'  BY SMTT(30) DEF LowClear
  <2>8. LowUnflag => CreationOrder'  BY SMTT(30) DEF LowUnflag
  <2> QED  BY ONLY <2>1, <2>2, <2>3, <2>4, <2>5, <2>6, <2>7, <2>8, Zenon DEF BatteryStep
<1>6. ConsoleInput => CreationOrder'
  <2>1. Menu => CreationOrder'  BY SMTT(30) DEF Menu, Suspend, Stop
  <2>2. CalOrTare => CreationOrder'  BY SMTT(30) DEF CalOrTare
  <2>3. ToAverage => CreationOrder'  BY SMTT(30) DEF ToAverage
  <2>4. NewCalibrate => CreationOrder'  BY SMTT(30) DEF NewCalibrate
  <2>5. TypedFactor => CreationOrder'  BY SMTT(30) DEF TypedFactor
  <2>6. SaveNewCalibrate => CreationOrder'  BY SMTT(30) DEF SaveNewCalibrate
  <2>7. Exit => CreationOrder'  BY SMTT(30) DEF Exit
  <2>8. Unrecognized => CreationOrder'  BY SMTT(30) DEF Unrecognized
  <2> QED  BY ONLY <2>1, <2>2, <2>3, <2>4, <2>5, <2>6, <2>7, <2>8, Zenon DEF ConsoleInput
<1>7. ConsoleStep => CreationOrder'
  <2>1. MenuBattery => CreationOrder'  BY SMTT(30) DEF MenuBattery, Suspend, Stop
  <2>2. Say => CreationOrder'  BY SMTT(30) DEF Say
  <2>3. ConsoleTared => CreationOrder'  BY SMTT(30) DEF ConsoleTared
  <2>4. ConsoleStore => CreationOrder'  BY SMTT(30) DEF ConsoleStore
  <2>5. Calibrated => CreationOrder'  BY SMTT(30) DEF Calibrated
  <2>6. SaveScale => CreationOrder'  BY SMTT(30) DEF SaveScale
  <2>7. ResumeWeighing => CreationOrder'  BY SMTT(30) DEF ResumeWeighing
  <2>8. ResumeBattery => CreationOrder'  BY SMTT(30) DEF ResumeBattery
  <2>9. Read("console") => CreationOrder'  BY ONLY <1>1, Zenon DEF Readers
  <2>10. MenuWeighing => CreationOrder'  BY SMTT(30) DEF MenuWeighing, Suspend, Stop
  <2> QED  BY ONLY <2>1, <2>2, <2>3, <2>4, <2>5, <2>6, <2>7, <2>8, <2>9, <2>10, Zenon DEF
         ConsoleStep
<1>8. BtcStep => CreationOrder'
  <2>1. BleSuspendWeighing => CreationOrder'
    BY SMTT(30) DEF BleSuspendWeighing, BleSuspend, Suspend, Stop
  <2>2. BleSuspendButton => CreationOrder'
    BY SMTT(30) DEF BleSuspendButton, BleSuspend, Suspend, Stop
  <2>3. BleSuspendBattery => CreationOrder'
    BY SMTT(30) DEF BleSuspendBattery, BleSuspend, Suspend, Stop
  <2>4. BleMeasure => CreationOrder'  BY SMTT(30) DEF BleMeasure
  <2>5. BleTared => CreationOrder'  BY SMTT(30) DEF BleTared
  <2>6. BleStore => CreationOrder'  BY SMTT(30) DEF BleStore
  <2>7. BleClear => CreationOrder'  BY SMTT(30) DEF BleClear
  <2>8. BleResumeWeighing => CreationOrder'  BY SMTT(30) DEF BleResumeWeighing, BleResume
  <2>9. BleResumeButton => CreationOrder'  BY SMTT(30) DEF BleResumeButton, BleResume
  <2>10. BleResumeBattery => CreationOrder'  BY SMTT(30) DEF BleResumeBattery, BleResume
  <2>11. Read("btc") => CreationOrder'  BY ONLY <1>1, Zenon DEF Readers
  <2> QED  BY ONLY <2>1, <2>2, <2>3, <2>4, <2>5, <2>6, <2>7, <2>8, <2>9, <2>10, <2>11, Zenon DEF
         BtcStep
<1>9. Environment => CreationOrder'
  <2>1. PlaceLoad => CreationOrder'  BY SMTT(30) DEF PlaceLoad
  <2>2. PushButton => CreationOrder'  BY SMTT(30) DEF PushButton
  <2>3. PowerCycle => CreationOrder'
    BY SMTT(30) DEF PowerCycle, Reboot, TaskAtReset, PcAtReset, Blank
  <2>4. EmptyNestedLine => CreationOrder'
    BY SMTT(30) DEF EmptyNestedLine, Reboot, TaskAtReset, PcAtReset, Blank
  <2> QED  BY ONLY <2>1, <2>2, <2>3, <2>4, Zenon DEF Environment
<1>10. TareWrite => CreationOrder'  BY SMTT(30) DEF TareWrite
<1>11. UNCHANGED vars => CreationOrder'  BY SMTT(30)
<1> QED  BY ONLY <1>2, <1>3, <1>4, <1>5, <1>6, <1>7, <1>8, <1>9, <1>10, <1>11, Zenon DEF Next

(* A BLE tare gets past a vTaskSuspend only if the victim exists. *)
LEMMA BleStep == IInv /\ [Next]_vars => BleOrder'
<1> SUFFICES ASSUME IInv PROVE [Next]_vars => BleOrder'
  OBVIOUS
<1> USE Names, ConstantsAssumption DEF IInv, TypeOK, PcOK, CreationOrder, BleOrder, Early,
       Reading, MainLabels, WeighingLabels, BatteryLabels, ConsoleLabels, BtcLabels
<1> USE DEF vars, chipVars, calVars, nvsVars, uiVars, conVars, envVars, At, Active, Goto, Resume,
       Typed, StartAverage, Averaged, EndAverage, NoAverage, SetOffset, WriteOffset, WriteScale,
       NvsResults, Draw
<1>1. ASSUME NEW t \in Readers PROVE Read(t) => BleOrder'
  <2>1. ReadReady(t) => BleOrder'  BY SMTT(30) DEF ReadReady, Readers
  <2>2. ReadShift(t) => BleOrder'  BY SMTT(30) DEF ReadShift, Readers
  <2>3. ReadEnd(t) => BleOrder'  BY SMTT(30) DEF ReadEnd, Readers
  <2> QED  BY ONLY <2>1, <2>2, <2>3 DEF Read
<1>2. MainStep => BleOrder'
  <2>1. StartUp => BleOrder'  BY SMTT(30) DEF StartUp
  <2>2. InitScale => BleOrder'  BY SMTT(30) DEF InitScale
  <2>3. BootTare => BleOrder'  BY SMTT(30) DEF BootTare
  <2>4. BootStore => BleOrder'  BY SMTT(30) DEF BootStore
  <2>5. BootBattery => BleOrder'  BY SMTT(30) DEF BootBattery
  <2>6. CreateWeighing => BleOrder'  BY SMTT(30) DEF CreateWeighing, BootCreate, Create
  <2>7. CreateButton => BleOrder'  BY SMTT(30) DEF CreateButton, BootCreate, Create
  <2>8. CreateBattery => BleOrder'  BY SMTT(30) DEF CreateBattery, BootCreate, Create
  <2>9. CreateConsole => BleOrder'  BY SMTT(30) DEF CreateConsole, BootCreate, Create
  <2>10. Read("main") => BleOrder'  BY ONLY <1>1, Zenon DEF Readers
  <2> QED  BY ONLY <2>1, <2>2, <2>3, <2>4, <2>5, <2>6, <2>7, <2>8, <2>9, <2>10, Zenon DEF MainStep
<1>3. WeighingStep => BleOrder'
  <2>1. Read("weighing") => BleOrder'  BY ONLY <1>1, Zenon DEF Readers
  <2>2. WeighStart \/ WeighMeasured \/ WeighDraw \/ WeighAgain \/ WeighTare \/ WeighTared \/
         WeighSettled => BleOrder'
    BY SMTT(30) DEF WeighStart, WeighMeasured, WeighDraw, WeighAgain, WeighTare, WeighTared,
           WeighSettled
  <2> QED  BY ONLY <2>1, <2>2, Zenon DEF WeighingStep
<1>4. ButtonStep => BleOrder'  BY SMTT(30) DEF ButtonStep, ButtonSeen, ButtonLatched
<1>5. BatteryStep => BleOrder'
  <2>1. BatterySuspend => BleOrder'  BY SMTT(30) DEF BatterySuspend, Suspend, Stop
  <2>2. BatteryResume => BleOrder'  BY SMTT(30) DEF BatteryResume
  <2>3. BatteryReport => BleOrder'  BY SMTT(30) DEF BatteryReport
  <2>4. BatteryJudge => BleOrder'  BY SMTT(30) DEF BatteryJudge
  <2>5. LowFlag => BleOrder'  BY SMTT(30) DEF LowFlag
  <2>6. LowMessage => BleOrder'  BY SMTT(30) DEF LowMessage
  <2>7. LowClear => BleOrder'  BY SMTT(30) DEF LowClear
  <2>8. LowUnflag => BleOrder'  BY SMTT(30) DEF LowUnflag
  <2> QED  BY ONLY <2>1, <2>2, <2>3, <2>4, <2>5, <2>6, <2>7, <2>8, Zenon DEF BatteryStep
<1>6. ConsoleInput => BleOrder'
  BY SMTT(30) DEF ConsoleInput, Menu, CalOrTare, ToAverage, NewCalibrate, TypedFactor,
         SaveNewCalibrate, Exit, Unrecognized, Suspend, Stop
<1>7. ConsoleStep => BleOrder'
  <2>1. MenuBattery => BleOrder'  BY SMTT(30) DEF MenuBattery, Suspend, Stop
  <2>2. Say => BleOrder'  BY SMTT(30) DEF Say
  <2>3. ConsoleTared => BleOrder'  BY SMTT(30) DEF ConsoleTared
  <2>4. ConsoleStore => BleOrder'  BY SMTT(30) DEF ConsoleStore
  <2>5. Calibrated => BleOrder'  BY SMTT(30) DEF Calibrated
  <2>6. SaveScale => BleOrder'  BY SMTT(30) DEF SaveScale
  <2>7. ResumeWeighing => BleOrder'  BY SMTT(30) DEF ResumeWeighing
  <2>8. ResumeBattery => BleOrder'  BY SMTT(30) DEF ResumeBattery
  <2>9. Read("console") => BleOrder'  BY ONLY <1>1, Zenon DEF Readers
  <2>10. MenuWeighing => BleOrder'  BY SMTT(30) DEF MenuWeighing, Suspend, Stop
  <2> QED  BY ONLY <2>1, <2>2, <2>3, <2>4, <2>5, <2>6, <2>7, <2>8, <2>9, <2>10, Zenon DEF
         ConsoleStep
<1>8. BtcStep => BleOrder'
  <2>1. BleSuspendWeighing => BleOrder'
    BY SMTT(30) DEF BleSuspendWeighing, BleSuspend, Suspend, Stop
  <2>2. BleSuspendButton => BleOrder'  BY SMTT(30) DEF BleSuspendButton, BleSuspend, Suspend, Stop
  <2>3. BleSuspendBattery => BleOrder'
    BY SMTT(30) DEF BleSuspendBattery, BleSuspend, Suspend, Stop
  <2>4. BleMeasure => BleOrder'  BY SMTT(30) DEF BleMeasure
  <2>5. BleTared => BleOrder'  BY SMTT(30) DEF BleTared
  <2>6. BleStore => BleOrder'  BY SMTT(30) DEF BleStore
  <2>7. BleClear => BleOrder'  BY SMTT(30) DEF BleClear
  <2>8. BleResumeWeighing => BleOrder'  BY SMTT(30) DEF BleResumeWeighing, BleResume
  <2>9. BleResumeButton => BleOrder'  BY SMTT(30) DEF BleResumeButton, BleResume
  <2>10. BleResumeBattery => BleOrder'  BY SMTT(30) DEF BleResumeBattery, BleResume
  <2>11. Read("btc") => BleOrder'  BY ONLY <1>1, Zenon DEF Readers
  <2> QED  BY ONLY <2>1, <2>2, <2>3, <2>4, <2>5, <2>6, <2>7, <2>8, <2>9, <2>10, <2>11, Zenon DEF
         BtcStep
<1>9. Environment => BleOrder'
  BY SMTT(30) DEF Environment, PlaceLoad, PushButton, PowerCycle, EmptyNestedLine, Reboot,
         TaskAtReset, PcAtReset, Blank
<1>10. TareWrite => BleOrder'  BY SMTT(30) DEF TareWrite
<1>11. UNCHANGED vars => BleOrder'  BY SMTT(30)
<1> QED  BY ONLY <1>2, <1>3, <1>4, <1>5, <1>6, <1>7, <1>8, <1>9, <1>10, <1>11, Zenon DEF Next

(* The samples of the boot tare are true ones. *)
LEMMA BootStep == IInv /\ [Next]_vars => BootClean'
<1> SUFFICES ASSUME IInv PROVE [Next]_vars => BootClean'
  OBVIOUS
<1> USE Names, ConstantsAssumption DEF IInv, TypeOK, PcOK, ReadOK, CreationOrder, BleOrder,
       BootClean, Early, Sample, Uses, Reading, MainLabels, WeighingLabels, BatteryLabels,
       ConsoleLabels, BtcLabels
<1> USE DEF vars, chipVars, calVars, nvsVars, uiVars, conVars, envVars, At, Active, Goto, Resume,
       Typed, StartAverage, Averaged, EndAverage, NoAverage, SetOffset, WriteOffset, WriteScale,
       NvsResults, Draw
<1>1. ASSUME NEW t \in Readers PROVE Read(t) => BootClean'
  <2>1. ReadReady(t) => BootClean'  BY SMTT(30) DEF ReadReady, Readers
  <2>2. ReadShift(t) => BootClean'
    <3> SUFFICES ASSUME ReadShift(t) PROVE BootClean'
      OBVIOUS
    <3>1. ASSUME pc["main"] \in Reading PROVE t = "main" /\ readers \subseteq {"main"}
      BY <3>1, SMTT(30) DEF ReadShift, Readers, Task
    <3>2. pc'["main"] \in Reading => pc["main"] \in Reading
      BY SMTT(30) DEF ReadShift, Readers
    <3>3. pc["main"] \in Reading => "main" \notin spoiled'
      BY <3>1, SMTT(30) DEF ReadShift
    <3>4. avg' = avg /\ pc'["weighing"] \in {pc["weighing"], "shift"}
         /\ tare_flag' = tare_flag /\ task' = task
      BY SMTT(30) DEF ReadShift, Readers
    <3>5. pc'["weighing"] = "shift" => pc["weighing"] \in Reading
      BY SMTT(30) DEF ReadShift, Readers
    <3> QED  BY ONLY IInv, <3>2, <3>3, <3>4, <3>5, SMTT(30) DEF IInv, BootClean, Reading
  <2>3. ReadEnd(t) => BootClean'  BY SMTT(30) DEF ReadEnd, Readers
  <2> QED  BY ONLY <2>1, <2>2, <2>3 DEF Read
<1>2. MainStep => BootClean'
  <2>1. StartUp => BootClean'  BY SMTT(30) DEF StartUp
  <2>2. InitScale => BootClean'  BY SMTT(30) DEF InitScale
  <2>3. BootTare => BootClean'  BY SMTT(30) DEF BootTare
  <2>4. BootStore => BootClean'  BY SMTT(30) DEF BootStore
  <2>5. BootBattery => BootClean'  BY SMTT(30) DEF BootBattery
  <2>6. CreateWeighing => BootClean'  BY SMTT(30) DEF CreateWeighing, BootCreate, Create
  <2>7. CreateButton => BootClean'  BY SMTT(30) DEF CreateButton, BootCreate, Create
  <2>8. CreateBattery => BootClean'  BY SMTT(30) DEF CreateBattery, BootCreate, Create
  <2>9. CreateConsole => BootClean'  BY SMTT(30) DEF CreateConsole, BootCreate, Create
  <2>10. Read("main") => BootClean'  BY ONLY <1>1, Zenon DEF Readers
  <2> QED  BY ONLY <2>1, <2>2, <2>3, <2>4, <2>5, <2>6, <2>7, <2>8, <2>9, <2>10, Zenon DEF MainStep
<1>3. WeighingStep => BootClean'
  <2>1. Read("weighing") => BootClean'  BY ONLY <1>1, Zenon DEF Readers
  <2>2. WeighStart \/ WeighMeasured \/ WeighDraw \/ WeighAgain \/ WeighTare \/ WeighTared \/
         WeighSettled => BootClean'
    BY SMTT(30) DEF WeighStart, WeighMeasured, WeighDraw, WeighAgain, WeighTare, WeighTared,
           WeighSettled
  <2> QED  BY ONLY <2>1, <2>2, Zenon DEF WeighingStep
<1>4. ButtonStep => BootClean'  BY SMTT(30) DEF ButtonStep, ButtonSeen, ButtonLatched
<1>5. BatteryStep => BootClean'
  <2>1. BatterySuspend => BootClean'  BY SMTT(30) DEF BatterySuspend, Suspend, Stop
  <2>2. BatteryResume => BootClean'  BY SMTT(30) DEF BatteryResume
  <2>3. BatteryReport => BootClean'  BY SMTT(30) DEF BatteryReport
  <2>4. BatteryJudge => BootClean'  BY SMTT(30) DEF BatteryJudge
  <2>5. LowFlag => BootClean'  BY SMTT(30) DEF LowFlag
  <2>6. LowMessage => BootClean'  BY SMTT(30) DEF LowMessage
  <2>7. LowClear => BootClean'  BY SMTT(30) DEF LowClear
  <2>8. LowUnflag => BootClean'  BY SMTT(30) DEF LowUnflag
  <2> QED  BY ONLY <2>1, <2>2, <2>3, <2>4, <2>5, <2>6, <2>7, <2>8, Zenon DEF BatteryStep
<1>6. ConsoleInput => BootClean'
  <2>1. Menu => BootClean'  BY SMTT(30) DEF Menu, Suspend, Stop
  <2>2. CalOrTare => BootClean'  BY SMTT(30) DEF CalOrTare
  <2>3. ToAverage => BootClean'  BY SMTT(30) DEF ToAverage
  <2>4. NewCalibrate => BootClean'  BY SMTT(30) DEF NewCalibrate
  <2>5. TypedFactor => BootClean'  BY SMTT(30) DEF TypedFactor
  <2>6. SaveNewCalibrate => BootClean'  BY SMTT(30) DEF SaveNewCalibrate
  <2>7. Exit => BootClean'  BY SMTT(30) DEF Exit
  <2>8. Unrecognized => BootClean'  BY SMTT(30) DEF Unrecognized
  <2> QED  BY ONLY <2>1, <2>2, <2>3, <2>4, <2>5, <2>6, <2>7, <2>8, Zenon DEF ConsoleInput
<1>7. ConsoleStep => BootClean'
  <2>1. MenuBattery => BootClean'  BY SMTT(30) DEF MenuBattery, Suspend, Stop
  <2>2. Say => BootClean'  BY SMTT(30) DEF Say
  <2>3. ConsoleTared => BootClean'  BY SMTT(30) DEF ConsoleTared
  <2>4. ConsoleStore => BootClean'  BY SMTT(30) DEF ConsoleStore
  <2>5. Calibrated => BootClean'  BY SMTT(30) DEF Calibrated
  <2>6. SaveScale => BootClean'  BY SMTT(30) DEF SaveScale
  <2>7. ResumeWeighing => BootClean'  BY SMTT(30) DEF ResumeWeighing
  <2>8. ResumeBattery => BootClean'  BY SMTT(30) DEF ResumeBattery
  <2>9. Read("console") => BootClean'  BY ONLY <1>1, Zenon DEF Readers
  <2>10. MenuWeighing => BootClean'  BY SMTT(30) DEF MenuWeighing, Suspend, Stop
  <2> QED  BY ONLY <2>1, <2>2, <2>3, <2>4, <2>5, <2>6, <2>7, <2>8, <2>9, <2>10, Zenon DEF
         ConsoleStep
<1>8. BtcStep => BootClean'
  <2>1. BleSuspendWeighing => BootClean'
    BY SMTT(30) DEF BleSuspendWeighing, BleSuspend, Suspend, Stop
  <2>2. BleSuspendButton => BootClean'
    BY SMTT(30) DEF BleSuspendButton, BleSuspend, Suspend, Stop
  <2>3. BleSuspendBattery => BootClean'
    BY SMTT(30) DEF BleSuspendBattery, BleSuspend, Suspend, Stop
  <2>4. BleMeasure => BootClean'  BY SMTT(30) DEF BleMeasure
  <2>5. BleTared => BootClean'  BY SMTT(30) DEF BleTared
  <2>6. BleStore => BootClean'  BY SMTT(30) DEF BleStore
  <2>7. BleClear => BootClean'  BY SMTT(30) DEF BleClear
  <2>8. BleResumeWeighing => BootClean'  BY SMTT(30) DEF BleResumeWeighing, BleResume
  <2>9. BleResumeButton => BootClean'  BY SMTT(30) DEF BleResumeButton, BleResume
  <2>10. BleResumeBattery => BootClean'  BY SMTT(30) DEF BleResumeBattery, BleResume
  <2>11. Read("btc") => BootClean'  BY ONLY <1>1, Zenon DEF Readers
  <2> QED  BY ONLY <2>1, <2>2, <2>3, <2>4, <2>5, <2>6, <2>7, <2>8, <2>9, <2>10, <2>11, Zenon DEF
         BtcStep
<1>9. Environment => BootClean'
  <2>1. PlaceLoad => BootClean'  BY SMTT(30) DEF PlaceLoad
  <2>2. PushButton => BootClean'  BY SMTT(30) DEF PushButton
  <2>3. PowerCycle => BootClean'
    BY SMTT(30) DEF PowerCycle, Reboot, TaskAtReset, PcAtReset, Blank
  <2>4. EmptyNestedLine => BootClean'
    BY SMTT(30) DEF EmptyNestedLine, Reboot, TaskAtReset, PcAtReset, Blank
  <2> QED  BY ONLY <2>1, <2>2, <2>3, <2>4, Zenon DEF Environment
<1>10. TareWrite => BootClean'  BY SMTT(30) DEF TareWrite
<1>11. UNCHANGED vars => BootClean'  BY SMTT(30)
<1> QED  BY ONLY <1>2, <1>3, <1>4, <1>5, <1>6, <1>7, <1>8, <1>9, <1>10, <1>11, Zenon DEF Next

(* The menu is part of an open session. *)
LEMMA MenuStep == IInv /\ [Next]_vars => MenuOpen'
<1> SUFFICES ASSUME IInv PROVE [Next]_vars => MenuOpen'
  OBVIOUS
<1> USE Names, ConstantsAssumption DEF IInv, TypeOK, PcOK, MenuOpen, Reading, MainLabels,
       WeighingLabels, BatteryLabels, ConsoleLabels, BtcLabels
<1> USE DEF vars, chipVars, calVars, nvsVars, uiVars, conVars, envVars, At, Active, Goto, Resume,
       Typed, StartAverage, Averaged, EndAverage, NoAverage, SetOffset, WriteOffset, WriteScale,
       NvsResults, Draw
<1>1. ASSUME NEW t \in Readers PROVE Read(t) => MenuOpen'
  <2>1. ReadReady(t) => MenuOpen'  BY SMTT(30) DEF ReadReady, Readers
  <2>2. ReadShift(t) => MenuOpen'  BY SMTT(30) DEF ReadShift, Readers
  <2>3. ReadEnd(t) => MenuOpen'  BY SMTT(30) DEF ReadEnd, Readers
  <2> QED  BY ONLY <2>1, <2>2, <2>3 DEF Read
<1>2. MainStep => MenuOpen'
  <2>1. StartUp => MenuOpen'  BY SMTT(30) DEF StartUp
  <2>2. InitScale => MenuOpen'  BY SMTT(30) DEF InitScale
  <2>3. BootTare => MenuOpen'  BY SMTT(30) DEF BootTare
  <2>4. BootStore => MenuOpen'  BY SMTT(30) DEF BootStore
  <2>5. BootBattery => MenuOpen'  BY SMTT(30) DEF BootBattery
  <2>6. CreateWeighing => MenuOpen'  BY SMTT(30) DEF CreateWeighing, BootCreate, Create
  <2>7. CreateButton => MenuOpen'  BY SMTT(30) DEF CreateButton, BootCreate, Create
  <2>8. CreateBattery => MenuOpen'  BY SMTT(30) DEF CreateBattery, BootCreate, Create
  <2>9. CreateConsole => MenuOpen'  BY SMTT(30) DEF CreateConsole, BootCreate, Create
  <2>10. Read("main") => MenuOpen'  BY ONLY <1>1, Zenon DEF Readers
  <2> QED  BY ONLY <2>1, <2>2, <2>3, <2>4, <2>5, <2>6, <2>7, <2>8, <2>9, <2>10, Zenon DEF MainStep
<1>3. WeighingStep => MenuOpen'
  <2>1. Read("weighing") => MenuOpen'  BY ONLY <1>1, Zenon DEF Readers
  <2>2. WeighStart \/ WeighMeasured \/ WeighDraw \/ WeighAgain \/ WeighTare \/ WeighTared \/
         WeighSettled => MenuOpen'
    BY SMTT(30) DEF WeighStart, WeighMeasured, WeighDraw, WeighAgain, WeighTare, WeighTared,
           WeighSettled
  <2> QED  BY ONLY <2>1, <2>2, Zenon DEF WeighingStep
<1>4. ButtonStep => MenuOpen'  BY SMTT(30) DEF ButtonStep, ButtonSeen, ButtonLatched
<1>5. BatteryStep => MenuOpen'
  <2>1. BatterySuspend => MenuOpen'  BY SMTT(30) DEF BatterySuspend, Suspend, Stop
  <2>2. BatteryResume => MenuOpen'  BY SMTT(30) DEF BatteryResume
  <2>3. BatteryReport => MenuOpen'  BY SMTT(30) DEF BatteryReport
  <2>4. BatteryJudge => MenuOpen'  BY SMTT(30) DEF BatteryJudge
  <2>5. LowFlag => MenuOpen'  BY SMTT(30) DEF LowFlag
  <2>6. LowMessage => MenuOpen'  BY SMTT(30) DEF LowMessage
  <2>7. LowClear => MenuOpen'  BY SMTT(30) DEF LowClear
  <2>8. LowUnflag => MenuOpen'  BY SMTT(30) DEF LowUnflag
  <2> QED  BY ONLY <2>1, <2>2, <2>3, <2>4, <2>5, <2>6, <2>7, <2>8, Zenon DEF BatteryStep
<1>6. ConsoleInput => MenuOpen'
  BY SMTT(30) DEF ConsoleInput, Menu, CalOrTare, ToAverage, NewCalibrate, TypedFactor,
         SaveNewCalibrate, Exit, Unrecognized, Suspend, Stop
<1>7. ConsoleStep => MenuOpen'
  <2>1. MenuBattery => MenuOpen'  BY SMTT(30) DEF MenuBattery, Suspend, Stop
  <2>2. Say => MenuOpen'  BY SMTT(30) DEF Say
  <2>3. ConsoleTared => MenuOpen'  BY SMTT(30) DEF ConsoleTared
  <2>4. ConsoleStore => MenuOpen'  BY SMTT(30) DEF ConsoleStore
  <2>5. Calibrated => MenuOpen'  BY SMTT(30) DEF Calibrated
  <2>6. SaveScale => MenuOpen'  BY SMTT(30) DEF SaveScale
  <2>7. ResumeWeighing => MenuOpen'  BY SMTT(30) DEF ResumeWeighing
  <2>8. ResumeBattery => MenuOpen'  BY SMTT(30) DEF ResumeBattery
  <2>9. Read("console") => MenuOpen'  BY ONLY <1>1, Zenon DEF Readers
  <2>10. MenuWeighing => MenuOpen'  BY SMTT(30) DEF MenuWeighing, Suspend, Stop
  <2> QED  BY ONLY <2>1, <2>2, <2>3, <2>4, <2>5, <2>6, <2>7, <2>8, <2>9, <2>10, Zenon DEF
         ConsoleStep
<1>8. BtcStep => MenuOpen'
  <2>1. BleSuspendWeighing => MenuOpen'
    BY SMTT(30) DEF BleSuspendWeighing, BleSuspend, Suspend, Stop
  <2>2. BleSuspendButton => MenuOpen'  BY SMTT(30) DEF BleSuspendButton, BleSuspend, Suspend, Stop
  <2>3. BleSuspendBattery => MenuOpen'
    BY SMTT(30) DEF BleSuspendBattery, BleSuspend, Suspend, Stop
  <2>4. BleMeasure => MenuOpen'  BY SMTT(30) DEF BleMeasure
  <2>5. BleTared => MenuOpen'  BY SMTT(30) DEF BleTared
  <2>6. BleStore => MenuOpen'  BY SMTT(30) DEF BleStore
  <2>7. BleClear => MenuOpen'  BY SMTT(30) DEF BleClear
  <2>8. BleResumeWeighing => MenuOpen'  BY SMTT(30) DEF BleResumeWeighing, BleResume
  <2>9. BleResumeButton => MenuOpen'  BY SMTT(30) DEF BleResumeButton, BleResume
  <2>10. BleResumeBattery => MenuOpen'  BY SMTT(30) DEF BleResumeBattery, BleResume
  <2>11. Read("btc") => MenuOpen'  BY ONLY <1>1, Zenon DEF Readers
  <2> QED  BY ONLY <2>1, <2>2, <2>3, <2>4, <2>5, <2>6, <2>7, <2>8, <2>9, <2>10, <2>11, Zenon DEF
         BtcStep
<1>9. Environment => MenuOpen'
  <2>1. PlaceLoad \/ PushButton => MenuOpen'  BY SMTT(30) DEF PlaceLoad, PushButton
  <2>2. Reboot => MenuOpen'  BY SMTT(30) DEF Reboot, TaskAtReset, PcAtReset, Blank
  <2> QED  BY ONLY <2>1, <2>2, Zenon DEF Environment, PowerCycle, EmptyNestedLine
<1>10. TareWrite => MenuOpen'  BY SMTT(30) DEF TareWrite
<1>11. UNCHANGED vars => MenuOpen'  BY SMTT(30)
<1> QED  BY ONLY <1>2, <1>3, <1>4, <1>5, <1>6, <1>7, <1>8, <1>9, <1>10, <1>11, Zenon DEF Next

(* No action leaves a suspended task that nobody is about to resume. *)
LEMMA SuspensionStep == IInv /\ NoOrphanedSuspension /\ [Next]_vars => NoOrphanedSuspension'
<1> SUFFICES ASSUME IInv, NoOrphanedSuspension PROVE [Next]_vars => NoOrphanedSuspension'
  OBVIOUS
<1> USE Names, ConstantsAssumption DEF IInv, TypeOK, NoOrphanedSuspension, BtcResumes,
       StoppedAtBattery, BleHolds, BleMeasuring, PcOK, CreationOrder, BleOrder, MenuOpen,
       Early, Reading, MainLabels, WeighingLabels, BatteryLabels, ConsoleLabels, BtcLabels
<1> USE DEF vars, chipVars, calVars, nvsVars, uiVars, conVars, envVars, At, Active, Goto, Resume,
       Typed, StartAverage, Averaged, EndAverage, NoAverage, SetOffset, WriteOffset, WriteScale,
       NvsResults, Draw
<1>1. ASSUME NEW t \in Readers PROVE Read(t) => NoOrphanedSuspension'
  <2>1. ReadReady(t) => NoOrphanedSuspension'  BY SMTT(30) DEF ReadReady, Readers
  <2>2. ReadShift(t) => NoOrphanedSuspension'  BY SMTT(30) DEF ReadShift, Readers
  <2>3. ReadEnd(t) => NoOrphanedSuspension'  BY SMTT(30) DEF ReadEnd, Readers
  <2> QED  BY ONLY <2>1, <2>2, <2>3 DEF Read
<1>2. MainStep => NoOrphanedSuspension'
  <2>1. StartUp => NoOrphanedSuspension'  BY SMTT(30) DEF StartUp
  <2>2. InitScale => NoOrphanedSuspension'  BY SMTT(30) DEF InitScale
  <2>3. BootTare => NoOrphanedSuspension'  BY SMTT(30) DEF BootTare
  <2>4. BootStore => NoOrphanedSuspension'  BY SMTT(30) DEF BootStore
  <2>5. BootBattery => NoOrphanedSuspension'  BY SMTT(30) DEF BootBattery
  <2>6. CreateWeighing => NoOrphanedSuspension'
    BY SMTT(30) DEF CreateWeighing, BootCreate, Create
  <2>7. CreateButton => NoOrphanedSuspension'  BY SMTT(30) DEF CreateButton, BootCreate, Create
  <2>8. CreateBattery => NoOrphanedSuspension'  BY SMTT(30) DEF CreateBattery, BootCreate, Create
  <2>9. CreateConsole => NoOrphanedSuspension'  BY SMTT(30) DEF CreateConsole, BootCreate, Create
  <2>10. Read("main") => NoOrphanedSuspension'  BY ONLY <1>1, Zenon DEF Readers
  <2> QED  BY ONLY <2>1, <2>2, <2>3, <2>4, <2>5, <2>6, <2>7, <2>8, <2>9, <2>10, Zenon DEF MainStep
<1>3. WeighingStep => NoOrphanedSuspension'
  <2>1. Read("weighing") => NoOrphanedSuspension'  BY ONLY <1>1, Zenon DEF Readers
  <2>2. WeighStart \/ WeighMeasured \/ WeighDraw \/ WeighAgain \/ WeighTare \/ WeighTared \/
         WeighSettled => NoOrphanedSuspension'
    BY SMTT(30) DEF WeighStart, WeighMeasured, WeighDraw, WeighAgain, WeighTare, WeighTared,
           WeighSettled
  <2> QED  BY ONLY <2>1, <2>2, Zenon DEF WeighingStep
<1>4. ButtonStep => NoOrphanedSuspension'  BY SMTT(30) DEF ButtonStep, ButtonSeen, ButtonLatched
<1>5. BatteryStep => NoOrphanedSuspension'
  BY SMTT(30) DEF BatteryStep, BatterySuspend, BatteryResume, BatteryReport, BatteryJudge,
         LowFlag, LowMessage, LowClear, LowUnflag, Suspend, Stop
<1>6. ConsoleInput => NoOrphanedSuspension'
  BY SMTT(30) DEF ConsoleInput, Menu, CalOrTare, ToAverage, NewCalibrate, TypedFactor,
         SaveNewCalibrate, Exit, Unrecognized, Suspend, Stop
<1>7. ConsoleStep => NoOrphanedSuspension'
  <2>1. MenuBattery => NoOrphanedSuspension'  BY SMTT(30) DEF MenuBattery, Suspend, Stop
  <2>2. Say => NoOrphanedSuspension'  BY SMTT(30) DEF Say
  <2>3. ConsoleTared => NoOrphanedSuspension'  BY SMTT(30) DEF ConsoleTared
  <2>4. ConsoleStore => NoOrphanedSuspension'  BY SMTT(30) DEF ConsoleStore
  <2>5. Calibrated => NoOrphanedSuspension'  BY SMTT(30) DEF Calibrated
  <2>6. SaveScale => NoOrphanedSuspension'  BY SMTT(30) DEF SaveScale
  <2>7. ResumeWeighing => NoOrphanedSuspension'  BY SMTT(30) DEF ResumeWeighing
  <2>8. ResumeBattery => NoOrphanedSuspension'  BY SMTT(30) DEF ResumeBattery
  <2>9. Read("console") => NoOrphanedSuspension'  BY ONLY <1>1, Zenon DEF Readers
  <2>10. MenuWeighing => NoOrphanedSuspension'  BY SMTT(30) DEF MenuWeighing, Suspend, Stop
  <2> QED  BY ONLY <2>1, <2>2, <2>3, <2>4, <2>5, <2>6, <2>7, <2>8, <2>9, <2>10, Zenon DEF
         ConsoleStep
<1>8. BtcStep => NoOrphanedSuspension'
  <2>1. BleSuspendWeighing => NoOrphanedSuspension'
    BY SMTT(30) DEF BleSuspendWeighing, BleSuspend, Suspend, Stop
  <2>2. BleSuspendButton => NoOrphanedSuspension'
    BY SMTT(30) DEF BleSuspendButton, BleSuspend, Suspend, Stop
  <2>3. BleSuspendBattery => NoOrphanedSuspension'
    BY SMTT(30) DEF BleSuspendBattery, BleSuspend, Suspend, Stop
  <2>4. BleMeasure => NoOrphanedSuspension'  BY SMTT(30) DEF BleMeasure
  <2>5. BleTared => NoOrphanedSuspension'  BY SMTT(30) DEF BleTared
  <2>6. BleStore => NoOrphanedSuspension'  BY SMTT(30) DEF BleStore
  <2>7. BleClear => NoOrphanedSuspension'  BY SMTT(30) DEF BleClear
  <2>8. BleResumeWeighing => NoOrphanedSuspension'  BY SMTT(30) DEF BleResumeWeighing, BleResume
  <2>9. BleResumeButton => NoOrphanedSuspension'  BY SMTT(30) DEF BleResumeButton, BleResume
  <2>10. BleResumeBattery => NoOrphanedSuspension'  BY SMTT(30) DEF BleResumeBattery, BleResume
  <2>11. Read("btc") => NoOrphanedSuspension'  BY ONLY <1>1, Zenon DEF Readers
  <2> QED  BY ONLY <2>1, <2>2, <2>3, <2>4, <2>5, <2>6, <2>7, <2>8, <2>9, <2>10, <2>11, Zenon DEF
         BtcStep
<1>9. Environment => NoOrphanedSuspension'
  BY SMTT(30) DEF Environment, PlaceLoad, PushButton, PowerCycle, EmptyNestedLine, Reboot,
         TaskAtReset, PcAtReset, Blank
<1>10. TareWrite => NoOrphanedSuspension'  BY SMTT(30) DEF TareWrite
<1>11. UNCHANGED vars => NoOrphanedSuspension'  BY SMTT(30)
<1> QED  BY ONLY <1>2, <1>3, <1>4, <1>5, <1>6, <1>7, <1>8, <1>9, <1>10, <1>11, Zenon DEF Next

(* Nothing spoils OFFSET between the boot tare and the last xTaskCreate. *)
LEMMA ZeroStep == IInv /\ StartsFromZero /\ [Next]_vars => StartsFromZero'
<1> SUFFICES ASSUME IInv, StartsFromZero PROVE [Next]_vars => StartsFromZero'
  OBVIOUS
<1> USE Names, ConstantsAssumption DEF IInv, TypeOK, StartsFromZero, PcOK, ReadOK, CreationOrder,
       BleOrder, BootClean, Early, Sample, Uses, Reading, MainLabels, WeighingLabels,
       BatteryLabels, ConsoleLabels, BtcLabels
<1> USE DEF vars, chipVars, calVars, nvsVars, uiVars, conVars, envVars, At, Active, Goto, Resume,
       Typed, StartAverage, Averaged, EndAverage, NoAverage, SetOffset, WriteOffset, WriteScale,
       NvsResults, Draw
<1>1. ASSUME NEW t \in Readers PROVE Read(t) => StartsFromZero'
  <2>1. ReadReady(t) => StartsFromZero'  BY SMTT(30) DEF ReadReady, Readers
  <2>2. ReadShift(t) => StartsFromZero'  BY SMTT(30) DEF ReadShift, Readers
  <2>3. ReadEnd(t) => StartsFromZero'  BY SMTT(30) DEF ReadEnd, Readers
  <2> QED  BY ONLY <2>1, <2>2, <2>3 DEF Read
<1>2. MainStep => StartsFromZero'
  <2>1. StartUp => StartsFromZero'  BY SMTT(30) DEF StartUp
  <2>2. InitScale => StartsFromZero'  BY SMTT(30) DEF InitScale
  <2>3. BootTare => StartsFromZero'  BY SMTT(30) DEF BootTare
  <2>4. BootStore => StartsFromZero'  BY SMTT(30) DEF BootStore
  <2>5. BootBattery => StartsFromZero'  BY SMTT(30) DEF BootBattery
  <2>6. CreateWeighing => StartsFromZero'  BY SMTT(30) DEF CreateWeighing, BootCreate, Create
  <2>7. CreateButton => StartsFromZero'  BY SMTT(30) DEF CreateButton, BootCreate, Create
  <2>8. CreateBattery => StartsFromZero'  BY SMTT(30) DEF CreateBattery, BootCreate, Create
  <2>9. CreateConsole => StartsFromZero'  BY SMTT(30) DEF CreateConsole, BootCreate, Create
  <2>10. Read("main") => StartsFromZero'  BY ONLY <1>1, Zenon DEF Readers
  <2> QED  BY ONLY <2>1, <2>2, <2>3, <2>4, <2>5, <2>6, <2>7, <2>8, <2>9, <2>10, Zenon DEF MainStep
<1>3. WeighingStep => StartsFromZero'
  <2>1. Read("weighing") => StartsFromZero'  BY ONLY <1>1, Zenon DEF Readers
  <2>2. WeighStart \/ WeighMeasured \/ WeighDraw \/ WeighAgain \/ WeighTare \/ WeighTared \/
         WeighSettled => StartsFromZero'
    BY SMTT(30) DEF WeighStart, WeighMeasured, WeighDraw, WeighAgain, WeighTare, WeighTared,
           WeighSettled
  <2> QED  BY ONLY <2>1, <2>2, Zenon DEF WeighingStep
<1>4. ButtonStep => StartsFromZero'  BY SMTT(30) DEF ButtonStep, ButtonSeen, ButtonLatched
<1>5. BatteryStep => StartsFromZero'
  <2>1. BatterySuspend => StartsFromZero'  BY SMTT(30) DEF BatterySuspend, Suspend, Stop
  <2>2. BatteryResume => StartsFromZero'  BY SMTT(30) DEF BatteryResume
  <2>3. BatteryReport => StartsFromZero'  BY SMTT(30) DEF BatteryReport
  <2>4. BatteryJudge => StartsFromZero'  BY SMTT(30) DEF BatteryJudge
  <2>5. LowFlag => StartsFromZero'  BY SMTT(30) DEF LowFlag
  <2>6. LowMessage => StartsFromZero'  BY SMTT(30) DEF LowMessage
  <2>7. LowClear => StartsFromZero'  BY SMTT(30) DEF LowClear
  <2>8. LowUnflag => StartsFromZero'  BY SMTT(30) DEF LowUnflag
  <2> QED  BY ONLY <2>1, <2>2, <2>3, <2>4, <2>5, <2>6, <2>7, <2>8, Zenon DEF BatteryStep
<1>6. ConsoleInput => StartsFromZero'
  <2>1. Menu => StartsFromZero'  BY SMTT(30) DEF Menu, Suspend, Stop
  <2>2. CalOrTare => StartsFromZero'  BY SMTT(30) DEF CalOrTare
  <2>3. ToAverage => StartsFromZero'  BY SMTT(30) DEF ToAverage
  <2>4. NewCalibrate => StartsFromZero'  BY SMTT(30) DEF NewCalibrate
  <2>5. TypedFactor => StartsFromZero'  BY SMTT(30) DEF TypedFactor
  <2>6. SaveNewCalibrate => StartsFromZero'  BY SMTT(30) DEF SaveNewCalibrate
  <2>7. Exit => StartsFromZero'  BY SMTT(30) DEF Exit
  <2>8. Unrecognized => StartsFromZero'  BY SMTT(30) DEF Unrecognized
  <2> QED  BY ONLY <2>1, <2>2, <2>3, <2>4, <2>5, <2>6, <2>7, <2>8, Zenon DEF ConsoleInput
<1>7. ConsoleStep => StartsFromZero'
  <2>1. MenuBattery => StartsFromZero'  BY SMTT(30) DEF MenuBattery, Suspend, Stop
  <2>2. Say => StartsFromZero'  BY SMTT(30) DEF Say
  <2>3. ConsoleTared => StartsFromZero'  BY SMTT(30) DEF ConsoleTared
  <2>4. ConsoleStore => StartsFromZero'  BY SMTT(30) DEF ConsoleStore
  <2>5. Calibrated => StartsFromZero'  BY SMTT(30) DEF Calibrated
  <2>6. SaveScale => StartsFromZero'  BY SMTT(30) DEF SaveScale
  <2>7. ResumeWeighing => StartsFromZero'  BY SMTT(30) DEF ResumeWeighing
  <2>8. ResumeBattery => StartsFromZero'  BY SMTT(30) DEF ResumeBattery
  <2>9. Read("console") => StartsFromZero'  BY ONLY <1>1, Zenon DEF Readers
  <2>10. MenuWeighing => StartsFromZero'  BY SMTT(30) DEF MenuWeighing, Suspend, Stop
  <2> QED  BY ONLY <2>1, <2>2, <2>3, <2>4, <2>5, <2>6, <2>7, <2>8, <2>9, <2>10, Zenon DEF
         ConsoleStep
<1>8. BtcStep => StartsFromZero'
  <2>1. BleSuspendWeighing => StartsFromZero'
    BY SMTT(30) DEF BleSuspendWeighing, BleSuspend, Suspend, Stop
  <2>2. BleSuspendButton => StartsFromZero'
    BY SMTT(30) DEF BleSuspendButton, BleSuspend, Suspend, Stop
  <2>3. BleSuspendBattery => StartsFromZero'
    BY SMTT(30) DEF BleSuspendBattery, BleSuspend, Suspend, Stop
  <2>4. BleMeasure => StartsFromZero'  BY SMTT(30) DEF BleMeasure
  <2>5. BleTared => StartsFromZero'  BY SMTT(30) DEF BleTared
  <2>6. BleStore => StartsFromZero'  BY SMTT(30) DEF BleStore
  <2>7. BleClear => StartsFromZero'  BY SMTT(30) DEF BleClear
  <2>8. BleResumeWeighing => StartsFromZero'  BY SMTT(30) DEF BleResumeWeighing, BleResume
  <2>9. BleResumeButton => StartsFromZero'  BY SMTT(30) DEF BleResumeButton, BleResume
  <2>10. BleResumeBattery => StartsFromZero'  BY SMTT(30) DEF BleResumeBattery, BleResume
  <2>11. Read("btc") => StartsFromZero'  BY ONLY <1>1, Zenon DEF Readers
  <2> QED  BY ONLY <2>1, <2>2, <2>3, <2>4, <2>5, <2>6, <2>7, <2>8, <2>9, <2>10, <2>11, Zenon DEF
         BtcStep
<1>9. Environment => StartsFromZero'
  BY SMTT(30) DEF Environment, PlaceLoad, PushButton, PowerCycle, EmptyNestedLine, Reboot,
         TaskAtReset, PcAtReset, Blank
<1>10. TareWrite => StartsFromZero'  BY SMTT(30) DEF TareWrite
<1>11. UNCHANGED vars => StartsFromZero'  BY SMTT(30)
<1> QED  BY ONLY <1>2, <1>3, <1>4, <1>5, <1>6, <1>7, <1>8, <1>9, <1>10, <1>11, Zenon DEF Next

(* As long as NVS accepts writes, the scale in use is the stored one. *)
LEMMA ScaleStep == IInv /\ ScaleIsStored /\ ~NvsMayFail /\ [Next]_vars => ScaleIsStored'
<1> SUFFICES ASSUME IInv, ScaleIsStored, ~NvsMayFail PROVE [Next]_vars => ScaleIsStored'
  OBVIOUS
<1> USE Names, ConstantsAssumption DEF IInv, TypeOK, ScaleIsStored, ScaleLoaded, StoredScale,
       PcOK, ReadOK, CreationOrder, Early, Reading, MainLabels, WeighingLabels, BatteryLabels,
       ConsoleLabels, BtcLabels
<1> USE DEF vars, chipVars, calVars, nvsVars, uiVars, conVars, envVars, At, Active, Goto, Resume,
       Typed, StartAverage, Averaged, EndAverage, NoAverage, SetOffset, WriteOffset, WriteScale,
       NvsResults, Draw
<1>1. ASSUME NEW t \in Readers PROVE Read(t) => ScaleIsStored'
  <2>1. ReadReady(t) => ScaleIsStored'  BY SMTT(30) DEF ReadReady, Readers
  <2>2. ReadShift(t) => ScaleIsStored'  BY SMTT(30) DEF ReadShift, Readers
  <2>3. ReadEnd(t) => ScaleIsStored'  BY SMTT(30) DEF ReadEnd, Readers
  <2> QED  BY ONLY <2>1, <2>2, <2>3 DEF Read
<1>2. MainStep => ScaleIsStored'
  <2>1. StartUp => ScaleIsStored'  BY SMTT(30) DEF StartUp
  <2>2. InitScale => ScaleIsStored'  BY SMTT(30) DEF InitScale
  <2>3. BootTare => ScaleIsStored'  BY SMTT(30) DEF BootTare
  <2>4. BootStore => ScaleIsStored'  BY SMTT(30) DEF BootStore
  <2>5. BootBattery => ScaleIsStored'  BY SMTT(30) DEF BootBattery
  <2>6. CreateWeighing => ScaleIsStored'  BY SMTT(30) DEF CreateWeighing, BootCreate, Create
  <2>7. CreateButton => ScaleIsStored'  BY SMTT(30) DEF CreateButton, BootCreate, Create
  <2>8. CreateBattery => ScaleIsStored'  BY SMTT(30) DEF CreateBattery, BootCreate, Create
  <2>9. CreateConsole => ScaleIsStored'  BY SMTT(30) DEF CreateConsole, BootCreate, Create
  <2>10. Read("main") => ScaleIsStored'  BY ONLY <1>1, Zenon DEF Readers
  <2> QED  BY ONLY <2>1, <2>2, <2>3, <2>4, <2>5, <2>6, <2>7, <2>8, <2>9, <2>10, Zenon DEF MainStep
<1>3. WeighingStep => ScaleIsStored'
  <2>1. Read("weighing") => ScaleIsStored'  BY ONLY <1>1, Zenon DEF Readers
  <2>2. WeighStart \/ WeighMeasured \/ WeighDraw \/ WeighAgain \/ WeighTare \/ WeighTared \/
         WeighSettled => ScaleIsStored'
    BY SMTT(30) DEF WeighStart, WeighMeasured, WeighDraw, WeighAgain, WeighTare, WeighTared,
           WeighSettled
  <2> QED  BY ONLY <2>1, <2>2, Zenon DEF WeighingStep
<1>4. ButtonStep => ScaleIsStored'  BY SMTT(30) DEF ButtonStep, ButtonSeen, ButtonLatched
<1>5. BatteryStep => ScaleIsStored'
  <2>1. BatterySuspend => ScaleIsStored'  BY SMTT(30) DEF BatterySuspend, Suspend, Stop
  <2>2. BatteryResume => ScaleIsStored'  BY SMTT(30) DEF BatteryResume
  <2>3. BatteryReport => ScaleIsStored'  BY SMTT(30) DEF BatteryReport
  <2>4. BatteryJudge => ScaleIsStored'  BY SMTT(30) DEF BatteryJudge
  <2>5. LowFlag => ScaleIsStored'  BY SMTT(30) DEF LowFlag
  <2>6. LowMessage => ScaleIsStored'  BY SMTT(30) DEF LowMessage
  <2>7. LowClear => ScaleIsStored'  BY SMTT(30) DEF LowClear
  <2>8. LowUnflag => ScaleIsStored'  BY SMTT(30) DEF LowUnflag
  <2> QED  BY ONLY <2>1, <2>2, <2>3, <2>4, <2>5, <2>6, <2>7, <2>8, Zenon DEF BatteryStep
<1>6. ConsoleInput => ScaleIsStored'
  <2>1. Menu => ScaleIsStored'  BY SMTT(30) DEF Menu, Suspend, Stop
  <2>2. CalOrTare => ScaleIsStored'  BY SMTT(30) DEF CalOrTare
  <2>3. ToAverage => ScaleIsStored'  BY SMTT(30) DEF ToAverage
  <2>4. NewCalibrate => ScaleIsStored'  BY SMTT(30) DEF NewCalibrate
  <2>5. TypedFactor => ScaleIsStored'  BY SMTT(30) DEF TypedFactor
  <2>6. SaveNewCalibrate => ScaleIsStored'  BY SMTT(30) DEF SaveNewCalibrate
  <2>7. Exit => ScaleIsStored'  BY SMTT(30) DEF Exit
  <2>8. Unrecognized => ScaleIsStored'  BY SMTT(30) DEF Unrecognized
  <2> QED  BY ONLY <2>1, <2>2, <2>3, <2>4, <2>5, <2>6, <2>7, <2>8, Zenon DEF ConsoleInput
<1>7. ConsoleStep => ScaleIsStored'
  <2>1. MenuBattery => ScaleIsStored'  BY SMTT(30) DEF MenuBattery, Suspend, Stop
  <2>2. Say => ScaleIsStored'  BY SMTT(30) DEF Say
  <2>3. ConsoleTared => ScaleIsStored'  BY SMTT(30) DEF ConsoleTared
  <2>4. ConsoleStore => ScaleIsStored'  BY SMTT(30) DEF ConsoleStore
  <2>5. Calibrated => ScaleIsStored'  BY SMTT(30) DEF Calibrated
  <2>6. SaveScale => ScaleIsStored'
    <3> SUFFICES ASSUME SaveScale PROVE ScaleIsStored'
      OBVIOUS
    <3>1. NvsResults = {TRUE}
      BY ONLY ~NvsMayFail, Zenon DEF NvsResults
    <3>2. nvsScale' = scale /\ scale' = scale
      BY ONLY <3>1, SaveScale, Zenon DEF SaveScale, WriteScale
    <3> QED  BY ONLY IInv, <3>2, ConstantsAssumption, SMTT(30)
             DEF IInv, TypeOK, ScaleIsStored, StoredScale
  <2>7. ResumeWeighing => ScaleIsStored'  BY SMTT(30) DEF ResumeWeighing
  <2>8. ResumeBattery => ScaleIsStored'  BY SMTT(30) DEF ResumeBattery
  <2>9. Read("console") => ScaleIsStored'  BY ONLY <1>1, Zenon DEF Readers
  <2>10. MenuWeighing => ScaleIsStored'  BY SMTT(30) DEF MenuWeighing, Suspend, Stop
  <2> QED  BY ONLY <2>1, <2>2, <2>3, <2>4, <2>5, <2>6, <2>7, <2>8, <2>9, <2>10, Zenon DEF
         ConsoleStep
<1>8. BtcStep => ScaleIsStored'
  <2>1. BleSuspendWeighing => ScaleIsStored'
    BY SMTT(30) DEF BleSuspendWeighing, BleSuspend, Suspend, Stop
  <2>2. BleSuspendButton => ScaleIsStored'
    BY SMTT(30) DEF BleSuspendButton, BleSuspend, Suspend, Stop
  <2>3. BleSuspendBattery => ScaleIsStored'
    BY SMTT(30) DEF BleSuspendBattery, BleSuspend, Suspend, Stop
  <2>4. BleMeasure => ScaleIsStored'  BY SMTT(30) DEF BleMeasure
  <2>5. BleTared => ScaleIsStored'  BY SMTT(30) DEF BleTared
  <2>6. BleStore => ScaleIsStored'  BY SMTT(30) DEF BleStore
  <2>7. BleClear => ScaleIsStored'  BY SMTT(30) DEF BleClear
  <2>8. BleResumeWeighing => ScaleIsStored'  BY SMTT(30) DEF BleResumeWeighing, BleResume
  <2>9. BleResumeButton => ScaleIsStored'  BY SMTT(30) DEF BleResumeButton, BleResume
  <2>10. BleResumeBattery => ScaleIsStored'  BY SMTT(30) DEF BleResumeBattery, BleResume
  <2>11. Read("btc") => ScaleIsStored'  BY ONLY <1>1, Zenon DEF Readers
  <2> QED  BY ONLY <2>1, <2>2, <2>3, <2>4, <2>5, <2>6, <2>7, <2>8, <2>9, <2>10, <2>11, Zenon DEF
         BtcStep
<1>9. Environment => ScaleIsStored'
  BY SMTT(30) DEF Environment, PlaceLoad, PushButton, PowerCycle, EmptyNestedLine, Reboot,
         TaskAtReset, PcAtReset, Blank
<1>10. TareWrite => ScaleIsStored'  BY SMTT(30) DEF TareWrite
<1>11. UNCHANGED vars => ScaleIsStored'  BY SMTT(30)
<1> QED  BY ONLY <1>2, <1>3, <1>4, <1>5, <1>6, <1>7, <1>8, <1>9, <1>10, <1>11, Zenon DEF Next

-----------------------------------------------------------------------------
(* A scale just switched on satisfies all of it. *)
(* Nobody but app_main and the weighing task gets to a reading. *)
LEMMA QuietStep == IInv /\ Unattended /\ NoOtherReader /\ [Next]_vars => NoOtherReader'
<1> SUFFICES ASSUME IInv, Unattended, NoOtherReader PROVE [Next]_vars => NoOtherReader'
  OBVIOUS
<1> USE Names, ConstantsAssumption DEF IInv, TypeOK, PcOK, Unattended, NoOtherReader, Reading, MainLabels,
       WeighingLabels, BatteryLabels, ConsoleLabels, BtcLabels
<1> USE DEF vars, chipVars, calVars, nvsVars, uiVars, conVars, envVars, At, Active, Goto, Resume,
       Typed, StartAverage, Averaged, EndAverage, NoAverage, SetOffset, WriteOffset, WriteScale,
       NvsResults, Draw
<1>1. ASSUME NEW t \in Readers PROVE Read(t) => NoOtherReader'
  <2>1. ReadReady(t) => NoOtherReader'  BY SMTT(30) DEF ReadReady, Readers
  <2>2. ReadShift(t) => NoOtherReader'  BY SMTT(30) DEF ReadShift, Readers
  <2>3. ReadEnd(t) => NoOtherReader'  BY SMTT(30) DEF ReadEnd, Readers
  <2> QED  BY ONLY <2>1, <2>2, <2>3 DEF Read
<1>2. MainStep => NoOtherReader'
  <2>1. StartUp => NoOtherReader'  BY SMTT(30) DEF StartUp
  <2>2. InitScale => NoOtherReader'  BY SMTT(30) DEF InitScale
  <2>3. BootTare => NoOtherReader'  BY SMTT(30) DEF BootTare
  <2>4. BootStore => NoOtherReader'  BY SMTT(30) DEF BootStore
  <2>5. BootBattery => NoOtherReader'  BY SMTT(30) DEF BootBattery
  <2>6. CreateWeighing => NoOtherReader'  BY SMTT(30) DEF CreateWeighing, BootCreate, Create
  <2>7. CreateButton => NoOtherReader'  BY SMTT(30) DEF CreateButton, BootCreate, Create
  <2>8. CreateBattery => NoOtherReader'  BY SMTT(30) DEF CreateBattery, BootCreate, Create
  <2>9. CreateConsole => NoOtherReader'  BY SMTT(30) DEF CreateConsole, BootCreate, Create
  <2>10. Read("main") => NoOtherReader'  BY ONLY <1>1, Zenon DEF Readers
  <2> QED  BY ONLY <2>1, <2>2, <2>3, <2>4, <2>5, <2>6, <2>7, <2>8, <2>9, <2>10, Zenon DEF MainStep
<1>3. WeighingStep => NoOtherReader'
  <2>1. Read("weighing") => NoOtherReader'  BY ONLY <1>1, Zenon DEF Readers
  <2>2. WeighStart \/ WeighMeasured \/ WeighDraw \/ WeighAgain \/ WeighTare \/ WeighTared \/
         WeighSettled => NoOtherReader'
    BY SMTT(30) DEF WeighStart, WeighMeasured, WeighDraw, WeighAgain, WeighTare, WeighTared,
           WeighSettled
  <2> QED  BY ONLY <2>1, <2>2, Zenon DEF WeighingStep
<1>4. ButtonStep => NoOtherReader'  BY SMTT(30) DEF ButtonStep, ButtonSeen, ButtonLatched
<1>5. BatteryStep => NoOtherReader'
  <2>1. BatterySuspend => NoOtherReader'  BY SMTT(30) DEF BatterySuspend, Suspend, Stop
  <2>2. BatteryResume => NoOtherReader'  BY SMTT(30) DEF BatteryResume
  <2>3. BatteryReport => NoOtherReader'  BY SMTT(30) DEF BatteryReport
  <2>4. BatteryJudge => NoOtherReader'  BY SMTT(30) DEF BatteryJudge
  <2>5. LowFlag => NoOtherReader'  BY SMTT(30) DEF LowFlag
  <2>6. LowMessage => NoOtherReader'  BY SMTT(30) DEF LowMessage
  <2>7. LowClear => NoOtherReader'  BY SMTT(30) DEF LowClear
  <2>8. LowUnflag => NoOtherReader'  BY SMTT(30) DEF LowUnflag
  <2> QED  BY ONLY <2>1, <2>2, <2>3, <2>4, <2>5, <2>6, <2>7, <2>8, Zenon DEF BatteryStep
<1>6. ConsoleInput => NoOtherReader'
  BY SMTT(30) DEF ConsoleInput, Menu, CalOrTare, ToAverage, NewCalibrate, TypedFactor,
         SaveNewCalibrate, Exit, Unrecognized, Suspend, Stop
<1>7. ConsoleStep => NoOtherReader'
  <2>1. MenuBattery => NoOtherReader'  BY SMTT(30) DEF MenuBattery, Suspend, Stop
  <2>2. Say => NoOtherReader'  BY SMTT(30) DEF Say
  <2>3. ConsoleTared => NoOtherReader'  BY SMTT(30) DEF ConsoleTared
  <2>4. ConsoleStore => NoOtherReader'  BY SMTT(30) DEF ConsoleStore
  <2>5. Calibrated => NoOtherReader'  BY SMTT(30) DEF Calibrated
  <2>6. SaveScale => NoOtherReader'  BY SMTT(30) DEF SaveScale
  <2>7. ResumeWeighing => NoOtherReader'  BY SMTT(30) DEF ResumeWeighing
  <2>8. ResumeBattery => NoOtherReader'  BY SMTT(30) DEF ResumeBattery
  <2>9. Read("console") => NoOtherReader'  BY ONLY <1>1, Zenon DEF Readers
  <2>10. MenuWeighing => NoOtherReader'  BY SMTT(30) DEF MenuWeighing, Suspend, Stop
  <2> QED  BY ONLY <2>1, <2>2, <2>3, <2>4, <2>5, <2>6, <2>7, <2>8, <2>9, <2>10, Zenon DEF
         ConsoleStep
<1>8. BtcStep => NoOtherReader'
  <2>1. BleSuspendWeighing => NoOtherReader'
    BY SMTT(30) DEF BleSuspendWeighing, BleSuspend, Suspend, Stop
  <2>2. BleSuspendButton => NoOtherReader'  BY SMTT(30) DEF BleSuspendButton, BleSuspend, Suspend, Stop
  <2>3. BleSuspendBattery => NoOtherReader'
    BY SMTT(30) DEF BleSuspendBattery, BleSuspend, Suspend, Stop
  <2>4. BleMeasure => NoOtherReader'  BY SMTT(30) DEF BleMeasure
  <2>5. BleTared => NoOtherReader'  BY SMTT(30) DEF BleTared
  <2>6. BleStore => NoOtherReader'  BY SMTT(30) DEF BleStore
  <2>7. BleClear => NoOtherReader'  BY SMTT(30) DEF BleClear
  <2>8. BleResumeWeighing => NoOtherReader'  BY SMTT(30) DEF BleResumeWeighing, BleResume
  <2>9. BleResumeButton => NoOtherReader'  BY SMTT(30) DEF BleResumeButton, BleResume
  <2>10. BleResumeBattery => NoOtherReader'  BY SMTT(30) DEF BleResumeBattery, BleResume
  <2>11. Read("btc") => NoOtherReader'  BY ONLY <1>1, Zenon DEF Readers
  <2> QED  BY ONLY <2>1, <2>2, <2>3, <2>4, <2>5, <2>6, <2>7, <2>8, <2>9, <2>10, <2>11, Zenon DEF
         BtcStep
<1>9. Environment => NoOtherReader'
  BY SMTT(30) DEF Environment, PlaceLoad, PushButton, PowerCycle, EmptyNestedLine, Reboot,
         TaskAtReset, PcAtReset, Blank
<1>10. TareWrite => NoOtherReader'  BY SMTT(30) DEF TareWrite
<1>11. UNCHANGED vars => NoOtherReader'  BY SMTT(30)
<1> QED  BY ONLY <1>2, <1>3, <1>4, <1>5, <1>6, <1>7, <1>8, <1>9, <1>10, <1>11, Zenon DEF Next

LEMMA InitHolds ==
  Init => IInv /\ NoOrphanedSuspension /\ StartsFromZero /\ ScaleIsStored
<1> SUFFICES ASSUME Init PROVE IInv /\ NoOrphanedSuspension /\ StartsFromZero /\ ScaleIsStored
  OBVIOUS
<1> USE Names, ConstantsAssumption DEF Init, Reset, TaskAtReset, PcAtReset, NoAverage
<1>1. TypeOK
  <2>1. task \in [Task -> {"absent", "active", "suspended"}] /\ pc \in [Task -> Labels]
    BY SMTT(30) DEF Labels
  <2>2. avg \in [Task -> [use : Uses, left : Nat, seen : SUBSET Sample]]
    BY SMTT(30) DEF Uses
  <2>3. nvsScale \in Nat \cup {Unset}
    <3>1. Factors \subseteq Nat
      BY ONLY ConstantsAssumption
    <3>2. nvsScale \in {Unset} \cup Factors
      BY ONLY Init, Zenon DEF Init
    <3> QED  BY ONLY <3>1, <3>2
  <2>4. pressed \in BOOLEAN
    BY ONLY Init, Zenon DEF Init
  <2> QED  BY <2>1, <2>2, <2>3, <2>4, SMTT(30) DEF TypeOK, Blank, Figures
<1>2. Flags  BY ONLY Init, Zenon DEF Init, Reset, Flags
<1>3. PcOK
  BY SMTT(30)
     DEF PcOK, Reading, MainLabels, WeighingLabels, BatteryLabels, ConsoleLabels, BtcLabels
<1>4. ReadOK  BY SMTT(30) DEF ReadOK
<1>5. CreationOrder  BY SMTT(30) DEF CreationOrder, Early, Reading
<1>6. BleOrder  BY SMTT(30) DEF BleOrder, Reading
<1>7. BootClean  BY SMTT(30) DEF BootClean, Reading
<1>8. MenuOpen  BY SMTT(30) DEF MenuOpen
<1>9. NoOrphanedSuspension  BY SMTT(30) DEF NoOrphanedSuspension
<1>10. StartsFromZero  BY SMTT(30) DEF StartsFromZero
<1>11. ScaleIsStored  BY SMTT(30) DEF ScaleIsStored, ScaleLoaded
<1> QED
  BY ONLY <1>1, <1>2, <1>3, <1>4, <1>5, <1>6, <1>7, <1>8, <1>9, <1>10, <1>11, Zenon DEF IInv

(* The strengthening of the type invariant on which the rest depends: each *)
(* task in its own code, created in app_main's order, and the converter's  *)
(* book-keeping in step with readValue.                                    *)
THEOREM Inductive == Safe => []IInv
<1>1. Init => IInv
  BY InitHolds
<1>2. IInv /\ [Next]_vars => IInv'
  BY FlagsStep, TypeStep, PcStep, ReadStep, CreationStep, BleStep, BootStep, MenuStep, Zenon
     DEF IInv
<1> QED  BY <1>1, <1>2, PTL DEF Safe

(* No task of the firmware ever leaves its types: handles, places, samples *)
(* and figures stay what the code can hold.                                *)
THEOREM TypeCorrect == Safe => []TypeOK
<1>1. IInv => TypeOK
  BY DEF IInv
<1> QED  BY <1>1, Inductive, PTL

(* vTaskSuspend by the battery task, the console menu and the BLE tare     *)
(* never leaves a task suspended with nobody left to resume it, except     *)
(* tareTask in the one place that NoOrphanedSuspension names.              *)
THEOREM NobodyIsForgotten == Safe => []NoOrphanedSuspension
<1>1. Init => NoOrphanedSuspension
  BY InitHolds
<1> QED  BY <1>1, SuspensionStep, Inductive, PTL DEF Safe

(* No vTaskResume of the firmware meets a NULL handle, even for a BLE      *)
(* client that writes while app_main is still starting.                    *)
THEOREM EveryHandleIsSet == Safe => []ResumeNeverNull
<1>1. IInv => ResumeNeverNull
  BY Names, SMTT(30) DEF IInv, TypeOK, PcOK, CreationOrder, BleOrder, ResumeNeverNull, Resumes,
     Active, Early, Reading, MainLabels
<1> QED  BY <1>1, Inductive, PTL

(* The boot tare leaves an average of true samples in OFFSET.              *)
THEOREM BootTareHolds == Safe => []StartsFromZero
<1>1. Init => StartsFromZero
  BY InitHolds
<1> QED  BY <1>1, ZeroStep, Inductive, PTL DEF Safe

(* With an NVS that accepts every write, a restart reads back the scale in *)
(* use.                                                                    *)
THEOREM ScaleSurvives == ~NvsMayFail => (Safe => []ScaleIsStored)
<1> SUFFICES ASSUME ~NvsMayFail PROVE Safe => []ScaleIsStored
  OBVIOUS
<1>1. Init => ScaleIsStored
  BY InitHolds
<1>2. IInv /\ ScaleIsStored /\ [Next]_vars => ScaleIsStored'
  BY ScaleStep
<1> QED  BY <1>1, <1>2, Inductive, PTL DEF Safe

(* With no BLE client and no reading command, the converter has one reader *)
(* at a time: app_main is done with it before weighingTask exists.         *)
THEOREM ReadersTakeTurns == Unattended => (Safe => []OneReader)
<1> SUFFICES ASSUME Unattended PROVE Safe => []OneReader
  OBVIOUS
<1>1. Init => NoOtherReader
  BY Names, SMTT(30) DEF Init, Reset, PcAtReset, NoOtherReader, Reading
<1>2. IInv /\ NoOtherReader /\ [Next]_vars => NoOtherReader'
  BY QuietStep
<1>3. IInv /\ NoOtherReader => OneReader
  <2> SUFFICES ASSUME IInv, NoOtherReader PROVE OneReader
    OBVIOUS
  <2>1. \A t \in readers : t \in Task /\ pc[t] \in {"note", "shift"}
    BY DEF IInv, TypeOK, ReadOK
  <2>2. readers \subseteq {"main", "weighing"}
    BY <2>1 DEF IInv, PcOK, NoOtherReader, Reading, BatteryLabels, Task
  <2>3. ~({"main", "weighing"} \subseteq readers)
    BY <2>1, Names DEF IInv, PcOK, CreationOrder, Early, Reading
  <2>4. readers = {} \/ \E t : readers = {t}
    BY <2>2, <2>3
  <2>5. Cardinality(readers) \in {0, 1}
    BY <2>4, FS_EmptySet, FS_Singleton
  <2> QED
    BY <2>5 DEF OneReader
<1> QED  BY <1>1, <1>2, <1>3, Inductive, PTL DEF Safe

=============================================================================
