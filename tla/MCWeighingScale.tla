--------------------------- MODULE MCWeighingScale ---------------------------
(***************************************************************************)
(* Small instances of WeighingScale.  Averages are of one sample, two for  *)
(* tare(2); the code's five and ten differ only in how often a reading     *)
(* repeats.                                                                *)
(***************************************************************************)
EXTENDS WeighingScale

MCTimes == [u \in Uses |-> IF u = "tare" THEN 2 ELSE 1]
(* The extreme of every range of BatteryLevel's thresholds that matters.   *)
MCAdc   == {2149, 2150}
MCOnce == [u \in Uses |-> 1]
MCNone  == {}
MCEvery == AllCommands
MCSome == {"m", "x", "one"}
MCHigh == {2150}

=============================================================================
