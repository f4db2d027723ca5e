------------------------------ MODULE MCReadout ------------------------------
(***************************************************************************)
(* Small instances of Readout: readings around zero and at the converter's *)
(* limits, and factors that make small, large and infinite masses of them. *)
(***************************************************************************)
EXTENDS Readout

MCSetups ==
  {<<-10, {-1, 0}, 1>>,                     \* 9 and 10, then -1, 0 and 1
   <<8388607, {-8388608}, 1>>,              \* the largest, without calibration
   <<0, {-7518402}, -3007>>,                \* 2500.29997, as a float 2500.30005
   <<4, {8}, 0>>}                           \* no factor
MCTimes  == [use \in {"weigh", "tare"} |-> IF use = "weigh" THEN 1 ELSE 2]

=============================================================================
