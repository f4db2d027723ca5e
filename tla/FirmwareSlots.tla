---------------------------- MODULE FirmwareSlots ----------------------------
(***************************************************************************)
(* What an update over the air promises: the device has several firmware   *)
(* slots, and at any instant, a power failure included, the slot it would  *)
(* boot holds a whole image and the slot it runs from is left alone.       *)
(***************************************************************************)
CONSTANT Slot

VARIABLES
  boot,         (* the slot the next start boots                           *)
  running,      (* the slot of the running firmware                        *)
  complete      (* the slots that hold a whole, valid image                *)

Init ==
  /\ boot \in Slot
  /\ running = boot
  /\ complete \in {c \in SUBSET Slot : boot \in c}

(* A slot that neither runs nor boots is erased or written. *)
Program ==
  /\ \E s \in Slot \ {boot, running} : complete' \in {complete \cup {s}, complete \ {s}}
  /\ UNCHANGED <<boot, running>>

Activate ==
  /\ boot' \in complete
  /\ UNCHANGED <<running, complete>>

Restart ==
  /\ running' = boot
  /\ UNCHANGED <<boot, complete>>

Next == Program \/ Activate \/ Restart

Spec == Init /\ [][Next]_<<boot, running, complete>>

(* What a device in the field lives by: the firmware that runs and the one *)
(* the next start boots are whole.                                         *)
WholeImages == boot \in complete /\ running \in complete

=============================================================================
