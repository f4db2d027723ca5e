--------------------------- MODULE MCProvisioning ---------------------------
(***************************************************************************)
(* A small instance of Provisioning: the default credentials and some with *)
(* a password that fills its array, two initialisations and one update     *)
(* task.                                                                   *)
(***************************************************************************)
EXTENDS Provisioning

CONSTANTS default, full

MCCredentials  == {default, full}
MCUnterminated == {full}

=============================================================================
