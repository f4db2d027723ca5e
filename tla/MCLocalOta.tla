----------------------------- MODULE MCLocalOta -----------------------------
(***************************************************************************)
(* A small instance of LocalOta: two tasks, an image with a line feed in   *)
(* it, a body cut short, and a buffer that takes the headers and one byte. *)
(***************************************************************************)
EXTENDS LocalOta

CONSTANTS magic

MCImage  == <<magic, "lf">>
MCBodies == {MCImage, <<magic>>}

=============================================================================
