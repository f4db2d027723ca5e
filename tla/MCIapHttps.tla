----------------------------- MODULE MCIapHttps -----------------------------
(***************************************************************************)
(* A small instance of IapHttps: pages of two bytes, an image of three (a  *)
(* full page and a rest), and buffers that some splits of a response into  *)
(* packets overflow.                                                       *)
(***************************************************************************)
EXTENDS IapHttps

CONSTANTS b1, b2, b3

MCByte     == {b1, b2, b3}
MCImages   == {<<b1, b2, b3>>}
MCFiles    == {<<b1, b2, b3>>, <<b1, b2>>}
MCMetadata == {<<b1, b1>>}
MCBuffers  == [j \in {"check", "download"} |-> IF j = "check" THEN 3 ELSE 4]
MCOneFile  == {<<b1, b2>>}
MCIntervals == {0, 10}
MCNever    == {10}

=============================================================================
