---------------------------- MODULE MCAioDriver ----------------------------
(***************************************************************************)
(* A driver with two places, so that operations overtake one another.      *)
(***************************************************************************)
EXTENDS AioDriver
=============================================================================
