--------------------------- MODULE MCPresentation ---------------------------
(***************************************************************************)
(* Two physical modes of different sizes, and a scaled mode of the second  *)
(* size.                                                                   *)
(***************************************************************************)
EXTENDS Presentation, TLC

CONSTANTS P1, P2, S1

ModeSize == P1 :> 1 @@ P2 :> 2 @@ S1 :> 2
=============================================================================
