---------------------------- MODULE MCReceiveLoop ----------------------------
(***************************************************************************)
(* Instances of the receive loop for TLC.                                  *)
(***************************************************************************)
EXTENDS ReceiveLoop

\* Everything a SET_BUFFER needs and the requests that can disturb it.
FrameRequests ==
  {"GET_STATUS", "SET_STATE_CHECK", "SET_STATE_COMMIT",
   "SET_CONTROLLER_ENABLE", "SET_DISPLAY_ENABLE", "SET_BUFFER"}
=============================================================================
