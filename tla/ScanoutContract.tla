--------------------------- MODULE ScanoutContract ---------------------------
(***************************************************************************)
(* What a committed mode may do to the scanout the daemon paints into: it  *)
(* is left as it is, or replaced by a slot that was prepared for another   *)
(* physical mode, or by the baseline in slot 0, which is kept for as long  *)
(* as the daemon runs.  Nothing else moves it: no failed switch, no        *)
(* lifecycle event and no frame.                                           *)
(***************************************************************************)
EXTENDS Naturals

CONSTANTS
  Physical,  \* the physical modes
  Baseline   \* the physical mode of slot 0

ASSUME ContractAssumption == Baseline \in Physical

VARIABLES
  slot,      \* the index of the active slot
  physical   \* its mode

Slots == 0 .. 2

ContractInit == slot = 0 /\ physical = Baseline

KeepScanout == UNCHANGED <<slot, physical>>

SwitchExact(m) ==
  /\ m # physical
  /\ slot' \in Slots \ {0, slot}
  /\ physical' = m

SwitchBaseline ==
  /\ slot # 0
  /\ slot' = 0 /\ physical' = Baseline

ContractNext == (\E m \in Physical : SwitchExact(m)) \/ SwitchBaseline

ContractSpec == ContractInit /\ [][ContractNext]_<<slot, physical>>
=============================================================================
