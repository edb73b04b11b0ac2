-------------------------- MODULE ReceiveOwnership --------------------------
(***************************************************************************)
(* What the receive path promises, without saying how: one frame buffer    *)
(* that is lent to the kernel, filled, shown and lent again.  Whatever goes *)
(* wrong between lending and showing contains the path; it is usable again *)
(* only after the endpoint generation is gone and the kernel has given the *)
(* buffer back, and it is torn down only when nobody owns it.              *)
(***************************************************************************)
VARIABLES
  owner,  \* who answers for the buffer
  lent    \* the kernel holds it

ovars == <<owner, lent>>

Owners == {"free", "receiving", "processing", "contained", "closed"}

OwnershipInit == owner = "free" /\ lent = FALSE

Lend    == /\ owner = "free" /\ ~lent
           /\ owner' = "receiving" /\ lent' = TRUE
Fill    == /\ owner = "receiving" /\ lent
           /\ owner' = "processing" /\ lent' = FALSE
Show    == /\ owner = "processing"
           /\ owner' = "free" /\ UNCHANGED lent
Contain == /\ owner \in {"receiving", "processing"}
           /\ owner' = "contained"
           /\ lent' \in {lent, FALSE}
Reclaim == /\ owner = "contained" /\ lent
           /\ lent' = FALSE /\ UNCHANGED owner
Retire  == /\ owner = "contained" /\ ~lent
           /\ owner' = "free" /\ UNCHANGED lent
Close   == /\ owner = "free" /\ ~lent
           /\ owner' = "closed" /\ UNCHANGED lent

OwnershipNext ==
  Lend \/ Fill \/ Show \/ Contain \/ Reclaim \/ Retire \/ Close

OwnershipSpec == OwnershipInit /\ [][OwnershipNext]_ovars
=============================================================================
