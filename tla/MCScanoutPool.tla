--------------------------- MODULE MCScanoutPool ---------------------------
(***************************************************************************)
(* Three connectors: a panel with two modes; one that lists a mode twice,  *)
(* under flags the protocol masks, and prefers its last one; and one with  *)
(* a single mode.  None has the portrait size.                             *)
(***************************************************************************)
EXTENDS ScanoutPool

Mode(size, flags, preferred) ==
  [timing |-> [size |-> size, clock |-> "60"], flags |-> flags, preferred |-> preferred]

MCConnectors ==
  { << Mode("fhd", {}, TRUE), Mode("hd", {}, FALSE) >>,
    << Mode("fhd", {"interlace"}, FALSE), Mode("fhd", {"interlace", "3d"}, FALSE),
       Mode("hd", {}, TRUE) >>,
    << Mode("hd", {}, FALSE) >> }

MCBytes == [fhd |-> 3, hd |-> 2, portrait |-> 1]
=============================================================================
