------------------------------ MODULE MCViewer ------------------------------
(***************************************************************************)
(* Two frame sizes: the file both grows and shrinks under a mapping.       *)
(***************************************************************************)
EXTENDS Viewer
=============================================================================
