-------------------------- MODULE MCBufferGeometry --------------------------
(***************************************************************************)
(* Four-bit words and two-bit mode extents: small enough to enumerate every*)
(* request, wide enough for every addition to wrap.                        *)
(***************************************************************************)
EXTENDS BufferGeometry
=============================================================================
