--------------------------- MODULE BufferGeometry ---------------------------
(***************************************************************************)
(* The geometry part of validate_buffer_request (gadget/src/lib.rs), in    *)
(* the integer widths of the code.  x, y, width and height are unsigned    *)
(* words that wrap when they are added, as in a release build; the mode's  *)
(* extents are narrower; the expected length is computed in usize with     *)
(* checked multiplications, so it does not wrap.                           *)
(***************************************************************************)
EXTENDS Integers

CONSTANTS
  WordSize,  \* 2^32 in the code
  ModeSize,  \* 2^16 in the code: hdisplay and vdisplay are u16
  NoBuffer   \* no SET_BUFFER owns the receive path

Word == 0 .. WordSize - 1
Extent == 0 .. ModeSize - 1

\* RGB565, RGB888 and XRGB8888.
BytesPerPixel == {2, 3, 4}

\* The rectangle of a SET_BUFFER, with the committed mode it is checked
\* against, and what the request says of its payload.
Rect ==
  [ x : Word, y : Word, width : Word, height : Word,
    hdisplay : Extent, vdisplay : Extent, bpp : BytesPerPixel ]

Payload ==
  [ length : Word, compressed_length : Word,
    compression : {"none", "lz4", "other"} ]

ASSUME GeometryAssumption ==
  /\ WordSize \in Nat /\ ModeSize \in Nat
  /\ 0 < ModeSize /\ 2 * ModeSize <= WordSize
  /\ NoBuffer \notin [rect : Rect, payload : Payload]

VARIABLE admitted  \* the SET_BUFFER that passed validation and owns the path

WrappingAdd(a, b) == (a + b) % WordSize

\* Mutation: only the wrapped sums are compared with the mode.
ValidSums(r) ==
  /\ r.width > 0 /\ r.height > 0
  /\ WrappingAdd(r.x, r.width) <= r.hdisplay
  /\ WrappingAdd(r.y, r.height) <= r.vdisplay

ValidExtents(r) ==
  /\ r.width > 0 /\ r.height > 0
  /\ r.x <= r.hdisplay /\ r.y <= r.vdisplay
  /\ WrappingAdd(r.x, r.width) <= r.hdisplay
  /\ WrappingAdd(r.y, r.height) <= r.vdisplay

ValidLength(r, p) == p.length = r.width * r.height * r.bpp

\* Mutation: an empty compressed payload is let through.
ValidCompressionEmpty(p) ==
  \/ p.compression = "none" /\ p.compressed_length \in {0, p.length}
  \/ p.compression = "lz4" /\ p.compressed_length \in 0 .. p.length

ValidCompression(p) ==
  \/ p.compression = "none" /\ p.compressed_length \in {0, p.length}
  \/ p.compression = "lz4" /\ p.compressed_length \in 1 .. p.length

\* The number of bytes arm_exact_payload_aio asks of the bulk endpoint.
expected_bytes(p) ==
  IF p.compression = "none" THEN p.length ELSE p.compressed_length

GeometryInit == admitted = NoBuffer

validate_buffer_request ==
  /\ admitted = NoBuffer
  /\ \E r \in Rect :
       /\ ValidExtents(r)
       /\ \E p \in Payload :
            /\ ValidLength(r, p) /\ ValidCompression(p)
            /\ admitted' = [rect |-> r, payload |-> p]

\* The payload has been processed: the next request may be admitted.
finish_exact_payload_processing ==
  admitted # NoBuffer /\ admitted' = NoBuffer

GeometryNext == validate_buffer_request \/ finish_exact_payload_processing

GeometrySpec == GeometryInit /\ [][GeometryNext]_admitted

\* An admitted rectangle lies inside the committed mode in true integers,
\* although the code's additions wrap: so the u16 casts that build its clip
\* rectangle, and the row offsets of the copy, are exact.
AdmittedFits ==
  admitted # NoBuffer =>
    LET r == admitted.rect
    IN  r.x + r.width <= r.hdisplay /\ r.y + r.height <= r.vdisplay

\* An admitted request arms a bulk read that is neither empty nor larger than
\* one full frame of the committed mode.
ReadIsBounded ==
  admitted # NoBuffer =>
    LET r == admitted.rect
    IN  /\ expected_bytes(admitted.payload) > 0
        /\ expected_bytes(admitted.payload) <= r.hdisplay * r.vdisplay * r.bpp
=============================================================================
