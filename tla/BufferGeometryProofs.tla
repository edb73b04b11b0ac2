------------------------ MODULE BufferGeometryProofs ------------------------
(***************************************************************************)
(* Proofs about the geometry check of SET_BUFFER, for every word size and  *)
(* every mode size at most half of it.                                     *)
(*                                                                         *)
(* The additions of the check can wrap, and a wrapped sum passes it.  What *)
(* saves the check is its last line: the payload length is a word, and it  *)
(* is at least two bytes per pixel, so an extent is at most half a word,   *)
(* and the sum of such an extent and a coordinate inside a mode cannot     *)
(* wrap at all.                                                            *)
(***************************************************************************)
EXTENDS BufferGeometry, TLAPS

\* A factor of a product of positive numbers is no larger than the product.
LEMMA FactorBound ==
  ASSUME NEW a \in Nat, NEW b \in Nat, a > 0, b > 0
  PROVE  a * b \in Nat /\ a <= a * b /\ b <= a * b /\ a * b > 0
OBVIOUS

\* Products are monotone.
LEMMA ProductMonotone ==
  ASSUME NEW a \in Nat, NEW b \in Nat, NEW c \in Nat, NEW d \in Nat,
         a <= c, b <= d
  PROVE  a * b <= c * d
<1>1. a * b <= c * b
  OBVIOUS
<1>2. c * b <= c * d
  OBVIOUS
<1> QED BY <1>1, <1>2

\* An extent that passes the length check is less than half a word.
LEMMA ExtentBound ==
  ASSUME NEW r \in Rect, NEW p \in Payload, ValidExtents(r), ValidLength(r, p)
  PROVE  /\ 2 * r.width < WordSize
         /\ 2 * r.height < WordSize
<1>1. /\ r.width \in Nat /\ r.height \in Nat /\ r.bpp \in Nat /\ r.bpp >= 2
      /\ r.width > 0 /\ r.height > 0
      /\ p.length \in Nat /\ p.length < WordSize
  BY GeometryAssumption
     DEF Rect, Payload, Word, BytesPerPixel, ValidExtents
<1> DEFINE area == r.width * r.height
<1>2. area \in Nat /\ r.width <= area /\ r.height <= area
  BY <1>1, FactorBound
<1>3. p.length = area * r.bpp
  BY DEF ValidLength
<1> HIDE DEF area
<1>4. area * 2 <= area * r.bpp
  BY <1>1, <1>2, ProductMonotone
<1> QED BY <1>1, <1>2, <1>3, <1>4, GeometryAssumption

\* A sum that cannot reach the word size is not reduced by wrapping.
LEMMA NoWrap ==
  ASSUME NEW a \in Nat, NEW b \in Nat, a + b < WordSize
  PROVE  WrappingAdd(a, b) = a + b
BY GeometryAssumption DEF WrappingAdd

\* What validation admits fits the mode.
LEMMA ValidFits ==
  ASSUME NEW r \in Rect, NEW p \in Payload, ValidExtents(r), ValidLength(r, p)
  PROVE  /\ r.x + r.width <= r.hdisplay
         /\ r.y + r.height <= r.vdisplay
<1>1. /\ r.x \in Nat /\ r.y \in Nat /\ r.width \in Nat /\ r.height \in Nat
      /\ r.hdisplay \in Nat /\ r.vdisplay \in Nat
      /\ r.hdisplay < ModeSize /\ r.vdisplay < ModeSize
      /\ r.x <= r.hdisplay /\ r.y <= r.vdisplay
  BY GeometryAssumption DEF Rect, Word, Extent, ValidExtents
<1>2. r.x + r.width < WordSize /\ r.y + r.height < WordSize
  BY <1>1, ExtentBound, GeometryAssumption
<1> QED BY <1>1, <1>2, NoWrap DEF ValidExtents

\* What validation admits is a non-empty read of at most one frame.
LEMMA ValidBounded ==
  ASSUME NEW r \in Rect, NEW p \in Payload,
         ValidExtents(r), ValidLength(r, p), ValidCompression(p)
  PROVE  /\ expected_bytes(p) > 0
         /\ expected_bytes(p) <= r.hdisplay * r.vdisplay * r.bpp
<1>1. /\ r.x \in Nat /\ r.y \in Nat /\ r.width \in Nat /\ r.height \in Nat
      /\ r.hdisplay \in Nat /\ r.vdisplay \in Nat
      /\ r.bpp \in Nat /\ r.bpp > 0 /\ r.width > 0 /\ r.height > 0
      /\ p.length \in Nat /\ p.compressed_length \in Nat
  BY GeometryAssumption
     DEF Rect, Payload, Word, Extent, BytesPerPixel, ValidExtents
<1> DEFINE area == r.width * r.height
           frame == r.hdisplay * r.vdisplay
<1>2. r.width <= r.hdisplay /\ r.height <= r.vdisplay
  BY <1>1, ValidFits
<1>3. area \in Nat /\ frame \in Nat /\ area > 0 /\ area <= frame
  BY <1>1, <1>2, FactorBound, ProductMonotone
<1>4. p.length = area * r.bpp
  BY DEF ValidLength
<1> HIDE DEF area, frame
<1>5. p.length > 0
  BY <1>1, <1>3, <1>4, FactorBound
<1>6. p.length <= frame * r.bpp
  BY <1>1, <1>3, <1>4, ProductMonotone
<1>7. expected_bytes(p) > 0 /\ expected_bytes(p) <= p.length
  BY <1>1, <1>5 DEF ValidCompression, expected_bytes
<1>8. expected_bytes(p) \in Nat /\ frame * r.bpp \in Nat
  BY <1>1, <1>3 DEF expected_bytes
<1> QED BY <1>1, <1>6, <1>7, <1>8 DEF frame

\* Admission is remembered with what it was checked on.
GeometryInv ==
  admitted # NoBuffer =>
    /\ admitted \in [rect : Rect, payload : Payload]
    /\ ValidExtents(admitted.rect)
    /\ ValidLength(admitted.rect, admitted.payload)
    /\ ValidCompression(admitted.payload)

LEMMA GeometryInvariant == GeometrySpec => []GeometryInv
<1>1. GeometryInit => GeometryInv
  BY DEF GeometryInit, GeometryInv
<1>2. GeometryInv /\ [GeometryNext]_admitted => GeometryInv'
  <2> SUFFICES ASSUME GeometryInv, [GeometryNext]_admitted PROVE GeometryInv'
    OBVIOUS
  <2>1. CASE validate_buffer_request
    <3>1. PICK r \in Rect, p \in Payload :
            /\ ValidExtents(r) /\ ValidLength(r, p) /\ ValidCompression(p)
            /\ admitted' = [rect |-> r, payload |-> p]
      BY <2>1 DEF validate_buffer_request
    <3>2. admitted'.rect = r /\ admitted'.payload = p
      BY <3>1
    <3> QED BY <3>1, <3>2 DEF GeometryInv
  <2>2. CASE finish_exact_payload_processing
    BY <2>2 DEF finish_exact_payload_processing, GeometryInv
  <2>3. CASE UNCHANGED admitted
    BY <2>3 DEF GeometryInv
  <2> QED BY <2>1, <2>2, <2>3 DEF GeometryNext
<1> QED BY <1>1, <1>2, PTL DEF GeometrySpec

\* For every word and mode size: wrapping additions never let a rectangle
\* outside the mode through.
THEOREM AdmittedRectanglesFit == GeometrySpec => []AdmittedFits
<1>1. GeometryInv => AdmittedFits
  BY ValidFits DEF GeometryInv, AdmittedFits
<1> QED BY <1>1, GeometryInvariant, PTL

\* For every word and mode size: the armed read is non-empty and at most one
\* frame long.
THEOREM AdmittedReadsAreBounded == GeometrySpec => []ReadIsBounded
<1>1. GeometryInv => ReadIsBounded
  BY ValidBounded DEF GeometryInv, ReadIsBounded
<1> QED BY <1>1, GeometryInvariant, PTL
=============================================================================
