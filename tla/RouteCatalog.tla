---------------------------- MODULE RouteCatalog ----------------------------
(***************************************************************************)
(* The modes the gadget advertises and the route of each (drm/src/modes.rs *)
(* and the catalog construction of drm/src/main.rs).  A mode the panel     *)
(* has is routed exactly, to the first connector mode with its key; a      *)
(* portrait size the panel does not have is scaled.                        *)
(*                                                                         *)
(* A timing is abstracted to its size and its clock, the flags to a set of *)
(* bits: the ones of GUD_DISPLAY_MODE_FLAG_USER_MASK, the preferred bit,   *)
(* which is outside of that mask, and private ones.                        *)
(***************************************************************************)
EXTENDS Naturals, Sequences

CONSTANTS
  Sizes,         \* the frame sizes
  Clocks,        \* the pixel clocks
  UserFlags,     \* GUD_DISPLAY_MODE_FLAG_USER_MASK
  PrivateFlags,  \* DRM flags that the protocol does not know
  Portrait,      \* SYNTHETIC_PORTRAIT_SIZES
  DerivedClock   \* the clock derive_mode_from_native computes

Preferred == "GUD_DISPLAY_MODE_FLAG_PREFERRED"
ScaledFallback == 0

ASSUME CatalogAssumption ==
  /\ Portrait \subseteq Sizes
  /\ DerivedClock \in Clocks
  /\ UserFlags \cap PrivateFlags = {}
  /\ Preferred \notin UserFlags \cup PrivateFlags

Timing == [size : Sizes, clock : Clocks]
DisplayMode ==
  [timing : Timing, flags : SUBSET (UserFlags \cup PrivateFlags \cup {Preferred})]

\* A mode of the DRM connector: preferred is its ModeTypeFlags::PREFERRED.
ConnectorMode ==
  [timing : Timing, flags : SUBSET (UserFlags \cup PrivateFlags), preferred : BOOLEAN]

Key == [timing : Timing, flags : SUBSET UserFlags]

\* Mutation: the key keeps every flag.
ModeKeyUnmasked(m) == [timing |-> m.timing, flags |-> m.flags]

ModeKey(m) == [timing |-> m.timing, flags |-> m.flags \cap UserFlags]

modes_have_same_user_timing(a, b) ==
  /\ a.timing = b.timing
  /\ a.flags \cap UserFlags = b.flags \cap UserFlags

\* The first of a set of indices.
First(indices) == CHOOSE i \in indices : \A j \in indices : i <= j

advertised_preferred_mode_index(modes) ==
  LET preferred == { i \in DOMAIN modes : modes[i].preferred }
  IN  IF preferred # {} THEN First(preferred) ELSE 1

derive_mode_from_native(s) ==
  [timing |-> [size |-> s, clock |-> DerivedClock], flags |-> {}]

\* The portrait sizes no connector mode has.
synthetic_modes(modes) ==
  { derive_mode_from_native(s) :
      s \in { t \in Portrait : \A i \in DOMAIN modes : modes[i].timing.size # t } }

normalize_advertised_mode(k, preferred) ==
  [ timing |-> k.timing,
    flags  |-> k.flags \cup (IF preferred THEN {Preferred} ELSE {}) ]

PhysicalKeys(modes) == { ModeKey(modes[i]) : i \in DOMAIN modes }

\* RouteCatalog::build, as by_key: the entry of every key.  The route of an
\* entry is the index of its connector mode, or ScaledFallback.
build(modes) ==
  LET preferred == ModeKey(modes[advertised_preferred_mode_index(modes)])
      keys == PhysicalKeys(modes)
  IN  [ k \in keys \cup { ModeKey(m) : m \in synthetic_modes(modes) } |->
          [ route      |-> IF k \in keys
                           THEN First({ i \in DOMAIN modes : ModeKey(modes[i]) = k })
                           ELSE ScaledFallback,
            advertised |-> normalize_advertised_mode(k, k = preferred) ] ]

\* Whether a STATE_CHECK for a mode on the wire passes the validation that
\* was configured with the advertised modes.
validate_state_check(catalog, wire) ==
  \E k \in DOMAIN catalog :
    modes_have_same_user_timing(catalog[k].advertised, wire)
=============================================================================
