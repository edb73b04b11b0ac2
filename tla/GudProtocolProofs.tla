-------------------------- MODULE GudProtocolProofs --------------------------
(***************************************************************************)
(* Proofs about the EP0 protocol record.                                   *)
(*                                                                         *)
(* The inductive invariant is stated for a record g, not for the variable, *)
(* and preserved by each helper of lib.rs on its own: the receive loop     *)
(* applies the same helpers, two or three in one step.                     *)
(***************************************************************************)
EXTENDS GudProtocol, TLAPS

\* What every helper preserves.
WellFormed(g) ==
  /\ g \in ProtocolState
  /\ g.display_enabled => g.controller_enabled /\ g.committed_state # NoState
  /\ (g.status # "OK") <=> g.clear_on_success
  /\ g.pending_state # NoState =>
       g.pending_state.generation = g.next_generation
  /\ g.committed_state # NoState =>
       g.committed_state.generation \in 1 .. g.next_generation
  /\ g.pending_state # NoState /\ g.committed_state # NoState =>
       g.committed_state.generation < g.pending_state.generation
  /\ g.pending_state # NoState => g.pending_state.generation > 0

\* The status latch: whatever is latched stays clearable by a success.
LEMMA LatchPreserves ==
  ASSUME NEW g, WellFormed(g), NEW s \in StatusCode
  PROVE  /\ WellFormed(latch_status(g, s))
         /\ WellFormed(reset_status(g))
         /\ WellFormed(mark_success(g))
<1>1. WellFormed(latch_status(g, s))
  BY DEF WellFormed, ProtocolState, StatusCode, DisplayStateSnapshot,
         latch_status
<1>2. WellFormed(reset_status(g))
  BY DEF WellFormed, ProtocolState, StatusCode, DisplayStateSnapshot,
         reset_status
<1>3. WellFormed(mark_success(g))
  BY DEF WellFormed, ProtocolState, StatusCode, DisplayStateSnapshot,
         mark_success
<1> QED BY <1>1, <1>2, <1>3

\* The resets of a lifecycle transition.
LEMMA ResetPreserves ==
  ASSUME NEW g, WellFormed(g)
  PROVE  /\ WellFormed(reset_protocol_state(g))
         /\ WellFormed(reset_connector_status_changed(g))
         /\ WellFormed(usb_activation_transition(g))
         /\ WellFormed([g EXCEPT !.connector_changed = FALSE])
<1> USE ProtocolAssumption
         DEF WellFormed, ProtocolState, StatusCode, DisplayStateSnapshot
<1>1. WellFormed(reset_protocol_state(g))
  BY DEF reset_protocol_state
<1>2. WellFormed(reset_connector_status_changed(g))
  BY DEF reset_connector_status_changed
<1>3. WellFormed(usb_activation_transition(g))
  BY DEF usb_activation_transition
<1>4. WellFormed([g EXCEPT !.connector_changed = FALSE])
  OBVIOUS
<1> QED BY <1>1, <1>2, <1>3, <1>4

\* Checking, committing and forgetting a display state.
LEMMA StatePreserves ==
  ASSUME NEW g, WellFormed(g), NEW m \in Modes
  PROVE  /\ WellFormed(store_pending_state(g, m))
         /\ WellFormed(clear_pending_state(g))
         /\ g.pending_state # NoState => WellFormed(commit_pending_state(g))
<1>1. WellFormed(store_pending_state(g, m))
  <2> DEFINE n == g.next_generation + 1
             p == [mode |-> m, generation |-> n]
             h == store_pending_state(g, m)
  <2>1. g.next_generation \in Nat /\ n \in Nat /\ n > 0
    BY DEF WellFormed, ProtocolState
  <2>2. p \in DisplayStateSnapshot /\ p.generation = n
    BY <2>1 DEF DisplayStateSnapshot
  <2>3. p # NoState
    BY <2>2, ProtocolAssumption DEF DisplayStateSnapshot
  <2> HIDE DEF p, n
  <2>4. h = [g EXCEPT !.next_generation = n, !.pending_state = p]
    BY DEF store_pending_state, p, n
  <2> HIDE DEF h
  <2>5. h \in ProtocolState
    BY <2>1, <2>2, <2>4 DEF WellFormed, ProtocolState
  <2>6. /\ h.pending_state = p /\ h.next_generation = n
        /\ h.committed_state = g.committed_state
        /\ h.status = g.status /\ h.clear_on_success = g.clear_on_success
        /\ h.display_enabled = g.display_enabled
        /\ h.controller_enabled = g.controller_enabled
    BY <2>4 DEF WellFormed, ProtocolState
  <2>7. g.committed_state # NoState =>
          /\ g.committed_state.generation \in 1 .. g.next_generation
          /\ g.committed_state.generation \in 1 .. n
          /\ g.committed_state.generation < n
    <3>1. n = g.next_generation + 1
      BY DEF n
    <3> QED BY <2>1, <3>1 DEF WellFormed
  <2>8. WellFormed(h)
    BY <2>1, <2>2, <2>3, <2>5, <2>6, <2>7 DEF WellFormed
  <2> QED BY <2>8 DEF h
<1>2. WellFormed(clear_pending_state(g))
  BY ProtocolAssumption
     DEF clear_pending_state, WellFormed, ProtocolState, DisplayStateSnapshot
<1>3. ASSUME g.pending_state # NoState
      PROVE  WellFormed(commit_pending_state(g))
  <2> DEFINE p == g.pending_state
             h == commit_pending_state(g)
  <2>1. /\ p \in DisplayStateSnapshot /\ g.next_generation \in Nat
        /\ p.generation = g.next_generation /\ p.generation > 0
    BY <1>3 DEF WellFormed, ProtocolState
  <2>2. h \in ProtocolState
    BY <2>1 DEF commit_pending_state, WellFormed, ProtocolState
  <2>3. /\ h.pending_state = NoState /\ h.committed_state = p
        /\ h.next_generation = g.next_generation
        /\ h.status = g.status /\ h.clear_on_success = g.clear_on_success
        /\ h.display_enabled = g.display_enabled
        /\ h.controller_enabled = g.controller_enabled
    BY DEF commit_pending_state, WellFormed, ProtocolState
  <2> HIDE DEF h, p
  <2>4. p.generation \in 1 .. g.next_generation
    BY <2>1
  <2>5. p # NoState
    BY <1>3 DEF p
  <2>6. WellFormed(h)
    BY <2>1, <2>2, <2>3, <2>4, <2>5 DEF WellFormed
  <2> QED BY <2>6 DEF h
<1> QED BY <1>1, <1>2, <1>3

\* The two enables.
LEMMA EnablePreserves ==
  ASSUME NEW g, WellFormed(g), NEW b \in BOOLEAN
  PROVE  /\ WellFormed(update_controller_enabled(g, b))
         /\ display_enable_permitted(g, b) =>
              WellFormed([g EXCEPT !.display_enabled = b])
<1> USE DEF WellFormed, ProtocolState, StatusCode, DisplayStateSnapshot
<1>1. WellFormed(update_controller_enabled(g, b))
  BY DEF update_controller_enabled
<1>2. display_enable_permitted(g, b) =>
        WellFormed([g EXCEPT !.display_enabled = b])
  BY DEF display_enable_permitted
<1> QED BY <1>1, <1>2

\* Every FunctionFS event leaves a well-formed record behind.
LEMMA LifecyclePreservesRecord ==
  ASSUME NEW g, WellFormed(g), NEW e
  PROVE  WellFormed(LifecycleReset(g, e))
<1> USE LatchPreserves, ResetPreserves DEF StatusCode
<1>1. CASE e = "Enable"
  BY <1>1 DEF LifecycleReset
<1>2. CASE e = "Bind"
  BY <1>2 DEF LifecycleReset
<1>3. CASE e = "Resume"
  BY <1>3 DEF LifecycleReset, handle_resume_transition
<1>4. CASE e \notin {"Enable", "Bind", "Resume"}
  BY <1>4 DEF LifecycleReset, handle_suspend_transition
<1> QED BY <1>1, <1>2, <1>3, <1>4

\* The rejected state requests too.
LEMMA RejectPreserves ==
  ASSUME NEW g, WellFormed(g)
  PROVE  WellFormed(reject_state_check(g)) /\ WellFormed(reject_state_commit(g))
<1>1. \E m : m \in Modes
  BY ProtocolAssumption
<1>2. WellFormed(clear_pending_state(g))
  BY <1>1, StatePreserves
<1>3. "INVALID_PARAMETER" \in StatusCode
  BY DEF StatusCode
<1> QED BY <1>2, <1>3, LatchPreserves DEF reject_state_check, reject_state_commit

\* The inductive invariant of the protocol.
ProtocolInv == WellFormed(gud)

LEMMA ProtocolInitial == ProtocolInit => ProtocolInv
BY ProtocolAssumption DEF ProtocolInv, ProtocolInit, InitialProtocolState, WellFormed,
   ProtocolState, StatusCode, DisplayStateSnapshot

LEMMA ProtocolStep ==
  ProtocolInv /\ [ProtocolNext]_gud => ProtocolInv'
<1> SUFFICES ASSUME WellFormed(gud), [ProtocolNext]_gud
             PROVE  WellFormed(gud')
  BY DEF ProtocolInv
<1> USE LatchPreserves DEF StatusCode
<1>1. CASE GetStatus \/ UNCHANGED gud
  BY <1>1 DEF GetStatus
<1>2. CASE GetInformation
  BY <1>2 DEF GetInformation
<1>3. CASE GetConnectorStatus
  BY <1>3, ResetPreserves DEF GetConnectorStatus
<1>4. CASE UnsupportedRequest
  BY <1>4 DEF UnsupportedRequest
<1>5. ASSUME NEW m \in Modes, SetStateCheck(m) PROVE WellFormed(gud')
  BY <1>5, StatePreserves DEF SetStateCheck
<1>6. CASE SetStateCheckRejected
  BY <1>6, RejectPreserves DEF SetStateCheckRejected
<1>7. CASE SetStateCommit
  <2>1. PICK m : m \in Modes
    BY ProtocolAssumption
  <2> QED BY <1>7, <2>1, StatePreserves DEF SetStateCommit
<1>8. CASE SetStateCommitRejected
  BY <1>8, RejectPreserves DEF SetStateCommitRejected
<1>9. ASSUME NEW b \in BOOLEAN, SetControllerEnable(b) PROVE WellFormed(gud')
  BY <1>9, EnablePreserves DEF SetControllerEnable
<1>10. ASSUME NEW b \in BOOLEAN, SetDisplayEnable(b) PROVE WellFormed(gud')
  BY <1>10, EnablePreserves DEF SetDisplayEnable
<1>11. CASE SetEnableMalformed \/ SetBufferInvalid
  BY <1>11 DEF SetEnableMalformed, SetBufferInvalid
<1>12. ASSUME NEW e \in LifecycleEvents, Lifecycle(e) PROVE WellFormed(gud')
  BY <1>12, LifecyclePreservesRecord DEF Lifecycle
<1> QED BY <1>1, <1>2, <1>3, <1>4, <1>5, <1>6, <1>7, <1>8, <1>9, <1>10,
          <1>11, <1>12 DEF ProtocolNext

\* For every set of modes: the record keeps its type, a display is only
\* enabled over a committed mode, no latched error is stuck, and check
\* generations are ordered.
THEOREM ProtocolSafe ==
  ProtocolSpec => [](/\ ProtocolTypeOK /\ DisplayNeedsMode
                     /\ ErrorsAreClearable /\ GenerationsOrdered)
<1>1. ProtocolInv => /\ ProtocolTypeOK /\ DisplayNeedsMode
                     /\ ErrorsAreClearable /\ GenerationsOrdered
  BY DEF ProtocolInv, WellFormed, ProtocolTypeOK, DisplayNeedsMode, ErrorsAreClearable,
         GenerationsOrdered
<1> QED BY <1>1, ProtocolInitial, ProtocolStep, PTL DEF ProtocolSpec

\* One step of the protocol replaces a committed mode only by the pending one.
CommitStep ==
  gud'.committed_state \notin {gud.committed_state, NoState} =>
    /\ gud'.committed_state = gud.pending_state
    /\ gud.committed_state # NoState =>
         gud'.committed_state.generation > gud.committed_state.generation

\* The helpers a step may apply besides the commit leave the committed mode
\* alone or forget it.
LEMMA KeepsCommitted ==
  ASSUME NEW g, g \in ProtocolState, NEW s, NEW m, NEW e, NEW b
  PROVE  /\ latch_status(g, s).committed_state = g.committed_state
         /\ mark_success(g).committed_state = g.committed_state
         /\ store_pending_state(g, m).committed_state = g.committed_state
         /\ clear_pending_state(g).committed_state = g.committed_state
         /\ update_controller_enabled(g, b).committed_state = g.committed_state
         /\ LifecycleReset(g, e).committed_state = NoState
<1> USE DEF ProtocolState, latch_status, mark_success
<1>1. LifecycleReset(g, e).committed_state = NoState
  BY DEF LifecycleReset, handle_resume_transition, handle_suspend_transition,
         reset_status, reset_protocol_state, reset_connector_status_changed,
         usb_activation_transition
<1> QED BY <1>1 DEF store_pending_state, clear_pending_state,
                    update_controller_enabled

LEMMA CommitStepLemma ==
  ASSUME ProtocolInv, [ProtocolNext]_gud
  PROVE  CommitStep
<1>1. gud \in ProtocolState
  BY DEF ProtocolInv, WellFormed
<1>2. CASE SetStateCommit
  <2>1. gud'.committed_state = gud.pending_state
    BY <1>1, <1>2 DEF SetStateCommit, commit_pending_state, mark_success,
                      ProtocolState
  <2>2. /\ gud.pending_state.generation \in Nat
        /\ gud.committed_state # NoState =>
             /\ gud.committed_state.generation \in Nat
             /\ gud.committed_state.generation < gud.pending_state.generation
    BY <1>2 DEF SetStateCommit, ProtocolInv, WellFormed, ProtocolState,
                DisplayStateSnapshot
  <2> QED BY <2>1, <2>2 DEF CommitStep
<1>3. CASE GetStatus \/ UNCHANGED gud
  BY <1>3 DEF GetStatus, CommitStep
<1>4. CASE GetInformation \/ UnsupportedRequest \/ SetEnableMalformed
           \/ SetBufferInvalid \/ SetStateCommitRejected
  BY <1>1, <1>4, KeepsCommitted
     DEF GetInformation, UnsupportedRequest, SetEnableMalformed,
         SetBufferInvalid, SetStateCommitRejected, reject_state_commit,
         CommitStep
<1>5. CASE GetConnectorStatus
  <2> DEFINE h == [gud EXCEPT !.connector_changed = FALSE]
  <2>1. h \in ProtocolState /\ h.committed_state = gud.committed_state
    BY <1>1 DEF ProtocolState
  <2> QED BY <1>5, <2>1, KeepsCommitted DEF GetConnectorStatus, CommitStep
<1>6. ASSUME NEW m \in Modes, SetStateCheck(m) PROVE CommitStep
  <2>1. WellFormed(store_pending_state(gud, m))
    BY StatePreserves DEF ProtocolInv
  <2>2. store_pending_state(gud, m) \in ProtocolState
    BY <2>1 DEF WellFormed
  <2> QED BY <1>1, <1>6, <2>2, KeepsCommitted DEF SetStateCheck, CommitStep
<1>7. CASE SetStateCheckRejected
  <2>1. clear_pending_state(gud) \in ProtocolState
    BY <1>1 DEF clear_pending_state, ProtocolState
  <2> QED BY <1>1, <1>7, <2>1, KeepsCommitted
          DEF SetStateCheckRejected, reject_state_check, CommitStep
<1>8. ASSUME NEW b \in BOOLEAN, SetControllerEnable(b) PROVE CommitStep
  <2>1. update_controller_enabled(gud, b) \in ProtocolState
    BY <1>1 DEF update_controller_enabled, ProtocolState
  <2> QED BY <1>1, <1>8, <2>1, KeepsCommitted
          DEF SetControllerEnable, CommitStep
<1>9. ASSUME NEW b \in BOOLEAN, SetDisplayEnable(b) PROVE CommitStep
  <2> DEFINE h == [gud EXCEPT !.display_enabled = b]
  <2>1. h \in ProtocolState /\ h.committed_state = gud.committed_state
    BY <1>1 DEF ProtocolState
  <2>2. /\ mark_success(h).committed_state = gud.committed_state
        /\ latch_status(gud, "INVALID_PARAMETER").committed_state
             = gud.committed_state
    <3> HIDE DEF h
    <3> QED BY <1>1, <2>1, KeepsCommitted
  <2>3. gud'.committed_state = gud.committed_state
    BY <1>9, <2>2 DEF SetDisplayEnable
  <2> QED BY <2>3 DEF CommitStep
<1>10. ASSUME NEW e \in LifecycleEvents, Lifecycle(e) PROVE CommitStep
  BY <1>1, <1>10, KeepsCommitted DEF Lifecycle, CommitStep
<1> QED BY <1>2, <1>3, <1>4, <1>5, <1>6, <1>7, <1>8, <1>9, <1>10
        DEF ProtocolNext

\* For every set of modes: a commit installs exactly the pending check, and
\* never one older than what it replaces.
THEOREM CommitsForward == ProtocolSpec => CommitMovesForward
<1>1. ProtocolInv /\ [ProtocolNext]_gud => [CommitStep]_gud
  BY CommitStepLemma
<1> QED BY <1>1, ProtocolInitial, ProtocolStep, PTL
        DEF ProtocolSpec, CommitMovesForward, CommitStep
=============================================================================
