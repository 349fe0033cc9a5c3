------------------------ MODULE TloOwnership_proofs ------------------------
(***************************************************************************)
(* The atomic fence keeps its promises for any hosts, requests, TTL and    *)
(* bounds.  Each guard of the code excludes a turn or a handoff itself, so *)
(* the parts of Sound need only the type of the record to be inductive     *)
(* (the target of a handoff becomes the owner); they are carried together. *)
(***************************************************************************)
EXTENDS TloOwnership, TloFence_proofs

IInv ==
    /\ Sound(fence)
    /\ clock \in Nat
    /\ receipts \subseteq Requests

LEMMA InitIInv == Init => IInv
BY EmptySound DEF Init, IInv

\* One case per action; all but the last three change the fence alone.
LEMMA StepIInv == IInv /\ [Next]_vars => IInv'
<1> SUFFICES ASSUME IInv, [Next]_vars PROVE IInv'
    OBVIOUS
<1> USE DEF IInv
<1> DEFINE Generations == 1 .. MaxSafeGeneration
<1>1. ASSUME NEW w \in Browsers, ClaimInitialBrowser(w) PROVE IInv'
    BY <1>1, ClaimSound DEF ClaimInitialBrowser
<1>2. ASSUME NEW h \in Hosts, NEW g \in Generations, NEW to \in Hosts,
             PrepareHandoff(h, g, to)
      PROVE IInv'
    BY <1>2, PrepareSound DEF PrepareHandoff
<1>3. ASSUME NEW to \in Hosts, AcknowledgeHandoff(to) PROVE IInv'
    BY <1>3, AcknowledgeSound DEF AcknowledgeHandoff
<1>4. ASSUME NEW h \in Hosts, NEW g \in Generations, CompleteHandoff(h, g)
      PROVE IInv'
    BY <1>4, CompleteSound DEF CompleteHandoff
<1>5. ASSUME NEW h \in Hosts, NEW g \in Generations, CancelPreparedHandoff(h, g)
      PROVE IInv'
    BY <1>5, CancelSound DEF CancelPreparedHandoff
<1>6. ASSUME NEW h \in Hosts, NEW g \in Generations, NEW r \in Requests,
             ReserveTurn(h, g, r)
      PROVE IInv'
    BY <1>6, ReserveSound DEF ReserveTurn
<1>7. ASSUME NEW h \in Hosts, NEW g \in Generations, NEW r \in Requests,
             MarkDispatched(h, g, r)
      PROVE IInv'
    BY <1>7, PhaseSound DEF MarkDispatched, CanMarkDispatched, TurnIn, Phases
<1>8. ASSUME NEW r \in Requests, MarkUncertain(r) PROVE IInv'
    BY <1>8, PhaseSound DEF MarkUncertain, CanMarkUncertain, TurnIn, Phases
<1>9. ASSUME FenceRestart PROVE IInv'
    BY <1>9, PhaseSound DEF FenceRestart, Phases
<1>10. ASSUME NEW h \in Hosts, NEW g \in Generations, NEW r \in Requests,
              \/ SettleWithReceipt(h, g, r)
              \/ ReconcileUncertainWithReceipt(h, g, r)
       PROVE IInv'
    BY <1>10, SettleSound DEF SettleWithReceipt, ReconcileUncertainWithReceipt
<1>11. ASSUME NEW r \in Requests, ConfirmReceipt(r) PROVE IInv'
    BY <1>11 DEF ConfirmReceipt
<1>12. ASSUME Tick PROVE IInv'
    BY <1>12 DEF Tick
<1>13. ASSUME UNCHANGED vars PROVE IInv'
    BY <1>13 DEF vars
<1> QED
    BY <1>1, <1>2, <1>3, <1>4, <1>5, <1>6, <1>7, <1>8, <1>9, <1>10, <1>11,
       <1>12, <1>13
       DEF Next, Owning

LEMMA AlwaysIInv == Spec => []IInv
BY InitIInv, StepIInv, PTL DEF Spec

\* The record, the clock and the receipts keep their types.
THEOREM TypeCorrect == Spec => []TypeOK
<1>1. IInv => TypeOK
    BY DEF IInv, TypeOK, Sound
<1> QED
    BY <1>1, AlwaysIInv, PTL

\* However claims, handoffs, turns, receipts and restarts interleave, an
\* unresolved turn belongs to the current generation and excludes a handoff.
THEOREM TurnAlwaysPinsOwnership == Spec => []TurnPinsOwnership
<1>1. IInv => TurnPinsOwnership
    BY DEF IInv, TurnPinsOwnership, Sound
<1> QED
    BY <1>1, AlwaysIInv, PTL

\* Every handoff in the record comes from the present owner and generation
\* and goes to a host of the other kind.
THEOREM HandoffAlwaysFromOwner == Spec => []HandoffFromOwner
<1>1. IInv => HandoffFromOwner
    BY DEF IInv, HandoffFromOwner, Sound
<1> QED
    BY <1>1, AlwaysIInv, PTL

\* Ownership moves only to the host that acknowledged, one generation up, and
\* never under an unresolved turn.
THEOREM OwnershipMovesByHandoff == Spec => OwnershipMoves
<1> DEFINE Move ==
        fence'.owner # fence.owner \/ fence'.generation # fence.generation =>
          /\ fence'.generation = fence.generation + 1
          /\ fence.turn = Null
          /\ \/ fence.owner = Null /\ fence'.owner \in Browsers
             \/ /\ fence.handoff # Null
                /\ fence.handoff.status = "acknowledged"
                /\ fence'.owner = fence.handoff.to
<1>1. ASSUME IInv, [Next]_vars PROVE [Move]_vars
    <2> USE <1>1 DEF IInv
    <2>0. fence \in Records
        BY DEF Sound
    <2>1. ASSUME NEW w \in Browsers, ClaimInitialBrowser(w) PROVE Move
        BY <2>1 DEF ClaimInitialBrowser, CanClaimInitialBrowser, Claimed
    <2>2. ASSUME NEW h \in Hosts, NEW g \in 1 .. MaxSafeGeneration,
                 CompleteHandoff(h, g)
          PROVE Move
        BY <2>2 DEF CompleteHandoff, CanCompleteHandoff, Completed
    <2>3. ASSUME NEW h \in Hosts, NEW g \in 1 .. MaxSafeGeneration,
                 \/ \E to \in Hosts : PrepareHandoff(h, g, to)
                 \/ CancelPreparedHandoff(h, g)
                 \/ \E r \in Requests :
                       \/ ReserveTurn(h, g, r)
                       \/ MarkDispatched(h, g, r)
                       \/ SettleWithReceipt(h, g, r)
                       \/ ReconcileUncertainWithReceipt(h, g, r)
          PROVE UNCHANGED <<fence.owner, fence.generation>>
        BY <2>0, <2>3, SMTT(30)
           DEF PrepareHandoff, CancelPreparedHandoff, ReserveTurn, MarkDispatched,
               SettleWithReceipt, ReconcileUncertainWithReceipt, Prepared,
               Cancelled, Reserved, InPhase, Settled, Records
    <2>4. ASSUME \/ \E to \in Hosts : AcknowledgeHandoff(to)
                 \/ \E r \in Requests : MarkUncertain(r) \/ ConfirmReceipt(r)
                 \/ FenceRestart \/ Tick
          PROVE UNCHANGED <<fence.owner, fence.generation>>
        BY <2>0, <2>4, SMTT(30)
           DEF AcknowledgeHandoff, MarkUncertain, ConfirmReceipt, FenceRestart,
               Tick, Acknowledged, InPhase, Records
    <2> QED
        BY <2>1, <2>2, <2>3, <2>4 DEF Next, Owning
<1> QED
    BY <1>1, AlwaysIInv, PTL DEF Spec, OwnershipMoves

\* An admitted turn leaves the record only against a confirmed receipt, and
\* nothing turns an unknown turn back into a running one.
THEOREM TurnsEndOnlyByReceipt == Spec => TurnsEndByReceipt
<1> DEFINE End ==
        fence.turn # Null /\ fence'.turn # fence.turn =>
          IF fence'.turn = Null
          THEN fence.turn.requestId \in receipts /\ fence.turn.phase # "admitted"
          ELSE /\ fence'.turn.requestId = fence.turn.requestId
               /\ fence.turn.phase # "unknown"
<1>1. ASSUME IInv, [Next]_vars PROVE [End]_vars
    <2> USE <1>1 DEF IInv
    <2>0. fence \in Records
        BY DEF Sound
    <2>1. ASSUME NEW w \in Browsers, ClaimInitialBrowser(w) PROVE End
        BY <2>1 DEF ClaimInitialBrowser, CanClaimInitialBrowser
    <2>2. ASSUME NEW h \in Hosts, NEW g \in 1 .. MaxSafeGeneration, Owning(h, g)
          PROVE End
        <3>1. CASE \/ \E to \in Hosts : PrepareHandoff(h, g, to)
                   \/ CompleteHandoff(h, g)
                   \/ \E r \in Requests : ReserveTurn(h, g, r)
            BY <3>1
               DEF PrepareHandoff, CompleteHandoff, ReserveTurn, CanPrepareHandoff,
                   CanCompleteHandoff, CanReserveTurn
        <3>2. CASE CancelPreparedHandoff(h, g)
            BY <2>0, <3>2 DEF CancelPreparedHandoff, Cancelled, Records
        <3>3. CASE \E r \in Requests : MarkDispatched(h, g, r)
            BY <3>3, PhaseSound
               DEF MarkDispatched, CanMarkDispatched, TurnIn, Phases
        <3>4. CASE \E r \in Requests : \/ SettleWithReceipt(h, g, r)
                                       \/ ReconcileUncertainWithReceipt(h, g, r)
            BY <3>4, SettleSound
               DEF SettleWithReceipt, ReconcileUncertainWithReceipt, CanSettle,
                   CanReconcile, TurnIn
        <3> QED
            BY <2>2, <3>1, <3>2, <3>3, <3>4 DEF Owning
    <2>3. ASSUME NEW to \in Hosts, AcknowledgeHandoff(to) PROVE End
        BY <2>3 DEF AcknowledgeHandoff, CanAcknowledgeHandoff
    <2>4. ASSUME NEW r \in Requests, MarkUncertain(r) PROVE End
        BY <2>4, PhaseSound DEF MarkUncertain, CanMarkUncertain, TurnIn, Phases
    <2>5. ASSUME FenceRestart PROVE End
        <3>1. CASE fence.turn.phase = "unknown"
            <4>1. [fence.turn EXCEPT !.phase = "unknown"] = fence.turn
                BY <2>0, <2>5, <3>1 DEF FenceRestart, Records, Turns
            <4> QED
                BY <2>0, <2>5, <4>1 DEF FenceRestart, InPhase, Records
        <3>2. CASE fence.turn.phase # "unknown"
            BY <2>5, <3>2, PhaseSound DEF FenceRestart, Phases
        <3> QED
            BY <3>1, <3>2
    <2>6. ASSUME UNCHANGED fence PROVE End
        BY <2>6
    <2> QED
        BY <2>1, <2>2, <2>3, <2>4, <2>5, <2>6
           DEF Next, ConfirmReceipt, Tick
<1> QED
    BY <1>1, AlwaysIInv, PTL DEF Spec, TurnsEndByReceipt
=============================================================================
