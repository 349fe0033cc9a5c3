---------------------------- MODULE TloOwnership ----------------------------
(***************************************************************************)
(* What the TLO ownership fence promises: one record, changed atomically   *)
(* by the methods of dex/tlo-ownership-fence.js.  TloOwnershipStore is the *)
(* implementation, where each method reads a file, decides, and commits    *)
(* with a compare-and-swap.  A method may therefore carry a timestamp from *)
(* a little before it takes effect, which is the \E t below.               *)
(***************************************************************************)
EXTENDS TloFence

CONSTANT MaxClock   \* bound: the clock stops here

ASSUME ClockAssumption == MaxClock \in Nat

VARIABLES
    fence,      \* the ownership record of the scope
    clock,      \* Date.now()
    receipts    \* requests with a confirmed final receipt in the Dex ledger

vars == <<fence, clock, receipts>>

Init ==
    /\ fence = Empty
    /\ clock = 0
    /\ receipts = {}

-----------------------------------------------------------------------------
ClaimInitialBrowser(w) ==
    /\ CanClaimInitialBrowser(fence)
    /\ fence' = Claimed(fence, w)
    /\ UNCHANGED <<clock, receipts>>

PrepareHandoff(from, g, to) ==
    /\ CanPrepareHandoff(fence, from, g, to)
    /\ \E t \in 0 .. clock : fence' = Prepared(fence, to, t)
    /\ UNCHANGED <<clock, receipts>>

AcknowledgeHandoff(to) ==
    /\ \E t \in 0 .. clock : CanAcknowledgeHandoff(fence, to, t)
    /\ fence' = Acknowledged(fence)
    /\ UNCHANGED <<clock, receipts>>

CompleteHandoff(from, g) ==
    /\ CanCompleteHandoff(fence, from, g)
    /\ fence' = Completed(fence)
    /\ UNCHANGED <<clock, receipts>>

CancelPreparedHandoff(from, g) ==
    /\ CanCancelPreparedHandoff(fence, from, g)
    /\ fence' = Cancelled(fence)
    /\ UNCHANGED <<clock, receipts>>

ReserveTurn(h, g, r) ==
    /\ CanReserveTurn(fence, h, g)
    /\ fence' = Reserved(fence, r)
    /\ UNCHANGED <<clock, receipts>>

MarkDispatched(h, g, r) ==
    /\ CanMarkDispatched(fence, h, g, r)
    /\ fence' = InPhase(fence, "dispatched")
    /\ UNCHANGED <<clock, receipts>>

MarkUncertain(r) ==
    /\ CanMarkUncertain(fence, r)
    /\ fence' = InPhase(fence, "unknown")
    /\ UNCHANGED <<clock, receipts>>

SettleWithReceipt(h, g, r) ==
    /\ CanSettle(fence, h, g, r, receipts)
    /\ fence' = Settled(fence)
    /\ UNCHANGED <<clock, receipts>>

ReconcileUncertainWithReceipt(h, g, r) ==
    /\ CanReconcile(fence, h, g, r, receipts)
    /\ fence' = Settled(fence)
    /\ UNCHANGED <<clock, receipts>>

FenceRestart ==
    /\ fence.turn # Null
    /\ fence' = InPhase(fence, "unknown")
    /\ UNCHANGED <<clock, receipts>>

\* The Dex scheduler confirms a final receipt; where it comes from is not the
\* fence's business.
ConfirmReceipt(r) ==
    /\ receipts' = receipts \cup {r}
    /\ UNCHANGED <<fence, clock>>

Tick ==
    /\ clock < MaxClock
    /\ clock' = clock + 1
    /\ UNCHANGED <<fence, receipts>>

Owning(h, g) ==
    \/ \E to \in Hosts : PrepareHandoff(h, g, to)
    \/ CompleteHandoff(h, g)
    \/ CancelPreparedHandoff(h, g)
    \/ \E r \in Requests :
          \/ ReserveTurn(h, g, r)
          \/ MarkDispatched(h, g, r)
          \/ SettleWithReceipt(h, g, r)
          \/ ReconcileUncertainWithReceipt(h, g, r)

Next ==
    \/ \E w \in Browsers : ClaimInitialBrowser(w)
    \/ \E h \in Hosts, g \in 1 .. MaxSafeGeneration : Owning(h, g)
    \/ \E to \in Hosts : AcknowledgeHandoff(to)
    \/ \E r \in Requests : MarkUncertain(r) \/ ConfirmReceipt(r)
    \/ FenceRestart
    \/ Tick

Spec == Init /\ [][Next]_vars

-----------------------------------------------------------------------------
TypeOK ==
    /\ fence \in Records
    /\ clock \in Nat
    /\ receipts \subseteq Requests

\* An unresolved turn belongs to the current generation of a claimed scope and
\* excludes a handoff, whatever order reservations, handoffs, restarts and
\* receipts came in.
TurnPinsOwnership == TurnPinned(fence)

\* A handoff in the record comes from the present owner and generation and
\* goes to a host of the other kind.
HandoffFromOwner == HandoffOwned(fence)

\* Ownership moves only to the host that acknowledged, one generation up, and
\* never while a turn is unresolved.  (The first claim has no predecessor.)
OwnershipMoves ==
    [][fence'.owner # fence.owner \/ fence'.generation # fence.generation =>
          /\ fence'.generation = fence.generation + 1
          /\ fence.turn = Null
          /\ \/ fence.owner = Null /\ fence'.owner \in Browsers
             \/ /\ fence.handoff # Null
                /\ fence.handoff.status = "acknowledged"
                /\ fence'.owner = fence.handoff.to]_vars

\* An admitted turn leaves the record only against a confirmed final receipt,
\* and a turn once unknown is never shown as running again.
TurnsEndByReceipt ==
    [][fence.turn # Null /\ fence'.turn # fence.turn =>
          IF fence'.turn = Null
          THEN fence.turn.requestId \in receipts /\ fence.turn.phase # "admitted"
          ELSE /\ fence'.turn.requestId = fence.turn.requestId
               /\ fence.turn.phase # "unknown"]_vars
=============================================================================
