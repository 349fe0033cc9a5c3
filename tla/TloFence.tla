------------------------------ MODULE TloFence ------------------------------
(***************************************************************************)
(* The ownership record of one TLO scope and the methods of                *)
(* dex/tlo-ownership-fence.js as pure functions of it.  A method is a      *)
(* guard (the checks that otherwise throw, so change nothing) and a result *)
(* (the record its transform returns).                                     *)
(*                                                                         *)
(* Abstracted: the random handoff id and its one-use secret (a caller that *)
(* does not present those of the handoff in the record fails and changes   *)
(* nothing), the digests, toGeneration and expiresAt (functions of fields  *)
(* kept here), acknowledgedBy (the target) and acknowledgedAt (read by     *)
(* nobody), and the syntactic validation of names.                         *)
(***************************************************************************)
EXTENDS Integers

CONSTANTS
    Browsers,           \* browser workspaces that can own TLO
    Backends,           \* backend sessions that can own TLO
    Requests,           \* Dex request ids
    Null,               \* JavaScript's null
    HandoffTtl,         \* HANDOFF_TTL_MS, in clock units
    MaxSafeGeneration   \* Number.MAX_SAFE_INTEGER

Hosts == Browsers \cup Backends

ASSUME HostAssumption == Browsers \cap Backends = {}
ASSUME TtlAssumption == HandoffTtl \in Nat
ASSUME GenerationAssumption == MaxSafeGeneration \in Nat

SameKind(h, k) == (h \in Browsers) = (k \in Browsers)

Phases == {"admitted", "dispatched", "unknown"}

Handoffs ==
    [status : {"prepared", "acknowledged"}, from : Hosts, generation : Nat,
     to : Hosts, at : Nat]

Turns == [requestId : Requests, ownerGeneration : Nat, phase : Phases]

ASSUME NullAssumption == Null \notin Hosts \cup Handoffs \cup Turns

Records ==
    [generation : Nat, owner : Hosts \cup {Null},
     handoff : Handoffs \cup {Null}, turn : Turns \cup {Null}]

\* The state of a scope nobody has written yet.
Empty == [generation |-> 0, owner |-> Null, handoff |-> Null, turn |-> Null]

IsOwner(s, h, g) == s.owner = h /\ s.generation = g

\* An unresolved turn pins ownership: it belongs to the current generation of
\* a claimed scope and no handoff is under way.
TurnPinned(s) ==
    s.turn # Null =>
        /\ s.owner # Null
        /\ s.handoff = Null
        /\ s.turn.ownerGeneration = s.generation

\* A handoff was prepared by the present owner in the present generation for a
\* host of the other kind.
HandoffOwned(s) ==
    s.handoff # Null =>
        /\ IsOwner(s, s.handoff.from, s.handoff.generation)
        /\ ~SameKind(s.handoff.from, s.handoff.to)

Sound(s) == s \in Records /\ TurnPinned(s) /\ HandoffOwned(s)

-----------------------------------------------------------------------------
CanClaimInitialBrowser(s) ==
    s.owner = Null /\ s.handoff = Null /\ s.turn = Null /\ s.generation = 0

Claimed(s, w) ==
    [generation |-> 1, owner |-> w, handoff |-> s.handoff, turn |-> s.turn]

CanPrepareHandoff(s, from, g, to) ==
    /\ ~SameKind(from, to)
    /\ IsOwner(s, from, g)
    /\ s.turn = Null
    /\ s.handoff = Null

Prepared(s, to, now) ==
    [s EXCEPT !.handoff =
        [status |-> "prepared", from |-> s.owner, generation |-> s.generation,
         to |-> to, at |-> now]]

CanAcknowledgeHandoff(s, to, now) ==
    /\ s.handoff # Null
    /\ s.handoff.status = "prepared"
    /\ s.turn = Null
    /\ now <= s.handoff.at + HandoffTtl
    /\ s.handoff.to = to

Acknowledged(s) == [s EXCEPT !.handoff.status = "acknowledged"]

\* Mutant of CanCompleteHandoff: forgets that the target must acknowledge.
CanCompleteUnacknowledged(s, from, g) ==
    /\ IsOwner(s, from, g)
    /\ s.handoff # Null
    /\ s.turn = Null
    /\ s.generation + 1 <= MaxSafeGeneration

CanCompleteHandoff(s, from, g) ==
    /\ IsOwner(s, from, g)
    /\ s.handoff # Null
    /\ s.handoff.status = "acknowledged"
    /\ s.turn = Null
    /\ s.generation + 1 <= MaxSafeGeneration

\* Mutant of Completed: leaves the completed handoff in the record.
CompletedKeepingHandoff(s) ==
    [generation |-> s.generation + 1, owner |-> s.handoff.to,
     handoff |-> s.handoff, turn |-> s.turn]

Completed(s) ==
    [generation |-> s.generation + 1, owner |-> s.handoff.to,
     handoff |-> Null, turn |-> s.turn]

CanCancelPreparedHandoff(s, from, g) ==
    /\ IsOwner(s, from, g)
    /\ s.handoff # Null
    /\ s.handoff.status = "prepared"

Cancelled(s) == [s EXCEPT !.handoff = Null]

\* Mutant of CanReserveTurn: checks for a turn only.
CanReserveDuringHandoff(s, h, g) == IsOwner(s, h, g) /\ s.turn = Null

CanReserveTurn(s, h, g) == IsOwner(s, h, g) /\ s.handoff = Null /\ s.turn = Null

\* Mutant of Reserved: a phase the record's validation does not know.
ReservedAsActive(s, r) ==
    [s EXCEPT !.turn = [requestId |-> r, ownerGeneration |-> s.generation,
                        phase |-> "active"]]

Reserved(s, r) ==
    [s EXCEPT !.turn = [requestId |-> r, ownerGeneration |-> s.generation,
                        phase |-> "admitted"]]

TurnIn(s, r, phases) ==
    s.turn # Null /\ s.turn.requestId = r /\ s.turn.phase \in phases

CanMarkDispatched(s, h, g, r) == IsOwner(s, h, g) /\ TurnIn(s, r, {"admitted"})

CanMarkUncertain(s, r) == TurnIn(s, r, {"admitted", "dispatched"})

InPhase(s, phase) == [s EXCEPT !.turn.phase = phase]

\* Mutant of CanSettle: takes any caller's word for the receipt.
CanSettleUnconfirmed(s, h, g, r, receipts) ==
    /\ IsOwner(s, h, g)
    /\ TurnIn(s, r, {"dispatched"})
    /\ s.turn.ownerGeneration = g

\* `receipts` is the set of requests whose final receipt the Dex ledger and
\* room state confirm.
CanSettle(s, h, g, r, receipts) ==
    /\ IsOwner(s, h, g)
    /\ TurnIn(s, r, {"dispatched"})
    /\ s.turn.ownerGeneration = g
    /\ r \in receipts

CanReconcile(s, h, g, r, receipts) ==
    /\ IsOwner(s, h, g)
    /\ TurnIn(s, r, {"unknown"})
    /\ s.turn.ownerGeneration = g
    /\ r \in receipts

Settled(s) == [s EXCEPT !.turn = Null]

\* The early return of fenceRestart: nothing to do.
NeedsFence(s) == s.turn # Null /\ s.turn.phase # "unknown"
=============================================================================
