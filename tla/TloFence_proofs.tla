-------------------------- MODULE TloFence_proofs --------------------------
(***************************************************************************)
(* Each fence method maps a sound record to a sound record.  These lemmas  *)
(* are about constants only; the machines that apply the methods, one      *)
(* atomically and one through a file, both rest on them.                   *)
(***************************************************************************)
EXTENDS TloFence, TLAPS

\* null is none of the values a field can hold besides it.
LEMMA NullIsNoValue == Null \notin Hosts /\ Null \notin Handoffs /\ Null \notin Turns
BY NullAssumption

\* The parts of a typed record, the form in which the lemmas use them.
LEMMA RecordParts ==
    ASSUME NEW s \in Records
    PROVE  /\ s = [generation |-> s.generation, owner |-> s.owner,
                   handoff |-> s.handoff, turn |-> s.turn]
           /\ s.generation \in Nat
           /\ s.owner \in Hosts \cup {Null}
           /\ s.handoff \in Handoffs \cup {Null}
           /\ s.turn \in Turns \cup {Null}
BY DEF Records

\* Records built from typed parts, whatever the parts are.
LEMMA RecordTyped ==
    ASSUME NEW generation \in Nat, NEW owner \in Hosts \cup {Null},
           NEW handoff \in Handoffs \cup {Null}, NEW turn \in Turns \cup {Null}
    PROVE  [generation |-> generation, owner |-> owner, handoff |-> handoff,
            turn |-> turn] \in Records
BY DEF Records

\* The record of a scope nobody has written.
LEMMA EmptySound == Sound(Empty)
BY DEF Sound, Empty, Records, TurnPinned, HandoffOwned

\* Claiming a fresh scope.
LEMMA ClaimSound ==
    ASSUME NEW s, Sound(s), NEW w \in Browsers, CanClaimInitialBrowser(s)
    PROVE  Sound(Claimed(s, w))
BY DEF Sound, TurnPinned, HandoffOwned, Records, Hosts, Claimed,
       CanClaimInitialBrowser

\* Preparing a handoff.
LEMMA PrepareSound ==
    ASSUME NEW s, Sound(s), NEW from \in Hosts, NEW g \in Nat, NEW to \in Hosts,
           NEW t \in Nat, CanPrepareHandoff(s, from, g, to)
    PROVE  Sound(Prepared(s, to, t))
<1> DEFINE h == [status |-> "prepared", from |-> s.owner,
                 generation |-> s.generation, to |-> to, at |-> t]
<1>1. /\ Prepared(s, to, t) = [generation |-> s.generation, owner |-> s.owner,
                               handoff |-> h, turn |-> Null]
      /\ s.owner = from /\ s.generation \in Nat
    BY DEF Sound, Records, Prepared, CanPrepareHandoff, IsOwner
<1>2. h \in Handoffs
    BY <1>1 DEF Handoffs
<1>3. Prepared(s, to, t) \in Records
    BY <1>1, <1>2 DEF Records
<1> QED
    BY <1>1, <1>3
       DEF Sound, TurnPinned, HandoffOwned, IsOwner, CanPrepareHandoff

\* Acknowledging a handoff.
LEMMA AcknowledgeSound ==
    ASSUME NEW s, Sound(s), NEW to, NEW t, CanAcknowledgeHandoff(s, to, t)
    PROVE  Sound(Acknowledged(s))
<1>1. s \in Records /\ s.handoff # Null /\ s.turn = Null
    BY DEF Sound, CanAcknowledgeHandoff
<1>2. s.handoff \in Handoffs
    BY <1>1, RecordParts
<1> DEFINE h == [s.handoff EXCEPT !.status = "acknowledged"]
<1>3. /\ h \in Handoffs
      /\ h.from = s.handoff.from /\ h.to = s.handoff.to
      /\ h.generation = s.handoff.generation
    BY <1>2 DEF Handoffs
<1> HIDE DEF h
<1>4. Acknowledged(s) = [generation |-> s.generation, owner |-> s.owner,
                         handoff |-> h, turn |-> s.turn]
    <2>1. Acknowledged(s) = [s EXCEPT !.handoff = h]
        BY <1>1 DEF Acknowledged, Records, h
    <2> QED
        BY <1>1, <2>1, RecordParts
<1>5. Acknowledged(s) \in Records
    BY <1>1, <1>3, <1>4, RecordParts, RecordTyped
<1> QED
    BY <1>1, <1>3, <1>4, <1>5 DEF Sound, TurnPinned, HandoffOwned, IsOwner

\* Completing a handoff: the new owner is a host because the target was.
LEMMA CompleteSound ==
    ASSUME NEW s, Sound(s), NEW from, NEW g, CanCompleteHandoff(s, from, g)
    PROVE  Sound(Completed(s))
<1>1. s \in Records /\ s.handoff # Null /\ s.turn = Null
    BY DEF Sound, CanCompleteHandoff
<1>2. s.handoff.to \in Hosts /\ s.generation \in Nat
    BY <1>1, RecordParts, NullIsNoValue DEF Handoffs
<1>3. Completed(s) \in Records
    BY <1>1, <1>2, RecordTyped DEF Completed
<1> QED
    BY <1>1, <1>3 DEF Sound, TurnPinned, HandoffOwned, Completed

\* Dropping a prepared handoff.
LEMMA CancelSound ==
    ASSUME NEW s, Sound(s), NEW from, NEW g, CanCancelPreparedHandoff(s, from, g)
    PROVE  Sound(Cancelled(s))
<1>1. s \in Records
    BY DEF Sound
<1>2. Cancelled(s) = [generation |-> s.generation, owner |-> s.owner,
                      handoff |-> Null, turn |-> s.turn]
    BY <1>1 DEF Records, Cancelled
<1> QED
    BY <1>1, <1>2, RecordParts DEF Sound, TurnPinned, HandoffOwned, Records

\* Reserving a turn.
LEMMA ReserveSound ==
    ASSUME NEW s, Sound(s), NEW h \in Hosts, NEW g \in Nat, NEW r \in Requests,
           CanReserveTurn(s, h, g)
    PROVE  Sound(Reserved(s, r))
<1> DEFINE turn == [requestId |-> r, ownerGeneration |-> s.generation,
                    phase |-> "admitted"]
<1>1. /\ Reserved(s, r) = [generation |-> s.generation, owner |-> s.owner,
                           handoff |-> Null, turn |-> turn]
      /\ s.owner = h /\ s.generation \in Nat
    BY DEF Sound, Records, Reserved, CanReserveTurn, IsOwner
<1>2. turn \in Turns
    BY <1>1 DEF Turns, Phases
<1>3. Reserved(s, r) \in Records
    BY <1>1, <1>2 DEF Records
<1>4. turn.ownerGeneration = s.generation /\ h # Null
    BY NullIsNoValue
<1> HIDE DEF turn
<1> QED
    BY <1>1, <1>3, <1>4 DEF Sound, TurnPinned, HandoffOwned

\* Moving an unresolved turn to another phase.
LEMMA PhaseSound ==
    ASSUME NEW s, Sound(s), s.turn # Null, NEW phase \in Phases
    PROVE  /\ Sound(InPhase(s, phase))
           /\ InPhase(s, phase).owner = s.owner
           /\ InPhase(s, phase).generation = s.generation
           /\ InPhase(s, phase).turn # Null
           /\ InPhase(s, phase).turn.requestId = s.turn.requestId
           /\ InPhase(s, phase).turn.phase = phase
<1>2. s \in Records
    BY DEF Sound
<1>3. s.turn \in Turns
    BY <1>2, RecordParts
<1> DEFINE turn == [s.turn EXCEPT !.phase = phase]
<1>4. /\ turn \in Turns
      /\ turn.requestId = s.turn.requestId
      /\ turn.phase = phase
      /\ turn.ownerGeneration = s.turn.ownerGeneration
    BY <1>3 DEF Turns
<1> HIDE DEF turn
<1>5. InPhase(s, phase) = [generation |-> s.generation, owner |-> s.owner,
                           handoff |-> s.handoff, turn |-> turn]
    <2>1. InPhase(s, phase) = [s EXCEPT !.turn = turn]
        BY <1>2 DEF InPhase, Records, turn
    <2> QED
        BY <1>2, <2>1, RecordParts
<1>6. InPhase(s, phase) \in Records
    BY <1>2, <1>4, <1>5, RecordParts, RecordTyped
<1>7. Sound(InPhase(s, phase))
    BY <1>4, <1>5, <1>6 DEF Sound, TurnPinned, HandoffOwned, IsOwner
<1> QED
    BY <1>4, <1>5, <1>7, NullIsNoValue

\* Settling a turn.
LEMMA SettleSound ==
    ASSUME NEW s, Sound(s)
    PROVE  Sound(Settled(s)) /\ Settled(s).turn = Null
<1>1. s \in Records
    BY DEF Sound
<1>2. Settled(s) = [generation |-> s.generation, owner |-> s.owner,
                    handoff |-> s.handoff, turn |-> Null]
    BY <1>1 DEF Records, Settled
<1> QED
    BY <1>1, <1>2, RecordParts DEF Sound, TurnPinned, HandoffOwned, IsOwner, Records
=============================================================================
