------------------------ MODULE DexScheduler_proofs ------------------------
(***************************************************************************)
(* What the relay runtime keeps for any rooms, members and bounds, and     *)
(* whether or not a Stop or a disconnect may hit an open await: the types, *)
(* that one turn runs at a time, and the budget of the relays.             *)
(***************************************************************************)
EXTENDS DexScheduler, FiniteSetTheorems, TLAPS

-----------------------------------------------------------------------------
(* The types, messages included.                                           *)

Commands ==
    [type : {"select"}, request : Requests \cup {Null}, tab : Tabs]
    \cup [type : {"prompt"}, request : Requests]
    \cup [type : {"capture"}, request : Requests, tab : Tabs]

Errors == [type : {"error"}, request : Requests, kind : {"retry", "recover", "stop"}]

Events ==
    [type : {"selected"}, request : Requests \cup {Null}, tab : Tabs]
    \cup [type : {"captured"}, request : Requests, tab : Tabs \cup {Null}, found : BOOLEAN]
    \cup Errors

LocalEvents == Errors \cup [type : {"final"}, request : Requests]

Named == [room : Rooms, member : Members, turn : Nat]

Gate == [request : Requests, target : Members, via : {"process", "event", "direct"}]

RoomsTyped ==
    /\ relay \in [Rooms -> [active : BOOLEAN, remaining : Nat]]
    /\ pending \in [Rooms -> Bounded(Turn)]
    /\ journal \in [Rooms -> Bounded(Journal)]
    /\ current \in Bounded(Current)
    /\ turns \in Nat

MemoryTyped ==
    /\ restoreTo \in [Rooms -> Bounded(Tabs)]
    /\ watches \in [Rooms -> SUBSET Requests]
    /\ receipts \in [Rooms -> SUBSET Requests]
    /\ ledger \subseteq Requests
    /\ worker \in Bounded([room : Rooms, request : Requests])
    /\ gates \in Seq(Gate)
    /\ locates \subseteq [request : Requests, target : Members]
    /\ view \in Bounded(Tabs)

WiresTyped ==
    /\ extTab \in Tabs
    /\ toExt \subseteq Commands /\ fromExt \subseteq Events
    /\ toLocal \subseteq [request : Requests, target : Members, received : BOOLEAN]
    /\ fromLocal \subseteq LocalEvents
    /\ outbox \subseteq Requests /\ answered \subseteq Requests
    /\ delivered \in [Requests -> Seq(Targets)]

HistoryTyped ==
    /\ turnOf \in [Requests -> Bounded(Named)]
    /\ cancelled \subseteq Requests /\ halted \subseteq Rooms
    /\ replies \in [Requests -> Nat]
    /\ ids \in 0 .. MaxRequests /\ starts \in Nat

Typed == RoomsTyped /\ MemoryTyped /\ WiresTyped /\ HistoryTyped

\* What a room keeps: a queued turn or a journal but not both, in the journal
\* at least the turns the relay has left, and of a passive journal only that
\* its relay has stopped.
RoomSound(room) ==
    /\ pending[room] # Null => journal[room] = Null
    /\ journal[room] # Null => /\ relay[room].remaining <= journal[room].remaining
                               /\ journal[room].passive => journal[room].stop

\* What makes turns go one at a time: only one journal is live, and it is that
\* of the turn being run, which has not been interrupted; nobody waits for the
\* answer of its room.
Turning ==
    /\ \A a, b \in Rooms : Live(a) /\ Live(b) => a = b
    /\ current # Null =>
          /\ worker # Null => worker.room # current.room
          /\ Live(current.room) /\ ~journal[current.room].interrupted
          /\ journal[current.room].request = current.request
          /\ journal[current.room].member = current.member
          /\ journal[current.room].turn = current.turn

\* The turns a room may still take.
Left(room) ==
    IF journal[room] # Null THEN journal[room].remaining ELSE relay[room].remaining

Places == {p \in Rooms \X Nat : p[2] >= 1 /\ p[2] <= Left(p[1])}

\* The turns taken and those that may still be are no more than were given.
WithinBudget == IsFiniteSet(Places) /\ Cardinality(Places) + turns <= starts * Budget

IInv == Typed /\ (\A room \in Rooms : RoomSound(room)) /\ Turning /\ WithinBudget

LEMMA ConstantFacts ==
    /\ LocalMembers \subseteq Members /\ UserTab \notin Members
    /\ Members \ LocalMembers \subseteq Tabs /\ Members \subseteq Targets
    /\ Tabs \subseteq Targets /\ LocalMembers \cap Tabs = {}
    /\ \A room \in Rooms : MembersOf[room] \subseteq Members
    /\ Budget \in Nat /\ Budget >= 1 /\ MaxRetries \in Nat /\ MaxRequests \in Nat
    /\ MaxStarts \in Nat
    /\ Null \notin Rooms /\ Null \notin Targets /\ Null \notin Tabs
    /\ Null \notin Requests /\ Null \notin Turn /\ Null \notin Journal /\ Null \notin Current
BY MembersAssumption, NullAssumption, NullRecordAssumption, BoundsAssumption
   DEF Tabs, Targets

LEMMA OffTyped == Off \in [active : BOOLEAN, remaining : Nat]
BY DEF Off

-----------------------------------------------------------------------------
(* The operations on a room keep its types.                                *)

LEMMA SetStoppedTyped ==
    ASSUME RoomsTyped, NEW room \in Rooms, SetStopped(room), turns' = turns,
           current' \in Bounded(Current)
    PROVE  RoomsTyped'
BY OffTyped DEF RoomsTyped, SetStopped, Bounded

LEMMA EnqueueNextTyped ==
    ASSUME RoomsTyped, NEW room \in Rooms, NEW at \in [active : BOOLEAN, remaining : Nat],
           EnqueueNext(room, at), current' \in Bounded(Current)
    PROVE  RoomsTyped'
<1>1. CASE ~at.active \/ at.remaining = 0
    BY <1>1, SetStoppedTyped DEF EnqueueNext
<1>2. CASE ~(~at.active \/ at.remaining = 0)
    <2>1. /\ turns' = turns + 1
          /\ relay' = [relay EXCEPT ![room] = [active |-> TRUE, remaining |-> at.remaining - 1]]
          /\ journal' = [journal EXCEPT ![room] = Null]
        BY <1>2 DEF EnqueueNext
    <2>2. PICK m \in MembersOf[room] :
            pending' = [pending EXCEPT ![room] = [member |-> m, turn |-> turns', retry |-> 0]]
        BY <1>2 DEF EnqueueNext
    <2>3. m \in Members /\ at.remaining - 1 \in Nat
        BY <1>2, ConstantFacts
    <2>4. turns' \in Nat /\ [member |-> m, turn |-> turns', retry |-> 0] \in Turn
        BY <2>1, <2>3 DEF RoomsTyped, Turn
    <2> QED
        BY <2>1, <2>2, <2>3, <2>4 DEF RoomsTyped, Bounded
<1> QED
    BY <1>1, <1>2

LEMMA FollowTyped ==
    ASSUME RoomsTyped, NEW room \in Rooms, NEW at \in [active : BOOLEAN, remaining : Nat],
           Follow(room, at), current' \in Bounded(Current)
    PROVE  RoomsTyped'
BY SetStoppedTyped, EnqueueNextTyped DEF Follow

LEMMA FailCurrentTyped ==
    ASSUME RoomsTyped, FailCurrent, turns' = turns
    PROVE  RoomsTyped'
<1>1. CASE current = Null
    BY <1>1 DEF FailCurrent, RoomsTyped
<1>2. CASE current # Null
    <2>1. current.room \in Rooms /\ current' \in Bounded(Current)
        BY <1>2 DEF FailCurrent, RoomsTyped, Bounded, Current
    <2> QED
        BY <1>2, <2>1, SetStoppedTyped DEF FailCurrent
<1> QED
    BY <1>1, <1>2

LEMMA JournalDispatchedTyped ==
    ASSUME RoomsTyped, NEW room \in Rooms
    PROVE  JournalDispatched(room) \in [Rooms -> Bounded(Journal)]
<1>1. CASE journal[room] = Null
    BY <1>1 DEF JournalDispatched, RoomsTyped
<1>2. CASE journal[room] # Null
    <2>1. journal[room] \in Journal
        BY <1>2 DEF RoomsTyped, Bounded
    <2>2. [journal[room] EXCEPT !.dispatched = TRUE] \in Journal
        BY <2>1 DEF Journal
    <2> QED
        BY <1>2, <2>2 DEF JournalDispatched, RoomsTyped, Bounded
<1> QED
    BY <1>1, <1>2

LEMMA ParkTyped ==
    ASSUME RoomsTyped, current # Null, NEW at \in [Rooms -> Bounded(Journal)], Park(at),
           turns' = turns
    PROVE  RoomsTyped'
<1>1. current.room \in Rooms /\ current' \in Bounded(Current)
    BY DEF RoomsTyped, Bounded, Current, Park
<1>2. CASE at[current.room] = Null
    BY <1>1, <1>2 DEF Park, RoomsTyped
<1>3. CASE at[current.room] # Null
    <2>1. [at[current.room] EXCEPT !.interrupted = TRUE] \in Journal
        BY <1>1, <1>3 DEF Bounded, Journal
    <2> QED
        BY <1>1, <1>3, <2>1, OffTyped DEF Park, RoomsTyped, Bounded
<1> QED
    BY <1>2, <1>3

LEMMA TurnErrorTyped ==
    ASSUME RoomsTyped, current # Null, NEW kind, TurnError(kind), turns' = turns
    PROVE  RoomsTyped'
<1> DEFINE room == current.room
           dispatched == journal[room] # Null /\ journal[room].dispatched
<1>1. current \in Current
    BY DEF RoomsTyped, Bounded
<1>2. CASE kind = "retry" /\ ~dispatched /\ current.retry < MaxRetries
    <2>1. /\ current' = Null /\ relay' = relay
          /\ journal' = [journal EXCEPT ![room] = Null]
          /\ pending' = [pending EXCEPT ![room] =
                [member |-> current.member, turn |-> current.turn, retry |-> current.retry + 1]]
        BY <1>2 DEF TurnError
    <2>2. [member |-> current.member, turn |-> current.turn, retry |-> current.retry + 1] \in Turn
        BY <1>1 DEF Current, Turn
    <2> QED
        BY <1>1, <2>1, <2>2 DEF RoomsTyped, Bounded
<1>3. CASE ~(kind = "retry" /\ ~dispatched /\ current.retry < MaxRetries)
           /\ (kind = "recover" \/ (kind = "retry" /\ dispatched))
    <2>1. Park(journal)
        BY <1>3 DEF TurnError
    <2> QED
        BY <2>1, ParkTyped DEF RoomsTyped
<1>4. CASE /\ ~(kind = "retry" /\ ~dispatched /\ current.retry < MaxRetries)
           /\ ~(kind = "recover" \/ (kind = "retry" /\ dispatched))
    <2>1. FailCurrent
        BY <1>4 DEF TurnError
    <2> QED
        BY <2>1, FailCurrentTyped
<1> QED
    BY <1>2, <1>3, <1>4

-----------------------------------------------------------------------------
(* What a step may do to the rooms.  Every action of the scheduler is one  *)
(* of these kinds of step, by the code it shares or by having no part in   *)
(* the rooms at all.                                                       *)

\* Whoever captures may be gone afterwards, and nobody starts to.
WorkerKeptOrGone == worker' \in {worker, Null}

\* A refused final makes the recovery of an interrupted turn the one that waits.
Waiting(room) ==
    /\ journal[room] # Null /\ journal[room].interrupted
    /\ worker' = [room |-> room, request |-> journal[room].request]

Quiet ==
    /\ UNCHANGED <<relay, pending, journal, turns, starts, halted>>
    /\ WorkerKeptOrGone \/ \E room \in Rooms : Waiting(room)
    /\ current' \in {current, Null}

Starting(room) ==
    /\ journal[room] = Null /\ pending[room] = Null
    /\ EnqueueNext(room, [active |-> TRUE, remaining |-> Budget])
    /\ starts' = starts + 1 /\ UNCHANGED <<current, worker>>
    /\ halted' = halted \ {room}

Leaving(room) == current' = IF Running(room) THEN Null ELSE current

Stopping(room) ==
    /\ SetStopped(room) /\ Leaving(room)
    /\ UNCHANGED <<turns, starts>> /\ WorkerKeptOrGone
    /\ halted' \subseteq halted \cup {room}

\* The relay goes on from the room's relay state or from what its journal kept.
GoingOn(room) ==
    /\ journal[room] # Null /\ ~journal[room].passive
    /\ \E at \in {relay[room],
                  [active |-> journal[room].active, remaining |-> journal[room].remaining]} :
          /\ at.active /\ at.remaining # 0
          /\ at = relay[room] \/ ~journal[room].stop
          /\ EnqueueNext(room, at)
    /\ Leaving(room)
    /\ UNCHANGED <<starts, halted>> /\ WorkerKeptOrGone

Halted(room) ==
    /\ journal[room] # Null
    /\ relay' = [relay EXCEPT ![room] = Off]
    /\ \/ /\ current # Null /\ UNCHANGED <<pending, worker>>
          /\ InFlight(room)
          /\ journal' = [journal EXCEPT ![room] =
                [@ EXCEPT !.stop = TRUE, !.active = FALSE, !.remaining = 0]]
       \/ /\ current = Null /\ worker' = Null
          /\ journal' = [journal EXCEPT ![room] =
                [@ EXCEPT !.passive = TRUE, !.stop = TRUE, !.active = FALSE, !.remaining = 0]]
          /\ pending' = [pending EXCEPT ![room] = Null]
    /\ UNCHANGED <<current, turns, starts>>
    /\ halted' \subseteq halted \cup {room}

Archiving(room) ==
    /\ current = Null /\ journal[room] # Null
    /\ journal' = [journal EXCEPT ![room] = Null]
    /\ UNCHANGED <<relay, pending, current, worker, turns, starts, halted>>

Capturing(room) ==
    /\ current = Null /\ Dispatched(journal[room].request)
    /\ journal' = JournalDispatched(room)
    /\ worker' \in {worker, [room |-> room, request |-> journal[room].request]}
    /\ UNCHANGED <<relay, pending, current, turns, starts, halted>>

Replaying(room) ==
    /\ current = Null /\ Live(room) /\ ~Dispatched(journal[room].request)
    /\ relay' = [relay EXCEPT ![room] =
          [active |-> journal[room].active, remaining |-> journal[room].remaining]]
    /\ pending' = [pending EXCEPT ![room] =
          [member |-> journal[room].member, turn |-> journal[room].turn,
           retry |-> journal[room].retry]]
    /\ journal' = [journal EXCEPT ![room] = Null]
    /\ UNCHANGED <<current, worker, turns, starts, halted, ledger>>

Beginning(room) ==
    /\ \/ /\ NewTurn(room, FALSE)
          /\ \E phase \in {"ready", "selecting"} :
                current' = [request |-> ids', room |-> room, member |-> pending[room].member,
                            turn |-> pending[room].turn, retry |-> pending[room].retry,
                            phase |-> phase]
          /\ UNCHANGED relay
       \/ /\ NewTurn(room, TRUE)
          /\ relay' = [relay EXCEPT ![room] = Off]
          /\ UNCHANGED current
    /\ UNCHANGED <<worker, turns, starts, halted>>

Appending == gates # <<>> /\ ledger' = ledger \cup {Head(gates).request}

Sending ==
    /\ current # Null /\ Appending
    /\ journal' = JournalDispatched(current.room)
    /\ current' = [current EXCEPT !.phase = "waiting"]
    /\ UNCHANGED <<relay, pending, worker, turns, starts, halted>>

Parking ==
    /\ current # Null
    /\ Park(journal) \/ (Park(JournalDispatched(current.room)) /\ Appending)
    /\ UNCHANGED <<turns, starts, halted>> /\ WorkerKeptOrGone

Retrying ==
    LET room == current.room
    IN  /\ current # Null /\ ~(journal[room] # Null /\ journal[room].dispatched)
        /\ current' = Null
        /\ journal' = [journal EXCEPT ![room] = Null]
        /\ pending' = [pending EXCEPT ![room] =
              [member |-> current.member, turn |-> current.turn, retry |-> current.retry + 1]]
        /\ UNCHANGED <<relay, worker, turns, starts, halted, ledger>>

RoomStep ==
    \/ Quiet \/ Sending \/ Parking \/ Retrying
    \/ \E room \in Rooms :
         \/ Starting(room) \/ Stopping(room) \/ GoingOn(room) \/ Halted(room)
         \/ Archiving(room) \/ Capturing(room) \/ Replaying(room) \/ Beginning(room)

\* The error policy stops the room, parks the turn or queues it again.
LEMMA TurnErrorKind ==
    ASSUME NEW kind, current # Null, current.room \in Rooms, TurnError(kind),
           UNCHANGED <<worker, turns, starts, halted, ledger>>
    PROVE  Stopping(current.room) \/ Parking \/ Retrying
<1> DEFINE room == current.room
           dispatched == journal[room] # Null /\ journal[room].dispatched
<1>1. CASE kind = "retry" /\ ~dispatched /\ current.retry < MaxRetries
    BY <1>1 DEF TurnError, Retrying
<1>2. CASE ~(kind = "retry" /\ ~dispatched /\ current.retry < MaxRetries)
           /\ (kind = "recover" \/ (kind = "retry" /\ dispatched))
    BY <1>2 DEF TurnError, Parking, WorkerKeptOrGone
<1>3. CASE /\ ~(kind = "retry" /\ ~dispatched /\ current.retry < MaxRetries)
           /\ ~(kind = "recover" \/ (kind = "retry" /\ dispatched))
    <2>1. FailCurrent
        BY <1>3 DEF TurnError
    <2> QED
        BY <2>1 DEF FailCurrent, Stopping, Leaving, Running, WorkerKeptOrGone
<1> QED
    BY <1>1, <1>2, <1>3

\* A committed reply stops the room or the relay goes on.
LEMMA FollowKind ==
    ASSUME NEW room \in Rooms, journal[room] # Null, ~journal[room].passive,
           NEW at, at \in {relay[room],
                  [active |-> journal[room].active, remaining |-> journal[room].remaining]},
           at = relay[room] \/ ~journal[room].stop,
           Follow(room, at), Leaving(room), UNCHANGED <<starts, halted>>, WorkerKeptOrGone
    PROVE  Stopping(room) \/ GoingOn(room)
BY DEF Follow, EnqueueNext, Stopping, GoingOn

\* A recovered reply does so too; the turn being run is never the recovered.
LEMMA FinishKind ==
    ASSUME NEW room \in Rooms, journal[room] # Null, RoomSound(room),
           FinishRecovered(room), ~Running(room), UNCHANGED <<current, starts, halted>>
    PROVE  Stopping(room) \/ GoingOn(room)
<1>1. worker' = Null /\ Leaving(room) /\ WorkerKeptOrGone
    BY DEF FinishRecovered, Leaving, WorkerKeptOrGone
<1>2. CASE journal[room].stop
    BY <1>1, <1>2 DEF FinishRecovered, Stopping
<1>3. CASE ~journal[room].stop
    <2>1. Follow(room, [active |-> journal[room].active, remaining |-> journal[room].remaining])
        BY <1>3 DEF FinishRecovered
    <2>2. ~journal[room].passive
        BY <1>3 DEF RoomSound
    <2> QED
        BY <1>1, <1>3, <2>1, <2>2, FollowKind
<1> QED
    BY <1>2, <1>3

USE DEF WorkerKeptOrGone

LEMMA UserKind ==
    ASSUME IInv, User
    PROVE  RoomStep
<1> PICK room \in Rooms : StartRelay(room) \/ StopInFlight(room) \/ StopRelay(room)
    BY DEF User
<1>1. CASE StartRelay(room)
    <2>1. Starting(room)
        BY <1>1 DEF StartRelay, Starting
    <2> QED
        BY <2>1 DEF RoomStep
<1>2. CASE StopInFlight(room)
    <2>1. journal[room] # Null /\ current # Null
        BY <1>2 DEF StopInFlight, InFlight, Running, IInv, Turning, Live
    <2>2. Halted(room)
        BY <1>2, <2>1 DEF StopInFlight, Halted, counters
    <2> QED
        BY <2>2 DEF RoomStep
<1>3. CASE StopRelay(room)
    <2>1. Stopping(room)
        BY <1>3 DEF StopRelay, Stopping, Leaving, counters
    <2> QED
        BY <2>1 DEF RoomStep
<1> QED
    BY <1>1, <1>2, <1>3

LEMMA ProcessKind ==
    ASSUME IInv, Process
    PROVE  RoomStep
<1>1. CASE ProcessBusy \/ WorkerStale \/ Rest
    <2>1. Quiet
        BY <1>1 DEF ProcessBusy, WorkerStale, Rest, Quiet, snapshot, counters, history, stops
    <2> QED
        BY <2>1 DEF RoomStep
<1>2. CASE \E room \in Rooms :
              \/ Archive(room) \/ ResumeCapture(room) \/ ResumeReplay(room)
              \/ ResumeUncertain(room) \/ ResumeUnsupported(room) \/ StartLocal(room)
              \/ StartSelected(room) \/ StartSelecting(room) \/ StartOffline(room)
    <2> PICK room \in Rooms :
              \/ Archive(room) \/ ResumeCapture(room) \/ ResumeReplay(room)
              \/ ResumeUncertain(room) \/ ResumeUnsupported(room) \/ StartLocal(room)
              \/ StartSelected(room) \/ StartSelecting(room) \/ StartOffline(room)
        BY <1>2
    <2>1. CASE Archive(room)
        <3>1. Archiving(room)
            BY <2>1 DEF Archive, Archiving, Processing, counters, history, stops
        <3> QED
            BY <3>1 DEF RoomStep
    <2>2. CASE ResumeCapture(room)
        <3>1. Capturing(room)
            BY <2>2 DEF ResumeCapture, Capturing, Resuming, Processing, counters, history, stops
        <3> QED
            BY <3>1 DEF RoomStep
    <2>3. CASE ResumeReplay(room)
        <3>1. Replaying(room)
            BY <2>3 DEF ResumeReplay, Replaying, Resuming, Processing, counters, history, stops
        <3> QED
            BY <3>1 DEF RoomStep
    <2>4. CASE ResumeUncertain(room) \/ ResumeUnsupported(room)
        <3>1. Stopping(room)
            BY <2>4 DEF ResumeUncertain, ResumeUnsupported, Stopping, Leaving, Running, Resuming,
                        Processing, WorkerKeptOrGone, counters, history, stops
        <3> QED
            BY <3>1 DEF RoomStep
    <2>5. CASE StartLocal(room) \/ StartSelected(room) \/ StartSelecting(room)
        <3>1. Beginning(room)
            BY <2>5 DEF StartLocal, StartSelected, StartSelecting, Begin, Beginning, history, stops
        <3> QED
            BY <3>1 DEF RoomStep
    <2>6. CASE StartOffline(room)
        <3>1. Beginning(room)
            BY <2>6 DEF StartOffline, Beginning, history, stops
        <3> QED
            BY <3>1 DEF RoomStep
    <2> QED
        BY <2>1, <2>2, <2>3, <2>4, <2>5, <2>6
<1> QED
    BY <1>1, <1>2 DEF Process

\* An error of the turn being run, whoever reports it.
LEMMA ErrorKind ==
    ASSUME IInv, NEW kind, current # Null, TurnError(kind), UNCHANGED <<worker, turns, starts, halted, ledger>>
    PROVE  RoomStep
<1>1. current.room \in Rooms
    BY DEF IInv, Typed, RoomsTyped, Bounded, Current
<1> QED
    BY <1>1, TurnErrorKind DEF RoomStep

LEMMA ContinueKind ==
    ASSUME IInv, Continue
    PROVE  RoomStep
<1>1. CASE AppendDone
    <2> DEFINE g == Head(gates)
    <2>1. UNCHANGED <<worker, turns, starts, halted>> /\ Appending
        BY <1>1 DEF AppendDone, Appending, history, stops, counters
    <2>2. CASE current = Null
        <3>1. Quiet
            BY <1>1, <2>1, <2>2 DEF AppendDone, Quiet
        <3> QED
            BY <3>1 DEF RoomStep
    <2>3. CASE current # Null /\ (g.via = "direct" \/ extUp)
        <3>1. Sent(g)
            BY <1>1, <2>3 DEF AppendDone
        <3>2. Sending
            BY <2>1, <2>3, <3>1 DEF Sent, Sending
        <3> QED
            BY <3>2 DEF RoomStep
    <2>4. CASE current # Null /\ ~(g.via = "direct" \/ extUp)
        <3>1. Park(JournalDispatched(current.room))
            BY <1>1, <2>4 DEF AppendDone
        <3>2. Parking
            BY <2>1, <2>4, <3>1 DEF Parking
        <3> QED
            BY <3>2 DEF RoomStep
    <2> QED
        BY <2>2, <2>3, <2>4
<1>2. CASE \E l \in locates : LocateDone(l)
    <2> PICK l \in locates : LocateDone(l)
        BY <1>2
    <2>1. CASE current = Null \/ ~Reserved(current.request)
        <3>1. Quiet
            BY <2>1 DEF LocateDone, Quiet, counters, history, stops
        <3> QED
            BY <3>1 DEF RoomStep
    <2>2. CASE ~(current = Null \/ ~Reserved(current.request))
        <3>1. TurnError("stop") /\ current # Null /\ UNCHANGED <<worker, turns, starts, halted, ledger>>
            BY <2>2 DEF LocateDone, counters, history, stops
        <3> QED
            BY <3>1, ErrorKind
    <2> QED
        BY <2>1, <2>2
<1> QED
    BY <1>1, <1>2 DEF Continue

\* A recovered reply is never that of the turn being run.
LEMMA RecoveredKind ==
    ASSUME IInv, NEW room \in Rooms, journal[room] # Null, FinishRecovered(room),
           journal[room].interrupted \/ (worker # Null /\ worker.room = room),
           UNCHANGED <<current, starts, halted>>
    PROVE  RoomStep
<1>1. ~Running(room) /\ RoomSound(room)
    BY DEF IInv, Turning, Running
<1>2. Stopping(room) \/ GoingOn(room)
    BY <1>1, FinishKind
<1> QED
    BY <1>2 DEF RoomStep

LEMMA FinalKind ==
    ASSUME IInv, NEW r \in Requests, Final(r)
    PROVE  RoomStep
<1>0. UNCHANGED <<starts, halted>>
    BY DEF Final, stops
<1>1. CASE \/ \E room \in Rooms : LateFinal(r, room)
           \/ NobodyWants(r)
    <2>1. Quiet
        BY <1>0, <1>1 DEF LateFinal, NobodyWants, Quiet
    <2> QED
        BY <2>1 DEF RoomStep
<1>2. CASE \E room \in Rooms : RecoveredFinal(r, room)
    <2> PICK room \in Rooms : RecoveredFinal(r, room)
        BY <1>2
    <2>1. /\ journal[room] # Null /\ FinishRecovered(room) /\ current' = current
          /\ journal[room].interrupted \/ (worker # Null /\ worker.room = room)
        BY DEF RecoveredFinal, Recoverable
    <2> QED
        BY <1>0, <2>1, RecoveredKind
<1>3. CASE CompletesTurn(r)
    <2>1. current # Null /\ current.room \in Rooms
        BY <1>3 DEF CompletesTurn, IsCurrent, IInv, Typed, RoomsTyped, Bounded, Current
    <2> PICK room \in Rooms : room = current.room
        BY <2>1
    <2>2. journal[room] # Null /\ ~journal[room].passive
        BY <2>1 DEF IInv, Turning, Live
    <2>3. Leaving(room) /\ worker' = worker /\ Follow(room, relay[room])
        BY <1>3, <2>1 DEF CompletesTurn, Leaving, Running
    <2>4. Stopping(room) \/ GoingOn(room)
        BY <1>0, <2>2, <2>3, FollowKind
    <2> QED
        BY <2>4 DEF RoomStep
<1> QED
    BY <1>1, <1>2, <1>3 DEF Final

LEMMA CaptureKind ==
    ASSUME IInv, worker # Null, Live(worker.room), NEW found, CaptureReturns(found),
           UNCHANGED <<current, starts, halted>>
    PROVE  RoomStep
<1>1. CASE CaptureMissed
    <2>1. Quiet
        BY <1>1 DEF CaptureMissed, Quiet
    <2> QED
        BY <2>1 DEF RoomStep
<1>2. CASE FinishRecovered(worker.room)
    <2> PICK room : room = worker.room
        OBVIOUS
    <2>1. room \in Rooms /\ journal[room] # Null
        BY DEF IInv, Typed, MemoryTyped, Bounded, Live
    <2> QED
        BY <1>2, <2>1, RecoveredKind
<1> QED
    BY <1>1, <1>2 DEF CaptureReturns

\* A refused final disturbs nothing; who waits for an answer may change.
LEMMA RefusedKind ==
    ASSUME NEW r, RefusedFinal(r)
    PROVE  RoomStep
<1>1. UNCHANGED <<relay, pending, journal, turns, starts, halted, current>> /\ Rejects(r)
    BY DEF RefusedFinal, snapshot, history, stops
<1>2. WorkerKeptOrGone \/ \E room \in Rooms : Waiting(room)
    BY <1>1 DEF Rejects, Recoverable, WorkerKeptOrGone, Waiting
<1>3. Quiet
    BY <1>1, <1>2 DEF Quiet
<1> QED
    BY <1>3 DEF RoomStep

LEMMA DeliverKind ==
    ASSUME IInv, Deliver
    PROVE  RoomStep
<1>1. CASE \E e \in fromExt : Selected(e)
    <2>1. Quiet
        BY <1>1 DEF Selected, Quiet, snapshot, counters, history, stops
    <2> QED
        BY <2>1 DEF RoomStep
<1>2. CASE \E e \in fromExt : Captured(e)
    <2> PICK e \in fromExt : Captured(e)
        BY <1>2
    <2>1. UNCHANGED <<current, starts, halted>>
        BY DEF Captured, history, stops
    <2>2. CASE worker # Null /\ Live(worker.room) /\ CaptureReturns(e.found)
        BY <2>1, <2>2, CaptureKind
    <2>3. CASE UNCHANGED <<relay, pending, journal, receipts, worker, awake, turns, replies>>
        <3>1. Quiet
            BY <2>1, <2>3 DEF Quiet, WorkerKeptOrGone
        <3> QED
            BY <3>1 DEF RoomStep
    <2> QED
        BY <2>2, <2>3 DEF Captured
<1>3. CASE \E e \in fromExt \cup fromLocal : Errored(e)
    <2> PICK e \in fromExt \cup fromLocal : Errored(e)
        BY <1>3
    <2>1. UNCHANGED <<worker, turns, starts, halted, ledger>>
        BY DEF Errored, counters, history, stops
    <2>2. CASE IsCurrent(e.request)
        <3>1. current # Null /\ TurnError(e.kind)
            BY <2>2 DEF Errored, IsCurrent
        <3> QED
            BY <2>1, <3>1, ErrorKind
    <2>3. CASE ~IsCurrent(e.request)
        <3>1. Quiet
            BY <2>1, <2>3 DEF Errored, Quiet
        <3> QED
            BY <3>1 DEF RoomStep
    <2> QED
        BY <2>2, <2>3
<1>4. CASE \E e \in fromLocal : LocalFinal(e)
    <2> PICK e \in fromLocal : LocalFinal(e)
        BY <1>4
    <2>1. (Final(e.request) \/ RefusedFinal(e.request)) /\ e.request \in Requests
        BY DEF LocalFinal, IInv, Typed, WiresTyped, LocalEvents, Errors
    <2> QED
        BY <2>1, FinalKind, RefusedKind
<1>5. CASE \E r \in Requests : OnlineFinal(r)
    BY <1>5, FinalKind, RefusedKind DEF OnlineFinal
<1>6. CASE LocalCaptured
    <2>1. /\ worker # Null /\ Live(worker.room)
          /\ CaptureReturns(worker.request \in answered)
          /\ UNCHANGED <<current, starts, halted>>
        BY <1>6 DEF LocalCaptured, history, stops
    <2> QED
        BY <2>1, CaptureKind
<1> QED
    BY <1>1, <1>2, <1>3, <1>4, <1>5, <1>6 DEF Deliver

LEMMA ReachKind ==
    ASSUME Reach
    PROVE  RoomStep
<1>1. Quiet
    BY DEF Reach, ExtSelect, ExtPrompt, ExtCapture, LocalReceives, Quiet, snapshot, counters,
           history, stops
<1> QED
    BY <1>1 DEF RoomStep

LEMMA EnvironmentKind ==
    ASSUME Environment
    PROVE  RoomStep
<1>1. Quiet
    BY DEF Environment, ProviderAnswers, LocalAnswers, ExtPublishes, Quiet, snapshot, counters,
           history, stops
<1> QED
    BY <1>1 DEF RoomStep

LEMMA FailuresKind ==
    ASSUME IInv, Failures
    PROVE  RoomStep
<1>1. CASE \/ StateChanged \/ Crash
           \/ \E c \in toExt : ExtFails(c)
           \/ \E r \in Requests : ProviderFails(r)
           \/ \E c \in toLocal : LocalFails(c)
    <2>1. Quiet
        BY <1>1 DEF StateChanged, Crash, ExtFails, ProviderFails, LocalFails, Quiet, snapshot,
                    history, stops
    <2> QED
        BY <2>1 DEF RoomStep
<1>2. CASE AppendFails
    <2>1. UNCHANGED <<worker, turns, starts, halted, ledger>>
        BY <1>2 DEF AppendFails, history, stops
    <2>2. CASE current # Null /\ FailCurrent
        <3>1. current.room \in Rooms
            BY <2>2 DEF IInv, Typed, RoomsTyped, Bounded, Current
        <3>2. Stopping(current.room)
            BY <2>1, <2>2 DEF FailCurrent, Stopping, Leaving, Running
        <3> QED
            BY <3>1, <3>2 DEF RoomStep
    <2>3. CASE ~(current # Null /\ FailCurrent)
        <3>1. Quiet
            BY <1>2, <2>1, <2>3 DEF AppendFails, FailCurrent, Quiet
        <3> QED
            BY <3>1 DEF RoomStep
    <2> QED
        BY <2>2, <2>3
<1>3. CASE ExtDrops
    <2>1. worker' = Null /\ UNCHANGED <<turns, starts>>
        BY <1>3 DEF ExtDrops
    <2>2. CASE current = Null
        <3>1. Quiet
            BY <1>3, <2>1, <2>2 DEF ExtDrops, Quiet, history, stops
        <3> QED
            BY <3>1 DEF RoomStep
    <2>3. CASE current # Null
        <3>1. Parking
            BY <1>3, <2>1, <2>3 DEF ExtDrops, Parking, history, stops
        <3> QED
            BY <3>1 DEF RoomStep
    <2> QED
        BY <2>2, <2>3
<1>4. CASE \E room \in Rooms : StartRefused(room)
    <2> PICK room \in Rooms : StartRefused(room)
        BY <1>4
    <2>1. Stopping(room)
        BY DEF StartRefused, Stopping, Leaving, Running, Processing, history, stops
    <2> QED
        BY <2>1 DEF RoomStep
<1>5. CASE \E l \in locates : LocateFails(l)
    <2> PICK l \in locates : LocateFails(l)
        BY <1>5
    <2>1. UNCHANGED <<worker, turns, starts, halted, ledger>>
        BY DEF LocateFails, history, stops
    <2>2. CASE current = Null
        <3>1. Quiet
            BY <2>1, <2>2 DEF LocateFails, Quiet
        <3> QED
            BY <3>1 DEF RoomStep
    <2>3. CASE current # Null
        BY <2>1, <2>3, ErrorKind DEF LocateFails
    <2> QED
        BY <2>2, <2>3
<1> QED
    BY <1>1, <1>2, <1>3, <1>4, <1>5 DEF Failures

\* Every step is one of the kinds.
LEMMA StepKind ==
    ASSUME IInv, Next
    PROVE  RoomStep
<1>1. CASE Timeout
    <2>1. current # Null /\ TurnError("recover") /\ UNCHANGED <<worker, turns, starts, halted, ledger>>
        BY <1>1 DEF Timeout, counters, history, stops
    <2> QED
        BY <2>1, ErrorKind
<1>2. CASE \E room \in Rooms : WatchExpires(room)
    <2>1. Quiet
        BY <1>2 DEF WatchExpires, Quiet, counters, history, stops
    <2> QED
        BY <2>1 DEF RoomStep
<1>3. CASE \E room \in Rooms : Expire(room)
    <2> PICK room \in Rooms : Expire(room)
        BY <1>3
    <2>1. Halted(room)
        BY DEF Expire, Halted, Live, Processing, counters, history, stops
    <2> QED
        BY <2>1 DEF RoomStep
<1> QED
    BY <1>1, <1>2, <1>3, UserKind, ProcessKind, ContinueKind, ReachKind, DeliverKind,
       EnvironmentKind, FailuresKind DEF Next

-----------------------------------------------------------------------------
(* Each kind of step keeps the rooms typed and sound, and the turns one at *)
(* a time.                                                                 *)

Sound == (\A room \in Rooms : RoomSound(room)) /\ Turning

LEMMA EntryTyped ==
    ASSUME RoomsTyped
    PROVE  /\ \A room \in Rooms :
                 /\ relay[room] \in [active : BOOLEAN, remaining : Nat]
                 /\ journal[room] # Null => journal[room] \in Journal
                 /\ pending[room] # Null => pending[room] \in Turn
           /\ current # Null => current \in Current
BY DEF RoomsTyped, Bounded

LEMMA StoppingKeeps ==
    ASSUME RoomsTyped, Sound, NEW room \in Rooms, Stopping(room)
    PROVE  RoomsTyped' /\ Sound'
<1>1. RoomsTyped'
    <2>1. current' \in Bounded(Current)
        BY DEF Stopping, Leaving, RoomsTyped, Bounded
    <2> QED
        BY <2>1, SetStoppedTyped DEF Stopping
<1>2. /\ relay' = [relay EXCEPT ![room] = Off] /\ pending' = [pending EXCEPT ![room] = Null]
      /\ journal' = [journal EXCEPT ![room] = Null]
      /\ worker' \in {worker, Null} /\ current' \in {current, Null}
      /\ current' # Null => current.room # room
    BY DEF Stopping, SetStopped, Leaving, Running
<1>3. \A other \in Rooms :
         IF other = room THEN journal'[other] = Null /\ pending'[other] = Null
         ELSE UNCHANGED <<relay[other], pending[other], journal[other]>>
    BY <1>2 DEF RoomsTyped
<1>4. \A other \in Rooms : RoomSound(other)'
    BY <1>3 DEF Sound, RoomSound
<1>5. current # Null => current.room \in Rooms
    BY EntryTyped DEF Current
<1>6. Turning'
    BY <1>2, <1>3, <1>5 DEF Sound, Turning, Live
<1> QED
    BY <1>1, <1>4, <1>6 DEF Sound

\* A next turn is queued: the journal it follows is gone.
LEMMA QueuedKeeps ==
    ASSUME RoomsTyped, Sound, NEW room \in Rooms,
           NEW at \in [active : BOOLEAN, remaining : Nat], at.active, at.remaining # 0,
           EnqueueNext(room, at), WorkerKeptOrGone, current' \in {current, Null},
           current' # Null => current.room # room
    PROVE  RoomsTyped' /\ Sound'
<1>1. RoomsTyped'
    <2>1. current' \in Bounded(Current)
        BY DEF RoomsTyped, Bounded
    <2> QED
        BY <2>1, EnqueueNextTyped
<1>2. PICK m : /\ journal' = [journal EXCEPT ![room] = Null]
               /\ relay' = [relay EXCEPT ![room] =
                     [active |-> TRUE, remaining |-> at.remaining - 1]]
               /\ pending' = [pending EXCEPT ![room] = m]
    BY DEF EnqueueNext
<1>3. \A other \in Rooms :
         IF other = room THEN journal'[other] = Null
         ELSE UNCHANGED <<relay[other], pending[other], journal[other]>>
    BY <1>2 DEF RoomsTyped
<1>4. \A other \in Rooms : RoomSound(other)'
    BY <1>3 DEF Sound, RoomSound
<1>5. current # Null => current.room \in Rooms
    BY EntryTyped DEF Current
<1>6. Turning'
    BY <1>3, <1>5 DEF Sound, Turning, Live
<1> QED
    BY <1>1, <1>4, <1>6 DEF Sound

LEMMA GoingOnKeeps ==
    ASSUME RoomsTyped, Sound, NEW room \in Rooms, GoingOn(room)
    PROVE  RoomsTyped' /\ Sound'
<1>1. PICK at \in {relay[room],
                   [active |-> journal[room].active, remaining |-> journal[room].remaining]} :
         at.active /\ at.remaining # 0 /\ EnqueueNext(room, at)
    BY DEF GoingOn
<1>2. at \in [active : BOOLEAN, remaining : Nat]
    <2>1. journal[room] \in Journal /\ relay[room] \in [active : BOOLEAN, remaining : Nat]
        BY EntryTyped DEF GoingOn
    <2> QED
        BY <2>1 DEF Journal
<1>3. current' \in {current, Null} /\ (current' # Null => current.room # room)
    BY DEF GoingOn, Leaving, Running
<1> QED
    BY <1>1, <1>2, <1>3, QueuedKeeps DEF GoingOn

LEMMA StartingKeeps ==
    ASSUME RoomsTyped, Sound, NEW room \in Rooms, Starting(room)
    PROVE  RoomsTyped' /\ Sound'
<1> PICK at : at = [active |-> TRUE, remaining |-> Budget]
    OBVIOUS
<1>1. at \in [active : BOOLEAN, remaining : Nat] /\ at.active /\ at.remaining # 0
    BY ConstantFacts
<1>2. current' = current /\ (current # Null => current.room # room)
    BY DEF Starting, Sound, Turning, Live
<1> QED
    BY <1>1, <1>2, QueuedKeeps DEF Starting

LEMMA HaltedKeeps ==
    ASSUME RoomsTyped, Sound, NEW room \in Rooms, Halted(room)
    PROVE  RoomsTyped' /\ Sound'
<1>1. journal[room] \in Journal /\ pending[room] = Null
    BY EntryTyped DEF Halted, Sound, RoomSound
<1>2. PICK halt \in Journal :
        /\ halt.request = journal[room].request /\ halt.member = journal[room].member
        /\ halt.turn = journal[room].turn /\ halt.interrupted = journal[room].interrupted
        /\ halt.stop /\ halt.remaining = 0
        /\ ~halt.passive => current # Null /\ ~journal[room].passive
        /\ current # Null => halt.passive = journal[room].passive
        /\ journal' = [journal EXCEPT ![room] = halt]
    <2>1. CASE current # Null
        <3> DEFINE halt == [journal[room] EXCEPT !.stop = TRUE, !.active = FALSE, !.remaining = 0]
        <3>1. /\ halt \in Journal /\ halt.request = journal[room].request
              /\ halt.member = journal[room].member /\ halt.turn = journal[room].turn
              /\ halt.interrupted = journal[room].interrupted
              /\ halt.stop /\ halt.remaining = 0 /\ halt.passive = journal[room].passive
            BY <1>1 DEF Journal
        <3>2. journal' = [journal EXCEPT ![room] = halt]
            BY <2>1 DEF Halted
        <3> QED
            BY <2>1, <3>1, <3>2
    <2>2. CASE current = Null
        <3> DEFINE halt == [journal[room] EXCEPT !.passive = TRUE, !.stop = TRUE,
                                                 !.active = FALSE, !.remaining = 0]
        <3>1. /\ halt \in Journal /\ halt.request = journal[room].request
              /\ halt.member = journal[room].member /\ halt.turn = journal[room].turn
              /\ halt.interrupted = journal[room].interrupted
              /\ halt.stop /\ halt.remaining = 0 /\ halt.passive
            BY <1>1 DEF Journal
        <3>2. journal' = [journal EXCEPT ![room] = halt]
            BY <2>2 DEF Halted
        <3> QED
            BY <2>2, <3>1, <3>2
    <2> QED
        BY <2>1, <2>2
<1>3. /\ relay' = [relay EXCEPT ![room] = Off]
      /\ pending' = pending \/ pending' = [pending EXCEPT ![room] = Null]
      /\ current' = current /\ turns' = turns
      /\ current # Null => worker' = worker
    BY DEF Halted
<1>4. RoomsTyped'
    BY <1>2, <1>3, OffTyped DEF RoomsTyped, Bounded
<1>5. \A other \in Rooms :
         IF other = room
         THEN journal'[other] = halt /\ pending'[other] = Null /\ relay'[other] = Off
         ELSE UNCHANGED <<relay[other], pending[other], journal[other]>>
    BY <1>1, <1>2, <1>3 DEF RoomsTyped
<1>6. \A other \in Rooms : RoomSound(other)'
    BY <1>2, <1>5, ConstantFacts DEF Sound, RoomSound, Off
<1>7. current # Null => current.room \in Rooms
    BY EntryTyped DEF Current
<1>8. \A other \in Rooms : Live(other)' => Live(other)
    BY <1>2, <1>5 DEF Live, Halted
<1>9. Turning'
    <2>1. CASE current # Null
        <3>1. /\ worker' # Null => worker'.room # current.room
              /\ \A a, b \in Rooms : Live(a)' /\ Live(b)' => a = b
            BY <1>3, <1>8, <2>1 DEF Sound, Turning
        <3>2. CASE current.room = room
            BY <1>2, <1>3, <1>5, <2>1, <3>1, <3>2, ConstantFacts DEF Sound, Turning, Live
        <3>3. CASE current.room # room
            BY <1>3, <1>5, <1>7, <2>1, <3>1, <3>3 DEF Sound, Turning, Live
        <3> QED
            BY <3>2, <3>3
    <2>2. CASE current = Null
        BY <1>3, <1>8, <2>2 DEF Sound, Turning
    <2> QED
        BY <2>1, <2>2
<1> QED
    BY <1>4, <1>6, <1>9 DEF Sound

LEMMA ArchivingKeeps ==
    ASSUME RoomsTyped, Sound, NEW room \in Rooms, Archiving(room)
    PROVE  RoomsTyped' /\ Sound'
<1>1. \A other \in Rooms :
         /\ UNCHANGED <<relay[other], pending[other]>>
         /\ IF other = room THEN journal'[other] = Null ELSE journal'[other] = journal[other]
    BY DEF Archiving, RoomsTyped
<1>2. RoomsTyped'
    BY DEF Archiving, RoomsTyped, Bounded
<1>3. \A other \in Rooms : RoomSound(other)'
    BY <1>1 DEF Sound, RoomSound
<1>4. Turning'
    BY <1>1 DEF Sound, Turning, Live, Archiving
<1> QED
    BY <1>2, <1>3, <1>4 DEF Sound

\* Marking a journal as dispatched changes nothing else of it.
LEMMA MarkedEntry ==
    ASSUME RoomsTyped, NEW room \in Rooms, NEW other \in Rooms, NEW marked,
           marked = JournalDispatched(room)
    PROVE  /\ marked[other] = Null <=> journal[other] = Null
           /\ journal[other] # Null =>
                 /\ marked[other] \in Journal
                 /\ \A f \in {"request", "member", "turn", "retry", "interrupted", "passive",
                              "stop", "active", "remaining"} :
                       marked[other][f] = journal[other][f]
                 /\ marked[other].dispatched =
                       (journal[other].dispatched \/ other = room)
<1>1. CASE journal[room] = Null
    BY <1>1, EntryTyped DEF JournalDispatched, Journal
<1>2. CASE journal[room] # Null
    <2>1. marked = [journal EXCEPT ![room] = [journal[room] EXCEPT !.dispatched = TRUE]]
        BY <1>2 DEF JournalDispatched
    <2>2. CASE other = room
        <3>1. journal[room] \in Journal
            BY <1>2, EntryTyped
        <3>2. marked[other] = [journal[room] EXCEPT !.dispatched = TRUE]
            BY <2>1, <2>2 DEF RoomsTyped
        <3>3. marked[other] \in Journal
            BY <3>1, <3>2 DEF Journal
        <3>4. \A f \in {"request", "member", "turn", "retry", "interrupted", "passive",
                        "stop", "active", "remaining"} :
                 marked[other][f] = journal[other][f]
            BY <2>2, <3>1, <3>2 DEF Journal
        <3>5. marked[other].dispatched = TRUE
            BY <3>1, <3>2 DEF Journal
        <3> QED
            BY <1>2, <2>2, <3>3, <3>4, <3>5, ConstantFacts
    <2>3. CASE other # room
        <3>1. marked[other] = journal[other]
            BY <2>1, <2>3 DEF RoomsTyped
        <3> QED
            BY <2>3, <3>1, EntryTyped DEF Journal
    <2> QED
        BY <2>2, <2>3
<1> QED
    BY <1>1, <1>2

\* A step that leaves queue and relays alone, and of the journals all but marks.
LEMMA MarkingKeeps ==
    ASSUME RoomsTyped, Sound, NEW room \in Rooms, journal' = JournalDispatched(room),
           UNCHANGED <<relay, pending, turns>>,
           \/ current = Null /\ current' = Null
           \/ /\ current # Null /\ worker' = worker
              /\ current' = [current EXCEPT !.phase = "waiting"]
    PROVE  RoomsTyped' /\ Sound'
<1>1. \A other \in Rooms :
        /\ journal'[other] = Null <=> journal[other] = Null
        /\ journal[other] # Null =>
              /\ journal'[other] \in Journal
              /\ \A f \in {"request", "member", "turn", "interrupted", "passive", "stop",
                           "remaining"} :
                    journal'[other][f] = journal[other][f]
    BY MarkedEntry
<1>2. \A other \in Rooms : journal[other] # Null =>
         /\ journal'[other].request = journal[other].request
         /\ journal'[other].member = journal[other].member
         /\ journal'[other].turn = journal[other].turn
         /\ journal'[other].interrupted = journal[other].interrupted
         /\ journal'[other].passive = journal[other].passive
         /\ journal'[other].stop = journal[other].stop
         /\ journal'[other].remaining = journal[other].remaining
    BY <1>1
<1>3. /\ current' # Null <=> current # Null
      /\ current # Null => /\ current \in Current /\ current' \in Current
                           /\ current'.request = current.request
                           /\ current'.room = current.room /\ current'.member = current.member
                           /\ current'.turn = current.turn /\ worker' = worker
    <2>1. CASE current = Null
        BY <2>1
    <2>2. CASE current # Null
        <3>1. current \in Current
            BY <2>2, EntryTyped
        <3>2. [current EXCEPT !.phase = "waiting"] \in Current
            BY <3>1 DEF Current
        <3>3. current' # Null
            BY <2>2, <3>2, ConstantFacts
        <3> QED
            BY <2>2, <3>1, <3>2, <3>3 DEF Current
    <2> QED
        BY <2>1, <2>2
<1>4. RoomsTyped'
    BY <1>3, JournalDispatchedTyped DEF RoomsTyped, Bounded
<1>5. \A other \in Rooms : RoomSound(other)'
    BY <1>1, <1>2 DEF Sound, RoomSound
<1>6. Turning'
    <2>1. \A other \in Rooms : Live(other)' <=> Live(other)
        BY <1>1, <1>2 DEF Live
    <2>2. current # Null => current.room \in Rooms
        BY <1>3 DEF Current
    <2> QED
        BY <1>2, <1>3, <2>1, <2>2 DEF Sound, Turning, Live
<1> QED
    BY <1>4, <1>5, <1>6 DEF Sound

LEMMA QuietKeeps ==
    ASSUME RoomsTyped, Sound, Quiet
    PROVE  RoomsTyped' /\ Sound'
<1>1. RoomsTyped'
    BY DEF Quiet, RoomsTyped, Bounded
<1>2. \A room \in Rooms : RoomSound(room)'
    BY DEF Quiet, Sound, RoomSound
<1>3. /\ \A a, b \in Rooms : Live(a)' /\ Live(b)' => a = b
      /\ current' # Null =>
            /\ current' = current /\ Live(current.room)' /\ ~journal'[current.room].interrupted
            /\ journal'[current.room].request = current.request
            /\ journal'[current.room].member = current.member
            /\ journal'[current.room].turn = current.turn
    BY DEF Quiet, Sound, Turning, Live
<1>4. current' # Null /\ worker' # Null => worker'.room # current'.room
    <2>1. CASE WorkerKeptOrGone
        BY <2>1 DEF Quiet, Sound, Turning
    <2>2. ASSUME NEW room \in Rooms, Waiting(room)
          PROVE  current' # Null => worker'.room # current'.room
        <3>1. worker'.room = room /\ journal'[room].interrupted
            BY <2>2 DEF Waiting, Quiet
        <3> QED
            BY <1>3, <3>1
    <2> QED
        BY <2>1, <2>2 DEF Quiet
<1> QED
    BY <1>1, <1>2, <1>3, <1>4 DEF Sound, Turning

LEMMA CapturingKeeps ==
    ASSUME RoomsTyped, Sound, NEW room \in Rooms, Capturing(room)
    PROVE  RoomsTyped' /\ Sound'
BY MarkingKeeps DEF Capturing

LEMMA SendingKeeps ==
    ASSUME RoomsTyped, Sound, Sending
    PROVE  RoomsTyped' /\ Sound'
BY MarkingKeeps, EntryTyped DEF Sending, Current

LEMMA ReplayingKeeps ==
    ASSUME RoomsTyped, Sound, NEW room \in Rooms, Replaying(room)
    PROVE  RoomsTyped' /\ Sound'
<1> DEFINE queued == [member |-> journal[room].member, turn |-> journal[room].turn,
                      retry |-> journal[room].retry]
           state == [active |-> journal[room].active, remaining |-> journal[room].remaining]
<1>1. journal[room] \in Journal
    BY EntryTyped DEF Replaying, Live
<1>2. queued \in Turn /\ state \in [active : BOOLEAN, remaining : Nat]
    BY <1>1 DEF Journal, Turn
<1>3. RoomsTyped'
    BY <1>2 DEF Replaying, RoomsTyped, Bounded
<1>4. \A other \in Rooms :
         IF other = room THEN journal'[other] = Null
         ELSE UNCHANGED <<relay[other], pending[other], journal[other]>>
    BY DEF Replaying, RoomsTyped
<1>5. \A other \in Rooms : RoomSound(other)'
    BY <1>4 DEF Sound, RoomSound
<1>6. Turning'
    BY <1>4 DEF Sound, Turning, Live, Replaying
<1> QED
    BY <1>3, <1>5, <1>6 DEF Sound

LEMMA RetryingKeeps ==
    ASSUME RoomsTyped, Sound, Retrying
    PROVE  RoomsTyped' /\ Sound'
<1>1. current \in Current /\ current.room \in Rooms
    BY EntryTyped DEF Retrying, Current
<1> PICK room \in Rooms : room = current.room
    BY <1>1
<1> DEFINE queued == [member |-> current.member, turn |-> current.turn, retry |-> current.retry + 1]
<1>2. /\ current' = Null /\ relay' = relay /\ turns' = turns
      /\ journal' = [journal EXCEPT ![room] = Null]
      /\ pending' = [pending EXCEPT ![room] = queued]
    BY DEF Retrying
<1>3. queued \in Turn
    BY <1>1 DEF Current, Turn
<1>4. RoomsTyped'
    BY <1>2, <1>3 DEF RoomsTyped, Bounded
<1>5. \A other \in Rooms :
         IF other = room THEN journal'[other] = Null
         ELSE UNCHANGED <<relay[other], pending[other], journal[other]>>
    BY <1>2 DEF RoomsTyped
<1>6. \A other \in Rooms : RoomSound(other)'
    BY <1>5 DEF Sound, RoomSound
<1>7. Turning'
    BY <1>2, <1>5 DEF Sound, Turning, Live
<1> QED
    BY <1>4, <1>6, <1>7 DEF Sound

\* Parking, with or without the mark of a dispatch.
LEMMA ParkKeeps ==
    ASSUME RoomsTyped, Sound, current # Null, NEW at \in [Rooms -> Bounded(Journal)], Park(at),
           turns' = turns,
           \A room \in Rooms :
             /\ at[room] = Null <=> journal[room] = Null
             /\ journal[room] # Null => /\ at[room].passive = journal[room].passive
                                        /\ at[room].stop = journal[room].stop
                                        /\ at[room].remaining = journal[room].remaining
    PROVE  RoomsTyped' /\ Sound'
<1>1. current.room \in Rooms /\ current' = Null /\ pending' = pending
    BY EntryTyped DEF Park, Current
<1> PICK room \in Rooms : room = current.room
    BY <1>1
<1>2. RoomsTyped'
    BY ParkTyped
<1>3. at[room] # Null /\ at[room] \in Journal
    BY DEF Sound, Turning, Live, Bounded
<1>4. /\ journal' = [at EXCEPT ![room] = [at[room] EXCEPT !.interrupted = TRUE]]
      /\ relay' = [relay EXCEPT ![room] = Off]
    BY <1>3 DEF Park
<1>5. \A other \in Rooms :
        /\ relay'[other].remaining \in {relay[other].remaining, 0}
        /\ journal'[other] = Null <=> journal[other] = Null
        /\ journal[other] # Null => /\ journal'[other].passive = journal[other].passive
                                    /\ journal'[other].stop = journal[other].stop
                                    /\ journal'[other].remaining = journal[other].remaining
    <2> TAKE other \in Rooms
    <2>1. CASE other = room
        <3>1. journal'[room] = [at[room] EXCEPT !.interrupted = TRUE] /\ relay'[room] = Off
            BY <1>4 DEF RoomsTyped
        <3>2. /\ journal'[room] \in Journal /\ journal'[room].passive = at[room].passive
              /\ journal'[room].stop = at[room].stop
              /\ journal'[room].remaining = at[room].remaining
            BY <1>3, <3>1 DEF Journal
        <3>3. journal'[room] # Null /\ relay'[room].remaining = 0
            <4>1. journal'[room] # Null
                BY <3>2, ConstantFacts
            <4>2. relay'[room].remaining = 0
                BY <3>1 DEF Off
            <4> QED
                BY <4>1, <4>2
        <3> QED
            BY <1>3, <2>1, <3>2, <3>3
    <2>2. CASE other # room
        <3>1. journal'[other] = at[other] /\ relay'[other] = relay[other]
            BY <1>4, <2>2 DEF RoomsTyped
        <3> QED
            BY <3>1
    <2> QED
        BY <2>1, <2>2
<1>6. \A other \in Rooms : RoomSound(other)'
    <2> TAKE other \in Rooms
    <2>1. journal[other] # Null => journal[other] \in Journal
        BY EntryTyped
    <2>2. relay[other].remaining \in Nat
        BY EntryTyped
    <2> QED
        BY <1>1, <1>5, <2>1, <2>2 DEF Sound, RoomSound, Journal
<1>7. Turning'
    BY <1>1, <1>5 DEF Sound, Turning, Live
<1> QED
    BY <1>2, <1>6, <1>7 DEF Sound

LEMMA ParkingKeeps ==
    ASSUME RoomsTyped, Sound, Parking
    PROVE  RoomsTyped' /\ Sound'
<1>1. CASE Park(journal)
    BY <1>1, ParkKeeps DEF Parking, RoomsTyped
<1>2. CASE Park(JournalDispatched(current.room))
    <2>1. current.room \in Rooms
        BY EntryTyped DEF Parking, Current
    <2> PICK at : at = JournalDispatched(current.room)
        OBVIOUS
    <2>2. at \in [Rooms -> Bounded(Journal)]
        BY <2>1, JournalDispatchedTyped
    <2>3. \A other \in Rooms :
            /\ at[other] = Null <=> journal[other] = Null
            /\ journal[other] # Null =>
                  \A f \in {"passive", "stop", "remaining"} : at[other][f] = journal[other][f]
        BY <2>1, MarkedEntry
    <2>4. \A other \in Rooms : journal[other] # Null =>
             /\ at[other].passive = journal[other].passive
             /\ at[other].stop = journal[other].stop
             /\ at[other].remaining = journal[other].remaining
        BY <2>3
    <2>5. Park(at)
        BY <1>2
    <2> QED
        BY <2>2, <2>3, <2>4, <2>5, ParkKeeps DEF Parking
<1> QED
    BY <1>1, <1>2 DEF Parking

LEMMA NewTurnFacts ==
    ASSUME RoomsTyped, Sound, NEW room \in Rooms, NEW interrupted \in BOOLEAN,
           NewTurn(room, interrupted), ids \in Nat,
           NEW entry,
           entry = [request |-> ids', member |-> pending[room].member,
                    turn |-> pending[room].turn, retry |-> pending[room].retry,
                    dispatched |-> FALSE, interrupted |-> interrupted, passive |-> FALSE,
                    stop |-> FALSE, active |-> relay[room].active,
                    remaining |-> relay[room].remaining]
    PROVE  /\ ids' \in Requests /\ pending[room] \in Turn /\ entry \in Journal
           /\ journal' = [journal EXCEPT ![room] = entry]
           /\ pending' = [pending EXCEPT ![room] = Null]
           /\ current = Null /\ worker = Null /\ \A other \in Rooms : ~Live(other)
<1>1. ids' \in Requests
    BY ConstantFacts DEF NewTurn, Requests
<1>2. pending[room] \in Turn /\ relay[room] \in [active : BOOLEAN, remaining : Nat]
    BY EntryTyped DEF NewTurn, Queued
<1>3. entry \in Journal
    BY <1>1, <1>2 DEF Journal, Turn
<1> QED
    BY <1>1, <1>2, <1>3 DEF NewTurn, Processing, HasWork

LEMMA BeginningKeeps ==
    ASSUME RoomsTyped, Sound, ids \in Nat, NEW room \in Rooms, Beginning(room)
    PROVE  RoomsTyped' /\ Sound'
<1>1. PICK interrupted \in BOOLEAN :
        /\ NewTurn(room, interrupted)
        /\ ~interrupted =>
              /\ \E phase \in {"ready", "selecting"} :
                    current' = [request |-> ids', room |-> room, member |-> pending[room].member,
                                turn |-> pending[room].turn, retry |-> pending[room].retry,
                                phase |-> phase]
              /\ UNCHANGED relay
        /\ interrupted => relay' = [relay EXCEPT ![room] = Off] /\ UNCHANGED current
    BY DEF Beginning
<1> PICK entry :
      entry = [request |-> ids', member |-> pending[room].member,
               turn |-> pending[room].turn, retry |-> pending[room].retry,
               dispatched |-> FALSE, interrupted |-> interrupted, passive |-> FALSE,
               stop |-> FALSE, active |-> relay[room].active,
               remaining |-> relay[room].remaining]
    OBVIOUS
<1>2. /\ ids' \in Requests /\ pending[room] \in Turn /\ entry \in Journal
      /\ journal' = [journal EXCEPT ![room] = entry]
      /\ pending' = [pending EXCEPT ![room] = Null]
      /\ current = Null /\ worker = Null /\ \A other \in Rooms : ~Live(other)
    BY <1>1, NewTurnFacts
<1>3. /\ current' \in Bounded(Current)
      /\ current' # Null =>
            /\ ~interrupted /\ current'.room = room /\ current'.request = entry.request
            /\ current'.member = entry.member /\ current'.turn = entry.turn
    <2>1. CASE interrupted
        BY <1>1, <1>2, <2>1 DEF Bounded
    <2>2. CASE ~interrupted
        BY <1>1, <1>2, <2>2 DEF Bounded, Current, Turn
    <2> QED
        BY <2>1, <2>2
<1>4. relay' \in [Rooms -> [active : BOOLEAN, remaining : Nat]] /\ turns' = turns
      /\ relay'[room].remaining <= relay[room].remaining
      /\ worker' = worker
      /\ \A other \in Rooms : other # room => relay'[other] = relay[other]
    <2>1. relay[room].remaining \in Nat /\ turns' = turns /\ worker' = worker
        BY EntryTyped DEF Beginning
    <2>2. CASE interrupted
        <3>1. relay' = [relay EXCEPT ![room] = Off]
            BY <1>1, <2>2
        <3>2. relay'[room].remaining = 0
            BY <3>1 DEF RoomsTyped, Off
        <3> QED
            BY <2>1, <3>1, <3>2, OffTyped DEF RoomsTyped
    <2>3. CASE ~interrupted
        BY <1>1, <2>1, <2>3 DEF RoomsTyped
    <2> QED
        BY <2>2, <2>3
<1>5. RoomsTyped'
    BY <1>2, <1>3, <1>4 DEF RoomsTyped, Bounded
<1>6. \A other \in Rooms :
         IF other = room
         THEN journal'[other] = entry /\ pending'[other] = Null
         ELSE UNCHANGED <<relay[other], pending[other], journal[other]>>
    BY <1>2, <1>4 DEF RoomsTyped
<1>7. \A other \in Rooms : RoomSound(other)'
    BY <1>4, <1>6 DEF Sound, RoomSound
<1>8. Turning'
    <2>1. \A other \in Rooms : Live(other)' => other = room
        BY <1>2, <1>6 DEF Live
    <2>2. CASE current' = Null
        BY <2>1, <2>2 DEF Turning
    <2>3. CASE current' # Null
        <3>1. entry # Null /\ ~entry.passive /\ ~entry.interrupted
            BY <1>2, <1>3, <2>3, ConstantFacts
        <3> QED
            BY <1>2, <1>3, <1>4, <1>6, <2>1, <2>3, <3>1 DEF Turning, Live
    <2> QED
        BY <2>2, <2>3
<1> QED
    BY <1>5, <1>7, <1>8 DEF Sound

\* Every kind of step does.
LEMMA RoomStepKeeps ==
    ASSUME RoomsTyped, Sound, ids \in Nat, RoomStep
    PROVE  RoomsTyped' /\ Sound'
BY QuietKeeps, SendingKeeps, ParkingKeeps, RetryingKeeps, StartingKeeps, StoppingKeeps,
   GoingOnKeeps, HaltedKeeps, ArchivingKeeps, CapturingKeeps, ReplayingKeeps, BeginningKeeps
   DEF RoomStep

-----------------------------------------------------------------------------
(* And each keeps the budget: the turns taken, with the places that are    *)
(* left, never outgrow what the started relays were given.                 *)

LEMMA LeftTyped ==
    ASSUME RoomsTyped
    PROVE  \A room \in Rooms : Left(room) \in Nat
BY EntryTyped DEF Left, Journal

LEMMA LeftTypedAfter ==
    ASSUME RoomsTyped'
    PROVE  \A room \in Rooms : Left(room)' \in Nat
BY DEF RoomsTyped, Bounded, Left, Journal

LEMMA PlaceFacts ==
    /\ \A p : p \in Places <=> p \in Rooms \X Nat /\ p[2] >= 1 /\ p[2] <= Left(p[1])
    /\ \A p : p \in Places' <=> p \in Rooms \X Nat /\ p[2] >= 1 /\ p[2] <= Left(p[1])'
BY DEF Places

LEMMA NoMoreLeft ==
    ASSUME RoomsTyped, RoomsTyped', starts \in Nat, WithinBudget,
           \A room \in Rooms : Left(room)' <= Left(room), UNCHANGED <<turns, starts>>
    PROVE  WithinBudget'
<1>1. Places' \subseteq Places
    BY LeftTyped, LeftTypedAfter, PlaceFacts
<1>2. /\ IsFiniteSet(Places') /\ Cardinality(Places') <= Cardinality(Places)
      /\ Cardinality(Places) \in Nat /\ Cardinality(Places') \in Nat
    BY <1>1, FS_Subset, FS_CardinalityType DEF WithinBudget
<1>3. turns \in Nat /\ starts * Budget \in Nat
    BY ConstantFacts DEF RoomsTyped
<1>4. starts' * Budget = starts * Budget
    OBVIOUS
<1> QED
    BY <1>2, <1>3, <1>4 DEF WithinBudget

LEMMA OneTaken ==
    ASSUME RoomsTyped, RoomsTyped', starts \in Nat, WithinBudget, NEW room \in Rooms,
           Left(room)' < Left(room),
           \A other \in Rooms : other # room => Left(other)' <= Left(other),
           turns' = turns + 1, UNCHANGED starts
    PROVE  WithinBudget'
<1> PICK place : place = <<room, Left(room)>>
    OBVIOUS
<1>1. place \in Places /\ place \notin Places' /\ Places' \subseteq Places
    BY LeftTyped, LeftTypedAfter, PlaceFacts
<1>2. Places' \in SUBSET (Places \ {place}) /\ IsFiniteSet(Places)
    BY <1>1 DEF WithinBudget
<1>3. /\ IsFiniteSet(Places \ {place}) /\ Cardinality(Places) \in Nat
      /\ Cardinality(Places \ {place}) = Cardinality(Places) - 1
    BY <1>1, <1>2, FS_RemoveElement, FS_CardinalityType
<1>4. /\ IsFiniteSet(Places') /\ Cardinality(Places') \in Nat
      /\ Cardinality(Places') <= Cardinality(Places \ {place})
    BY <1>2, <1>3, FS_Subset, FS_CardinalityType
<1>5. turns \in Nat /\ starts * Budget \in Nat /\ starts' * Budget = starts * Budget
    BY ConstantFacts DEF RoomsTyped
<1> QED
    BY <1>3, <1>4, <1>5 DEF WithinBudget

LEMMA RelayStarted ==
    ASSUME RoomsTyped, RoomsTyped', starts \in Nat, WithinBudget, NEW room \in Rooms,
           Left(room)' = Budget - 1,
           \A other \in Rooms : other # room => Left(other)' <= Left(other),
           turns' = turns + 1, starts' = starts + 1
    PROVE  WithinBudget'
<1> PICK given : given = {p \in Rooms \X Nat : p[1] = room /\ p[2] >= 1 /\ p[2] <= Budget - 1}
    OBVIOUS
<1>0. Budget \in Nat /\ Budget - 1 \in Nat
    BY ConstantFacts
<1>1. IsFiniteSet(given) /\ Cardinality(given) <= Budget - 1 /\ Cardinality(given) \in Nat
    <2> DEFINE T == 1 .. (Budget - 1)
               f == [p \in given |-> p[2]]
    <2>1. IsFiniteSet(T) /\ Cardinality(T) = Budget - 1
        BY <1>0, FS_Interval
    <2>2. f \in Injection(given, T)
        BY DEF Injection, IsInjective
    <2>3. IsFiniteSet(given) /\ Cardinality(given) <= Cardinality(T)
        BY ONLY <2>1, <2>2, FS_Injection
    <2> QED
        BY <2>1, <2>3, FS_CardinalityType
<1>2. Places' \in SUBSET (Places \cup given)
    BY <1>0, LeftTyped, LeftTypedAfter, PlaceFacts
<1>3. IsFiniteSet(Places) /\ Cardinality(Places) \in Nat
    BY FS_CardinalityType DEF WithinBudget
<1>4. /\ IsFiniteSet(Places \cup given) /\ Cardinality(Places \cap given) \in Nat
      /\ Cardinality(Places \cup given) =
            Cardinality(Places) + Cardinality(given) - Cardinality(Places \cap given)
    <2>1. IsFiniteSet(Places \cap given)
        BY <1>3, FS_Subset
    <2> QED
        BY <1>1, <1>3, <2>1, FS_Union, FS_CardinalityType
<1>5. /\ IsFiniteSet(Places') /\ Cardinality(Places') \in Nat
      /\ Cardinality(Places') <= Cardinality(Places \cup given)
    BY <1>2, <1>4, FS_Subset, FS_CardinalityType
<1>6. turns \in Nat /\ starts * Budget \in Nat /\ starts' * Budget = starts * Budget + Budget
    BY <1>0 DEF RoomsTyped
<1>7. Cardinality(Places') <= Cardinality(Places) + Budget - 1
    BY <1>0, <1>1, <1>3, <1>4, <1>5
<1>8. Cardinality(Places) + turns <= starts * Budget
    BY DEF WithinBudget
<1> QED
    BY <1>0, <1>3, <1>5, <1>6, <1>7, <1>8 DEF WithinBudget

\* The turns a relay has, once its next one is queued.
LEMMA QueuedLeft ==
    ASSUME RoomsTyped, NEW room \in Rooms,
           NEW at \in [active : BOOLEAN, remaining : Nat], at.active, at.remaining # 0,
           EnqueueNext(room, at)
    PROVE  /\ Left(room)' = at.remaining - 1 /\ turns' = turns + 1
           /\ \A other \in Rooms : other # room => Left(other)' = Left(other)
<1>1. /\ journal' = [journal EXCEPT ![room] = Null] /\ turns' = turns + 1
      /\ relay' = [relay EXCEPT ![room] = [active |-> TRUE, remaining |-> at.remaining - 1]]
    BY DEF EnqueueNext
<1>2. journal'[room] = Null /\ relay'[room].remaining = at.remaining - 1
    BY <1>1 DEF RoomsTyped
<1>3. \A other \in Rooms : other # room =>
         journal'[other] = journal[other] /\ relay'[other] = relay[other]
    BY <1>1 DEF RoomsTyped
<1> QED
    BY <1>1, <1>2, <1>3 DEF Left

LEMMA StartingPays ==
    ASSUME RoomsTyped, RoomsTyped', starts \in Nat, WithinBudget, NEW room \in Rooms,
           Starting(room)
    PROVE  WithinBudget'
<1> PICK at : at = [active |-> TRUE, remaining |-> Budget]
    OBVIOUS
<1>1. at \in [active : BOOLEAN, remaining : Nat] /\ at.active /\ at.remaining # 0
    BY ConstantFacts
<1>2. /\ Left(room)' = Budget - 1 /\ turns' = turns + 1
      /\ \A other \in Rooms : other # room => Left(other)' = Left(other)
    BY <1>1, QueuedLeft DEF Starting
<1>3. \A other \in Rooms : other # room => Left(other)' <= Left(other)
    BY <1>2, LeftTyped
<1> QED
    BY <1>2, <1>3, RelayStarted DEF Starting

LEMMA GoingOnPays ==
    ASSUME RoomsTyped, RoomsTyped', Sound, starts \in Nat, WithinBudget, NEW room \in Rooms,
           GoingOn(room)
    PROVE  WithinBudget'
<1>1. PICK at \in {relay[room],
                   [active |-> journal[room].active, remaining |-> journal[room].remaining]} :
         at.active /\ at.remaining # 0 /\ EnqueueNext(room, at)
    BY DEF GoingOn
<1>2. /\ journal[room] \in Journal /\ relay[room] \in [active : BOOLEAN, remaining : Nat]
      /\ journal[room] # Null
    BY EntryTyped DEF GoingOn
<1>3. at \in [active : BOOLEAN, remaining : Nat]
    BY <1>2 DEF Journal
<1>4. at.remaining <= Left(room)
    BY <1>2 DEF Sound, RoomSound, Left, Journal
<1>5. /\ Left(room)' = at.remaining - 1 /\ turns' = turns + 1
      /\ \A other \in Rooms : other # room => Left(other)' = Left(other)
    BY <1>1, <1>3, QueuedLeft
<1>6. /\ Left(room)' < Left(room)
      /\ \A other \in Rooms : other # room => Left(other)' <= Left(other)
    BY <1>3, <1>4, <1>5, LeftTyped
<1> QED
    BY <1>5, <1>6, OneTaken DEF GoingOn

\* No other step leaves a room more turns than it had.
LEMMA OthersPay ==
    ASSUME RoomsTyped, Sound, RoomsTyped',
           \/ Quiet \/ Sending \/ Parking \/ Retrying
           \/ \E room \in Rooms :
                \/ Stopping(room) \/ Halted(room) \/ Archiving(room) \/ Capturing(room)
                \/ Replaying(room) \/ Beginning(room)
    PROVE  \A room \in Rooms : Left(room)' <= Left(room)
<1>1. \A room \in Rooms :
        /\ relay[room].remaining \in Nat
        /\ journal[room] # Null => journal[room].remaining \in Nat
    BY EntryTyped DEF Journal
<1>2. CASE Quiet
    BY <1>1, <1>2 DEF Quiet, Left
<1>3. ASSUME NEW room \in Rooms, journal' = JournalDispatched(room), UNCHANGED relay
      PROVE  \A other \in Rooms : Left(other)' <= Left(other)
    <2>1. \A other \in Rooms :
            /\ journal'[other] = Null <=> journal[other] = Null
            /\ journal[other] # Null => \A f \in {"remaining"} : journal'[other][f] = journal[other][f]
        BY <1>3, MarkedEntry
    <2>2. \A other \in Rooms :
             journal[other] # Null => journal'[other].remaining = journal[other].remaining
        BY <2>1
    <2> QED
        BY <1>1, <1>3, <2>1, <2>2 DEF Left
<1>4. CASE Sending
    BY <1>3, <1>4, EntryTyped DEF Sending, Current
<1>5. CASE \E room \in Rooms : Capturing(room)
    BY <1>3, <1>5 DEF Capturing
<1>6. CASE Parking
    <2>1. current.room \in Rooms
        BY <1>6, EntryTyped DEF Parking, Current
    <2> PICK room \in Rooms : room = current.room
        BY <2>1
    <2>2. PICK at : at \in {journal, JournalDispatched(room)} /\ Park(at)
        BY <1>6 DEF Parking
    <2>3. \A other \in Rooms :
            /\ at[other] = Null <=> journal[other] = Null
            /\ journal[other] # Null => /\ at[other] \in Journal
                                        /\ at[other].remaining = journal[other].remaining
        <3>1. CASE at = journal
            BY <3>1, EntryTyped
        <3>2. CASE at = JournalDispatched(room)
            <4>1. \A other \in Rooms :
                    /\ at[other] = Null <=> journal[other] = Null
                    /\ journal[other] # Null =>
                          /\ at[other] \in Journal
                          /\ \A f \in {"remaining"} : at[other][f] = journal[other][f]
                BY <3>2, MarkedEntry
            <4> QED
                BY <4>1
        <3> QED
            BY <2>2, <3>1, <3>2
    <2>4. at \in [Rooms -> Bounded(Journal)]
        BY <2>2, JournalDispatchedTyped DEF RoomsTyped
    <2>5. journal[room] # Null
        BY <1>6 DEF Parking, Sound, Turning, Live
    <2>6. /\ journal' = [at EXCEPT ![room] = [at[room] EXCEPT !.interrupted = TRUE]]
          /\ relay' = [relay EXCEPT ![room] = Off]
        BY <2>2, <2>3, <2>5 DEF Park
    <2>7. Left(room)' <= Left(room)
        <3>1. journal'[room] = [at[room] EXCEPT !.interrupted = TRUE] /\ relay'[room] = Off
            BY <2>4, <2>6 DEF RoomsTyped
        <3>2. journal'[room].remaining = journal[room].remaining
            BY <2>3, <2>5, <3>1 DEF Journal
        <3>3. relay'[room].remaining = 0
            BY <3>1 DEF Off
        <3> QED
            BY <1>1, <2>5, <3>2, <3>3 DEF Left
    <2>8. \A other \in Rooms : other # room => Left(other)' <= Left(other)
        <3>1. \A other \in Rooms : other # room =>
                 journal'[other] = at[other] /\ relay'[other] = relay[other]
            BY <2>4, <2>6 DEF RoomsTyped
        <3> QED
            BY <1>1, <2>3, <3>1 DEF Left
    <2> QED
        BY <2>7, <2>8
<1>7. CASE Retrying
    <2>1. current.room \in Rooms
        BY <1>7, EntryTyped DEF Retrying, Current
    <2> PICK room \in Rooms : room = current.room
        BY <2>1
    <2>2. \A other \in Rooms :
            /\ relay'[other] = relay[other]
            /\ journal'[other] = IF other = room THEN Null ELSE journal[other]
        BY <1>7 DEF Retrying, RoomsTyped
    <2> QED
        BY <1>1, <2>2 DEF Left, Sound, RoomSound
<1>8. ASSUME NEW room \in Rooms,
             \/ Stopping(room) \/ Halted(room) \/ Archiving(room) \/ Replaying(room)
             \/ Beginning(room)
      PROVE  \A other \in Rooms : Left(other)' <= Left(other)
    <2>1. \A other \in Rooms : other # room =>
             journal'[other] = journal[other] /\ relay'[other] = relay[other]
        <3>1. CASE Stopping(room) \/ Archiving(room) \/ Replaying(room)
            BY <3>1 DEF Stopping, SetStopped, Archiving, Replaying, RoomsTyped
        <3>2. CASE Halted(room)
            BY <3>2 DEF Halted, RoomsTyped
        <3>3. CASE Beginning(room)
            BY <3>3 DEF Beginning, NewTurn, RoomsTyped
        <3> QED
            BY <1>8, <3>1, <3>2, <3>3
    <2>2. CASE Stopping(room)
        <3>1. journal'[room] = Null /\ relay'[room].remaining = 0
            BY <2>2 DEF Stopping, SetStopped, RoomsTyped, Off
        <3> QED
            BY <1>1, <2>1, <3>1 DEF Left
    <2>3. CASE Halted(room)
        <3>1. relay'[room].remaining = 0
            BY <2>3 DEF Halted, RoomsTyped, Off
        <3>2. journal'[room].remaining = 0
            <4>1. journal[room] \in Journal
                BY <2>3, EntryTyped DEF Halted
            <4>2. \/ journal'[room] = [journal[room] EXCEPT !.stop = TRUE, !.active = FALSE,
                                                            !.remaining = 0]
                  \/ journal'[room] = [journal[room] EXCEPT !.passive = TRUE, !.stop = TRUE,
                                                            !.active = FALSE, !.remaining = 0]
                BY <2>3 DEF Halted, RoomsTyped
            <4> QED
                BY <4>1, <4>2 DEF Journal
        <3> QED
            BY <1>1, <2>1, <3>1, <3>2 DEF Left
    <2>4. CASE Archiving(room)
        <3>1. /\ journal[room] # Null
              /\ relay'[room] = relay[room] /\ journal'[room] = Null
            BY <2>4 DEF Archiving, RoomsTyped
        <3> QED
            BY <1>1, <2>1, <3>1 DEF Left, Sound, RoomSound
    <2>5. CASE Replaying(room)
        <3>1. /\ journal[room] # Null /\ journal'[room] = Null
              /\ relay'[room].remaining = journal[room].remaining
            BY <2>5 DEF Replaying, Live, RoomsTyped
        <3> QED
            BY <1>1, <2>1, <3>1 DEF Left
    <2>6. CASE Beginning(room)
        <3>1. journal[room] = Null
            BY <2>6 DEF Beginning, NewTurn, Queued, Sound, RoomSound
        <3>2. journal'[room].remaining = relay[room].remaining
            BY <2>6 DEF Beginning, NewTurn, RoomsTyped
        <3>3. relay'[room].remaining \in {relay[room].remaining, 0}
            <4>1. CASE relay' = relay
                BY <4>1
            <4>2. CASE relay' = [relay EXCEPT ![room] = Off]
                BY <4>2 DEF RoomsTyped, Off
            <4> QED
                BY <2>6, <4>1, <4>2 DEF Beginning
        <3> QED
            BY <1>1, <2>1, <3>1, <3>2, <3>3 DEF Left
    <2> QED
        BY <1>8, <2>2, <2>3, <2>4, <2>5, <2>6
<1> QED
    BY <1>2, <1>4, <1>5, <1>6, <1>7, <1>8

LEMMA RoomStepPays ==
    ASSUME RoomsTyped, Sound, RoomsTyped', starts \in Nat, WithinBudget, RoomStep
    PROVE  WithinBudget'
<1>1. CASE \E room \in Rooms : Starting(room)
    BY <1>1, StartingPays
<1>2. CASE \E room \in Rooms : GoingOn(room)
    BY <1>2, GoingOnPays
<1>3. CASE \/ Quiet \/ Sending \/ Parking \/ Retrying
           \/ \E room \in Rooms :
                \/ Stopping(room) \/ Halted(room) \/ Archiving(room) \/ Capturing(room)
                \/ Replaying(room) \/ Beginning(room)
    <2>1. \A room \in Rooms : Left(room)' <= Left(room)
        BY <1>3, OthersPay
    <2>2. UNCHANGED <<turns, starts>>
        BY <1>3 DEF Quiet, Sending, Parking, Retrying, Stopping, Halted, Archiving, Capturing,
                    Replaying, Beginning
    <2> QED
        BY <2>1, <2>2, NoMoreLeft
<1> QED
    BY <1>1, <1>2, <1>3 DEF RoomStep

-----------------------------------------------------------------------------
(* The rest of the server's memory, the wires and the history.             *)

UnchangedMemory == UNCHANGED <<restoreTo, watches, receipts, ledger, worker, gates, locates, view>>
UnchangedWires == UNCHANGED <<wires, provider>>
UnchangedHistory == UNCHANGED <<turnOf, stops, replies, ids, starts>>

LEMMA HeadTail ==
    ASSUME NEW S, NEW s \in Seq(S), s # <<>>
    PROVE  Head(s) \in S /\ Tail(s) \in Seq(S)
OBVIOUS

LEMMA MemoryKept == MemoryTyped /\ UnchangedMemory => MemoryTyped'
BY DEF MemoryTyped, UnchangedMemory

LEMMA WiresKept == WiresTyped /\ UnchangedWires => WiresTyped'
BY DEF WiresTyped, UnchangedWires, wires, provider

LEMMA HistoryKept == HistoryTyped /\ UnchangedHistory => HistoryTyped'
BY DEF HistoryTyped, UnchangedHistory, stops

OthersTyped == MemoryTyped /\ WiresTyped /\ HistoryTyped

LEMMA UserTypes ==
    ASSUME Typed, User
    PROVE  OthersTyped'
<1> PICK room \in Rooms : StartRelay(room) \/ StopInFlight(room) \/ StopRelay(room)
    BY DEF User
<1>1. MemoryTyped'
    BY MemoryKept DEF Typed, UnchangedMemory, StartRelay, StopInFlight, StopRelay, awaits
<1>2. WiresTyped'
    BY WiresKept DEF Typed, UnchangedWires, StartRelay, StopInFlight, StopRelay
<1>3. HistoryTyped'
    <2>1. current # Null => current.request \in Requests
        BY EntryTyped DEF Typed, Current
    <2> QED
        BY <2>1 DEF Typed, HistoryTyped, StartRelay, StopInFlight, StopRelay, counters, Running
<1> QED
    BY <1>1, <1>2, <1>3 DEF OthersTyped

LEMMA ResumeTypes ==
    ASSUME Typed,
           \/ ProcessBusy \/ WorkerStale
           \/ \E room \in Rooms : \/ Archive(room) \/ ResumeCapture(room) \/ ResumeReplay(room)
                                  \/ ResumeUncertain(room) \/ ResumeUnsupported(room)
                                  \/ WatchExpires(room) \/ Expire(room)
    PROVE  OthersTyped'
<1>1. CASE ProcessBusy \/ WorkerStale
    <2>1. MemoryTyped'
        BY <1>1 DEF Typed, MemoryTyped, ProcessBusy, WorkerStale, snapshot, awaits, Bounded
    <2>2. WiresTyped' /\ HistoryTyped'
        BY <1>1, WiresKept, HistoryKept
           DEF Typed, UnchangedWires, UnchangedHistory, ProcessBusy, WorkerStale, history, counters
    <2> QED
        BY <2>1, <2>2 DEF OthersTyped
<1>2. CASE \E room \in Rooms : ResumeCapture(room)
    <2> PICK room \in Rooms : ResumeCapture(room)
        BY <1>2
    <2>1. journal[room] \in Journal
        BY EntryTyped DEF ResumeCapture, Resuming, Live, Typed
    <2>2. journal[room].request \in Requests /\ journal[room].member \in Members
        BY <2>1 DEF Journal
    <2>3. MemoryTyped'
        BY <2>2 DEF Typed, MemoryTyped, ResumeCapture, awaits, Bounded
    <2>4. toExt' \subseteq Commands
        <3>1. journal[room].member \notin LocalMembers =>
                 [type |-> "capture", request |-> journal[room].request, tab |-> journal[room].member]
                    \in Commands
            BY <2>2, ConstantFacts DEF Commands
        <3> QED
            BY <3>1 DEF ResumeCapture, Typed, WiresTyped
    <2>5. WiresTyped' /\ HistoryTyped'
        BY <2>4, HistoryKept
           DEF Typed, WiresTyped, UnchangedHistory, ResumeCapture, provider, history, counters
    <2> QED
        BY <2>3, <2>5 DEF OthersTyped
<1>3. CASE \E room \in Rooms : \/ Archive(room) \/ ResumeReplay(room) \/ ResumeUncertain(room)
                               \/ ResumeUnsupported(room) \/ WatchExpires(room) \/ Expire(room)
    <2> PICK room \in Rooms : \/ Archive(room) \/ ResumeReplay(room) \/ ResumeUncertain(room)
                              \/ ResumeUnsupported(room) \/ WatchExpires(room) \/ Expire(room)
        BY <1>3
    <2>1. WiresTyped' /\ HistoryTyped'
        BY WiresKept, HistoryKept
           DEF Typed, UnchangedWires, UnchangedHistory, Archive, ResumeReplay, ResumeUncertain,
               ResumeUnsupported, WatchExpires, Expire, history, counters
    <2>2. CASE ResumeReplay(room) \/ ResumeUncertain(room) \/ ResumeUnsupported(room)
        BY <2>1, <2>2, MemoryKept
           DEF Typed, UnchangedMemory, ResumeReplay, ResumeUncertain, ResumeUnsupported, awaits,
               OthersTyped
    <2>3. CASE Archive(room)
        <3>1. journal[room].request \in Requests
            BY <2>3, EntryTyped DEF Archive, Typed, Journal
        <3>2. MemoryTyped'
            BY <2>3, <3>1 DEF Typed, MemoryTyped, Archive, awaits
        <3> QED
            BY <2>1, <3>2 DEF OthersTyped
    <2>4. CASE WatchExpires(room)
        <3>1. MemoryTyped'
            BY <2>4 DEF Typed, MemoryTyped, WatchExpires, awaits
        <3> QED
            BY <2>1, <3>1 DEF OthersTyped
    <2>5. CASE Expire(room)
        <3>1. MemoryTyped'
            BY <2>5 DEF Typed, MemoryTyped, Expire, awaits, Bounded
        <3> QED
            BY <2>1, <3>1 DEF OthersTyped
    <2> QED
        BY <2>2, <2>3, <2>4, <2>5
<1> QED
    BY <1>1, <1>2, <1>3

LEMMA NewTurnTypes ==
    ASSUME Typed, NEW room \in Rooms, ids < MaxRequests, ids' = ids + 1, pending[room] # Null,
           turnOf' = [turnOf EXCEPT ![ids'] =
              [room |-> room, member |-> pending[room].member, turn |-> pending[room].turn]],
           UNCHANGED <<stops, replies, starts>>
    PROVE  HistoryTyped' /\ ids' \in Requests /\ pending[room].member \in Members
<1>1. ids' \in Requests /\ ids' \in 0 .. MaxRequests
    BY ConstantFacts DEF Typed, HistoryTyped, Requests
<1>2. pending[room] \in Turn
    BY EntryTyped DEF Typed
<1>3. [room |-> room, member |-> pending[room].member, turn |-> pending[room].turn] \in Named
    BY <1>2 DEF Turn, Named
<1> QED
    BY <1>1, <1>2, <1>3 DEF Typed, HistoryTyped, Turn, stops, Bounded

LEMMA BeginTypes ==
    ASSUME Typed, NEW room \in Rooms,
           \/ StartLocal(room) \/ StartSelected(room) \/ StartSelecting(room)
           \/ StartOffline(room) \/ StartRefused(room)
    PROVE  OthersTyped'
<1>0. HistoryTyped' /\ ids' \in Requests /\ pending[room].member \in Members
    <2>1. /\ ids < MaxRequests /\ ids' = ids + 1 /\ pending[room] # Null
          /\ turnOf' = [turnOf EXCEPT ![ids'] =
               [room |-> room, member |-> pending[room].member, turn |-> pending[room].turn]]
          /\ UNCHANGED <<stops, replies, starts>>
        BY DEF StartLocal, StartSelected, StartSelecting, StartOffline, StartRefused, Begin,
               NewTurn, Queued
    <2> QED
        BY <2>1, NewTurnTypes
<1>1. CASE StartLocal(room)
    <2>1. current'.member = pending[room].member
        BY <1>1 DEF StartLocal, Begin
    <2>2. MemoryTyped'
        BY <1>0, <1>1, <2>1 DEF StartLocal, Typed, MemoryTyped
    <2>3. WiresTyped'
        BY <1>1, WiresKept DEF StartLocal, Typed, UnchangedWires
    <2> QED
        BY <1>0, <2>2, <2>3 DEF OthersTyped
<1>2. CASE StartSelected(room)
    <2>1. current'.member = pending[room].member
        BY <1>2 DEF StartSelected, Begin
    <2>2. PICK g : /\ g \in Gate
                   /\ gates' = Append(gates, g)
        BY <1>0, <1>2, <2>1 DEF StartSelected, Gate
    <2>3. MemoryTyped'
        BY <1>2, <2>2 DEF StartSelected, Typed, MemoryTyped
    <2>4. WiresTyped'
        BY <1>2, WiresKept DEF StartSelected, Typed, UnchangedWires
    <2> QED
        BY <1>0, <2>3, <2>4 DEF OthersTyped
<1>3. CASE StartSelecting(room)
    <2>1. current'.member = pending[room].member
        BY <1>3 DEF StartSelecting, Begin
    <2>2. MemoryTyped'
        BY <1>3 DEF StartSelecting, Typed, MemoryTyped, awaits, Bounded
    <2>3. [type |-> "select", request |-> ids', tab |-> pending[room].member] \in Commands
        BY <1>0, <1>3, <2>1, ConstantFacts DEF StartSelecting, Commands
    <2>4. WiresTyped'
        BY <1>3, <2>1, <2>3 DEF StartSelecting, Typed, WiresTyped, provider
    <2> QED
        BY <1>0, <2>2, <2>4 DEF OthersTyped
<1>4. CASE StartOffline(room) \/ StartRefused(room)
    BY <1>0, <1>4, MemoryKept, WiresKept
       DEF StartOffline, StartRefused, Typed, UnchangedMemory, UnchangedWires, awaits, OthersTyped
<1> QED
    BY <1>1, <1>2, <1>3, <1>4

LEMMA RestTypes ==
    ASSUME Typed, Rest
    PROVE  OthersTyped'
<1>1. MemoryTyped' /\ toExt' \subseteq Commands
    <2>1. CASE UNCHANGED <<restoreTo, toExt>>
        BY <2>1 DEF Rest, Typed, MemoryTyped, WiresTyped, awaits
    <2>2. CASE ~UNCHANGED <<restoreTo, toExt>>
        <3>1. PICK room \in Rooms :
                /\ restoreTo[room] # Null
                /\ restoreTo' = [restoreTo EXCEPT ![room] = Null]
                /\ toExt' = IF extUp
                            THEN toExt \cup {[type |-> "select", request |-> Null,
                                              tab |-> restoreTo[room]]}
                            ELSE toExt
            BY <2>2 DEF Rest
        <3>2. restoreTo[room] \in Tabs
            BY <3>1 DEF Typed, MemoryTyped, Bounded
        <3>3. [type |-> "select", request |-> Null, tab |-> restoreTo[room]] \in Commands
            BY <3>2 DEF Commands
        <3> QED
            BY <3>1, <3>3 DEF Rest, Typed, MemoryTyped, WiresTyped, awaits, Bounded
    <2> QED
        BY <2>1, <2>2
<1>2. WiresTyped' /\ HistoryTyped'
    BY <1>1, HistoryKept
       DEF Rest, Typed, WiresTyped, UnchangedHistory, provider, history, counters
<1> QED
    BY <1>1, <1>2 DEF OthersTyped

LEMMA ContinueTypes ==
    ASSUME Typed, \/ AppendDone \/ AppendFails \/ Timeout
                  \/ \E l \in locates : LocateDone(l) \/ LocateFails(l)
    PROVE  OthersTyped'
<1>0. /\ gates # <<>> => /\ Tail(gates) \in Seq(Gate) /\ Head(gates) \in Gate
                         /\ Head(gates).request \in Requests /\ Head(gates).target \in Members
      /\ current # Null => current.request \in Requests /\ current \in Current
    <2>1. gates # <<>> => Head(gates) \in Gate /\ Tail(gates) \in Seq(Gate)
        BY HeadTail DEF Typed, MemoryTyped
    <2>2. current # Null => current.request \in Requests /\ current \in Current
        BY EntryTyped DEF Typed, Current
    <2> QED
        BY <2>1, <2>2 DEF Gate
<1>1. CASE AppendDone
    <2>1. MemoryTyped'
        BY <1>0, <1>1 DEF AppendDone, Typed, MemoryTyped
    <2>2. toExt' \subseteq Commands
          /\ toLocal' \subseteq [request : Requests, target : Members, received : BOOLEAN]
        <3>1. UNCHANGED <<toExt, toLocal>> \/ (current # Null /\ Sent(Head(gates)))
            BY <1>1 DEF AppendDone
        <3>2. CASE UNCHANGED <<toExt, toLocal>>
            BY <3>2 DEF Typed, WiresTyped
        <3>3. CASE current # Null /\ Sent(Head(gates))
            <4>1. [type |-> "prompt", request |-> current.request] \in Commands
                BY <1>0, <3>3 DEF Commands
            <4>2. [request |-> Head(gates).request, target |-> Head(gates).target,
                   received |-> FALSE]
                     \in [request : Requests, target : Members, received : BOOLEAN]
                BY <1>0, <1>1 DEF AppendDone
            <4>3. toExt' \subseteq toExt \cup {[type |-> "prompt", request |-> current.request]}
                BY <3>3 DEF Sent
            <4>4. toLocal' \subseteq toLocal \cup {[request |-> Head(gates).request,
                                         target |-> Head(gates).target, received |-> FALSE]}
                BY <3>3 DEF Sent
            <4> QED
                BY <4>1, <4>2, <4>3, <4>4 DEF Typed, WiresTyped
        <3> QED
            BY <3>1, <3>2, <3>3
    <2>3. WiresTyped' /\ HistoryTyped'
        BY <1>1, <2>2, HistoryKept
           DEF AppendDone, Typed, WiresTyped, UnchangedHistory, provider, history, counters
    <2> QED
        BY <2>1, <2>3 DEF OthersTyped
<1>2. CASE AppendFails
    <2>1. MemoryTyped'
        BY <1>0, <1>2 DEF AppendFails, Typed, MemoryTyped
    <2>2. WiresTyped' /\ HistoryTyped'
        BY <1>2, WiresKept, HistoryKept
           DEF AppendFails, Typed, UnchangedWires, UnchangedHistory, history
    <2> QED
        BY <2>1, <2>2 DEF OthersTyped
<1>3. CASE Timeout
    BY <1>3, MemoryKept, WiresKept, HistoryKept
       DEF Timeout, Typed, UnchangedMemory, UnchangedWires, UnchangedHistory, awaits, history,
           counters, OthersTyped
<1>4. CASE \E l \in locates : LocateDone(l)
    <2> PICK l \in locates : LocateDone(l)
        BY <1>4
    <2>1. l \in [request : Requests, target : Members]
        BY DEF Typed, MemoryTyped
    <2>2. gates' \in Seq(Gate)
        <3>1. CASE gates' = gates
            BY <3>1 DEF Typed, MemoryTyped
        <3>2. CASE gates' # gates
            <4>1. current # Null /\ gates' = Append(gates, [request |-> current.request,
                                       target |-> l.target, via |-> "direct"])
                BY <3>2 DEF LocateDone
            <4>2. [request |-> current.request, target |-> l.target, via |-> "direct"]
                     \in Gate
                BY <1>0, <2>1, <4>1 DEF Gate
            <4> QED
                BY <4>1, <4>2 DEF Typed, MemoryTyped
        <3> QED
            BY <3>1, <3>2
    <2>3. MemoryTyped'
        BY <2>2 DEF LocateDone, Typed, MemoryTyped
    <2>4. WiresTyped' /\ HistoryTyped'
        BY WiresKept, HistoryKept
           DEF LocateDone, Typed, UnchangedWires, UnchangedHistory, history, counters
    <2> QED
        BY <2>3, <2>4 DEF OthersTyped
<1>5. CASE \E l \in locates : LocateFails(l)
    <2> PICK l \in locates : LocateFails(l)
        BY <1>5
    <2>1. MemoryTyped'
        BY DEF LocateFails, Typed, MemoryTyped
    <2>2. WiresTyped' /\ HistoryTyped'
        BY WiresKept, HistoryKept
           DEF LocateFails, Typed, UnchangedWires, UnchangedHistory, history
    <2> QED
        BY <2>1, <2>2 DEF OthersTyped
<1> QED
    BY <1>1, <1>2, <1>3, <1>4, <1>5

\* Removing an event, or adding one, keeps the wires well formed.
LEMMA CommandTypes ==
    ASSUME Typed, NEW c \in toExt
    PROVE  /\ c.type = "prompt" => c.request \in Requests
           /\ c.type \in {"select", "capture"} => c.tab \in Tabs
           /\ c.type = "select" => c.request \in Requests \cup {Null}
           /\ c.type = "capture" => c.request \in Requests
           /\ c.type \in {"select", "prompt", "capture"}
BY DEF Typed, WiresTyped, Commands

LEMMA DeliveredTypes ==
    ASSUME Typed, NEW r \in Requests, NEW tab \in Targets
    PROVE  [delivered EXCEPT ![r] = Append(@, tab)] \in [Requests -> Seq(Targets)]
<1>1. Append(delivered[r], tab) \in Seq(Targets)
    BY DEF Typed, WiresTyped
<1> QED
    BY <1>1 DEF Typed, WiresTyped

LEMMA ReachTypes ==
    ASSUME Typed, Reach
    PROVE  OthersTyped'
<1>1. CASE \E c \in toExt : ExtSelect(c)
    <2> PICK c \in toExt : ExtSelect(c)
        BY <1>1
    <2>1. [type |-> "selected", request |-> c.request, tab |-> c.tab] \in Events
        BY CommandTypes DEF ExtSelect, Events
    <2>2. WiresTyped'
        BY <2>1, CommandTypes DEF ExtSelect, Typed, WiresTyped, provider
    <2> QED
        BY <2>2, MemoryKept, HistoryKept
           DEF ExtSelect, Typed, UnchangedMemory, UnchangedHistory, snapshot, awaits, history,
               counters, OthersTyped
<1>2. CASE \E c \in toExt : ExtPrompt(c)
    <2> PICK c \in toExt : ExtPrompt(c)
        BY <1>2
    <2>1. delivered' \in [Requests -> Seq(Targets)]
        <3>1. c.request \in Requests /\ extTab \in Targets
            BY CommandTypes, ConstantFacts DEF ExtPrompt, Typed, WiresTyped
        <3> QED
            BY <3>1, DeliveredTypes DEF ExtPrompt
    <2>2. WiresTyped'
        BY <2>1 DEF ExtPrompt, Typed, WiresTyped
    <2> QED
        BY <2>2, MemoryKept, HistoryKept
           DEF ExtPrompt, Typed, UnchangedMemory, UnchangedHistory, snapshot, awaits, history,
               counters, OthersTyped
<1>3. CASE \E c \in toExt : ExtCapture(c)
    <2> PICK c \in toExt : ExtCapture(c)
        BY <1>3
    <2>1. PICK found \in BOOLEAN :
            fromExt' = IF extUp
                       THEN fromExt \cup {[type |-> "captured", request |-> c.request,
                                           tab |-> c.tab, found |-> found]}
                       ELSE fromExt
        BY DEF ExtCapture
    <2>2. [type |-> "captured", request |-> c.request, tab |-> c.tab, found |-> found] \in Events
        BY CommandTypes DEF ExtCapture, Events
    <2>3. WiresTyped'
        BY <2>1, <2>2, CommandTypes DEF ExtCapture, Typed, WiresTyped, provider
    <2> QED
        BY <2>3, MemoryKept, HistoryKept
           DEF ExtCapture, Typed, UnchangedMemory, UnchangedHistory, snapshot, awaits, history,
               counters, OthersTyped
<1>4. CASE \E c \in toLocal : LocalReceives(c)
    <2> PICK c \in toLocal : LocalReceives(c)
        BY <1>4
    <2>1. c \in [request : Requests, target : Members, received : BOOLEAN]
        BY DEF Typed, WiresTyped
    <2>2. [c EXCEPT !.received = TRUE] \in [request : Requests, target : Members, received : BOOLEAN]
        BY <2>1
    <2>3. delivered' \in [Requests -> Seq(Targets)]
        <3>1. c.request \in Requests /\ c.target \in Targets
            BY <2>1, ConstantFacts
        <3> QED
            BY <3>1, DeliveredTypes DEF LocalReceives
    <2>4. WiresTyped'
        BY <2>2, <2>3 DEF LocalReceives, Typed, WiresTyped
    <2> QED
        BY <2>4, MemoryKept, HistoryKept
           DEF LocalReceives, Typed, UnchangedMemory, UnchangedHistory, snapshot, awaits, history,
               counters, OthersTyped
<1> QED
    BY <1>1, <1>2, <1>3, <1>4 DEF Reach

LEMMA EnvironmentTypes ==
    ASSUME Typed, Environment
    PROVE  OthersTyped'
<1>1. HistoryTyped'
    BY HistoryKept
       DEF Environment, ProviderAnswers, LocalAnswers, ExtPublishes, Typed, UnchangedHistory,
           history, counters
<1>2. CASE \E r \in Requests : ProviderAnswers(r)
    <2>1. WiresTyped' /\ MemoryTyped'
        BY <1>2, MemoryKept
           DEF ProviderAnswers, Typed, WiresTyped, UnchangedMemory, snapshot, awaits
    <2> QED
        BY <1>1, <2>1 DEF OthersTyped
<1>3. CASE \E r \in Requests : LocalAnswers(r)
    <2> PICK r \in Requests : LocalAnswers(r)
        BY <1>3
    <2>1. [type |-> "final", request |-> r] \in LocalEvents
        BY DEF LocalEvents
    <2>2. WiresTyped' /\ MemoryTyped'
        BY <2>1, MemoryKept
           DEF LocalAnswers, Typed, WiresTyped, UnchangedMemory, snapshot, awaits
    <2> QED
        BY <1>1, <2>2 DEF OthersTyped
<1>4. CASE ExtPublishes
    <2>1. WiresTyped' /\ MemoryTyped'
        BY <1>4 DEF ExtPublishes, Typed, WiresTyped, MemoryTyped, provider, snapshot, awaits, Bounded
    <2> QED
        BY <1>1, <2>1 DEF OthersTyped
<1> QED
    BY <1>2, <1>3, <1>4 DEF Environment

LEMMA FailureTypes ==
    ASSUME Typed,
           \/ StateChanged \/ ExtDrops \/ Crash
           \/ \E c \in toExt : ExtFails(c)
           \/ \E r \in Requests : ProviderFails(r)
           \/ \E c \in toLocal : LocalFails(c)
    PROVE  OthersTyped'
<1>1. HistoryTyped'
    BY HistoryKept
       DEF StateChanged, ExtDrops, Crash, ExtFails, ProviderFails, LocalFails, Typed,
           UnchangedHistory, history
<1>2. CASE StateChanged
    BY <1>1, <1>2, MemoryKept, WiresKept
       DEF StateChanged, Typed, UnchangedMemory, UnchangedWires, snapshot, awaits, OthersTyped
<1>3. CASE ExtDrops
    <2>1. WiresTyped' /\ MemoryTyped'
        BY <1>3 DEF ExtDrops, Typed, WiresTyped, MemoryTyped, provider, awaits, Bounded
    <2> QED
        BY <1>1, <2>1 DEF OthersTyped
<1>4. CASE Crash
    <2>1. PICK n \in 0 .. Len(gates) : ledger' = ledger \cup {gates[i].request : i \in 1 .. n}
        BY <1>4 DEF Crash
    <2>2. \A i \in 1 .. n : gates[i].request \in Requests
        <3>1. \A i \in 1 .. Len(gates) : gates[i] \in Gate
            BY DEF Typed, MemoryTyped
        <3>2. \A i \in 1 .. n : i \in 1 .. Len(gates)
            BY DEF Typed, MemoryTyped
        <3> QED
            BY <3>1, <3>2 DEF Gate
    <2>3. ledger' \subseteq Requests
        BY <2>1, <2>2 DEF Typed, MemoryTyped
    <2>4. gates' \in Seq(Gate)
        BY <1>4 DEF Crash
    <2>5. WiresTyped' /\ MemoryTyped'
        BY <1>4, <2>3, <2>4
           DEF Crash, Typed, WiresTyped, MemoryTyped, provider, snapshot, Bounded
    <2> QED
        BY <1>1, <2>5 DEF OthersTyped
<1>5. CASE \E c \in toExt : ExtFails(c)
    <2> PICK c \in toExt : ExtFails(c)
        BY <1>5
    <2>1. delivered' \in [Requests -> Seq(Targets)]
        <3>1. CASE UNCHANGED delivered
            BY <3>1 DEF Typed, WiresTyped
        <3>2. CASE c.type = "prompt" /\ delivered' = [delivered EXCEPT ![c.request] = Append(@, extTab)]
            <4>1. c.request \in Requests /\ extTab \in Targets
                BY <3>2, CommandTypes, ConstantFacts DEF Typed, WiresTyped
            <4> QED
                BY <3>2, <4>1, DeliveredTypes
        <3> QED
            BY <3>1, <3>2 DEF ExtFails
    <2>2. fromExt' \subseteq Events
        <3>1. PICK kind \in {"recover", "stop"} :
                fromExt' = IF ~extUp \/ c.request = Null THEN fromExt
                     ELSE IF c.type = "capture"
                     THEN fromExt \cup {[type |-> "captured", request |-> c.request,
                                         tab |-> Null, found |-> FALSE]}
                     ELSE fromExt \cup {Failure(c.request, kind)}
            BY DEF ExtFails
        <3>2. c.request # Null => c.request \in Requests
            BY CommandTypes
        <3>3. c.request # Null =>
                 /\ Failure(c.request, kind) \in Events
                 /\ [type |-> "captured", request |-> c.request, tab |-> Null, found |-> FALSE]
                       \in Events
            BY <3>2 DEF Failure, Events, Errors
        <3> QED
            BY <3>1, <3>3 DEF Typed, WiresTyped
    <2>3. WiresTyped' /\ MemoryTyped'
        BY <2>1, <2>2, MemoryKept DEF ExtFails, Typed, WiresTyped, UnchangedMemory, snapshot, awaits
    <2> QED
        BY <1>1, <2>3 DEF OthersTyped
<1>6. CASE \E r \in Requests : ProviderFails(r)
    <2> PICK r \in Requests : ProviderFails(r)
        BY <1>6
    <2>1. \A kind \in {"recover", "stop"} : Failure(r, kind) \in Events
        BY DEF Failure, Events, Errors
    <2>2. WiresTyped' /\ MemoryTyped'
        BY <2>1, MemoryKept
           DEF ProviderFails, Typed, WiresTyped, UnchangedMemory, provider, snapshot, awaits
    <2> QED
        BY <1>1, <2>2 DEF OthersTyped
<1>7. CASE \E c \in toLocal : LocalFails(c)
    <2> PICK c \in toLocal : LocalFails(c)
        BY <1>7
    <2>1. \A kind \in {"retry", "recover", "stop"} : Failure(c.request, kind) \in LocalEvents
        BY DEF Failure, LocalEvents, Errors, Typed, WiresTyped
    <2>2. WiresTyped' /\ MemoryTyped'
        BY <2>1, MemoryKept
           DEF LocalFails, Typed, WiresTyped, UnchangedMemory, provider, snapshot, awaits
    <2> QED
        BY <1>1, <2>2 DEF OthersTyped
<1> QED
    BY <1>2, <1>3, <1>4, <1>5, <1>6, <1>7

LEMMA CommitTypes ==
    ASSUME Typed, NEW room \in Rooms, NEW r \in Requests, Commit(room, r)
    PROVE  receipts' \in [Rooms -> SUBSET Requests] /\ replies' \in [Requests -> Nat]
BY DEF Typed, MemoryTyped, HistoryTyped, Commit

LEMMA FinishTypes ==
    ASSUME Typed, NEW room \in Rooms, journal[room] # Null, FinishRecovered(room)
    PROVE  /\ receipts' \in [Rooms -> SUBSET Requests] /\ replies' \in [Requests -> Nat]
           /\ worker' = Null
<1>1. journal[room].request \in Requests
    BY EntryTyped DEF Typed, Journal
<1> QED
    BY <1>1, CommitTypes DEF FinishRecovered

LEMMA CaptureTypes ==
    ASSUME Typed, NEW found, worker # Null, Live(worker.room), CaptureReturns(found)
    PROVE  /\ receipts' \in [Rooms -> SUBSET Requests] /\ replies' \in [Requests -> Nat]
           /\ worker' = Null
<1>1. worker.room \in Rooms
    BY DEF Typed, MemoryTyped, Bounded
<1>2. CASE CaptureMissed
    BY <1>2 DEF CaptureMissed, Typed, MemoryTyped, HistoryTyped
<1>3. CASE FinishRecovered(worker.room)
    BY <1>1, <1>3, FinishTypes DEF Live
<1> QED
    BY <1>2, <1>3 DEF CaptureReturns

LEMMA FinalTypes ==
    ASSUME Typed, NEW r \in Requests, Final(r)
    PROVE  MemoryTyped' /\ HistoryTyped'
<1>1. /\ receipts' \in [Rooms -> SUBSET Requests] /\ replies' \in [Requests -> Nat]
      /\ worker' \in {worker, Null} /\ watches' \in [Rooms -> SUBSET Requests]
    <2>1. CASE \E room \in Rooms : LateFinal(r, room)
        BY <2>1, CommitTypes DEF LateFinal, Typed, MemoryTyped
    <2>2. CASE \E room \in Rooms : RecoveredFinal(r, room)
        BY <2>2, FinishTypes DEF RecoveredFinal, Recoverable, Typed, MemoryTyped
    <2>3. CASE CompletesTurn(r)
        <3>1. current.room \in Rooms
            BY <2>3, EntryTyped DEF CompletesTurn, IsCurrent, Typed, Current
        <3> QED
            BY <2>3, <3>1, CommitTypes DEF CompletesTurn, Typed, MemoryTyped
    <2>4. CASE NobodyWants(r)
        BY <2>4 DEF NobodyWants, Typed, MemoryTyped, HistoryTyped
    <2> QED
        BY <2>1, <2>2, <2>3, <2>4 DEF Final
<1>2. MemoryTyped'
    BY <1>1 DEF Final, Typed, MemoryTyped, awaits, Bounded
<1>3. HistoryTyped'
    BY <1>1 DEF Final, Typed, HistoryTyped, stops
<1> QED
    BY <1>2, <1>3

LEMMA RefusedTypes ==
    ASSUME Typed, NEW r \in Requests, RefusedFinal(r)
    PROVE  MemoryTyped' /\ HistoryTyped'
<1>1. worker' \in {worker, Null} \/ \E room \in Rooms : worker' = [room |-> room, request |-> r]
    BY DEF RefusedFinal, Rejects
<1>2. MemoryTyped'
    BY <1>1 DEF RefusedFinal, Bounded, Typed, MemoryTyped, snapshot, awaits
<1>3. HistoryTyped'
    BY DEF RefusedFinal, Typed, HistoryTyped, history, stops, Fault
<1> QED
    BY <1>2, <1>3

LEMMA DeliverTypes ==
    ASSUME Typed, Deliver
    PROVE  OthersTyped'
<1>1. CASE \E e \in fromExt : Selected(e)
    <2> PICK e \in fromExt : Selected(e)
        BY <1>1
    <2>1. e.tab \in Tabs
        BY DEF Selected, Typed, WiresTyped, Events, Errors
    <2>2. gates' \in Seq(Gate)
        <3>1. CASE gates' = gates
            BY <3>1 DEF Typed, MemoryTyped
        <3>2. CASE gates' # gates
            <4>1. /\ current # Null /\ current.request = e.request /\ e.tab = current.member
                  /\ gates' = Append(gates, [request |-> e.request, target |-> e.tab,
                                             via |-> "event"])
                BY <3>2 DEF Selected, IsCurrent
            <4>2. [request |-> e.request, target |-> e.tab, via |-> "event"] \in Gate
                BY <4>1, EntryTyped DEF Typed, Current, Gate
            <4> QED
                BY <4>1, <4>2 DEF Typed, MemoryTyped
        <3> QED
            BY <3>1, <3>2
    <2>3. MemoryTyped'
        BY <2>1, <2>2 DEF Selected, Typed, MemoryTyped, snapshot, Bounded
    <2>4. WiresTyped' /\ HistoryTyped'
        BY HistoryKept
           DEF Selected, ExtEvent, Typed, WiresTyped, UnchangedHistory, provider, history, counters
    <2> QED
        BY <2>3, <2>4 DEF OthersTyped
<1>2. CASE \E e \in fromExt : Captured(e)
    <2> PICK e \in fromExt : Captured(e)
        BY <1>2
    <2>1. e.tab \in Tabs \cup {Null}
        BY DEF Captured, Typed, WiresTyped, Events, Errors
    <2>2. /\ receipts' \in [Rooms -> SUBSET Requests] /\ replies' \in [Requests -> Nat]
          /\ worker' \in {worker, Null}
        <3>1. CASE worker # Null /\ Live(worker.room) /\ CaptureReturns(e.found)
            BY <3>1, CaptureTypes
        <3>2. CASE UNCHANGED <<relay, pending, journal, receipts, worker, awake, turns, replies>>
            BY <3>2 DEF Typed, MemoryTyped, HistoryTyped
        <3> QED
            BY <3>1, <3>2 DEF Captured
    <2>3. MemoryTyped'
        BY <2>1, <2>2 DEF Captured, Typed, MemoryTyped, awaits, Bounded
    <2>4. WiresTyped' /\ HistoryTyped'
        BY <2>2 DEF Captured, ExtEvent, Typed, WiresTyped, HistoryTyped, provider, stops, Fault
    <2> QED
        BY <2>3, <2>4 DEF OthersTyped
<1>3. CASE \E e \in fromExt \cup fromLocal : Errored(e)
    <2> PICK e \in fromExt \cup fromLocal : Errored(e)
        BY <1>3
    <2>1. MemoryTyped' /\ HistoryTyped'
        BY MemoryKept, HistoryKept
           DEF Errored, Typed, UnchangedMemory, UnchangedHistory, awaits, history, counters
    <2>2. WiresTyped'
        BY DEF Errored, ExtEvent, Typed, WiresTyped, provider
    <2> QED
        BY <2>1, <2>2 DEF OthersTyped
<1>4. CASE \E e \in fromLocal : LocalFinal(e)
    <2> PICK e \in fromLocal : LocalFinal(e)
        BY <1>4
    <2>1. e.request \in Requests
        BY DEF Typed, WiresTyped, LocalEvents, Errors
    <2>2. MemoryTyped' /\ HistoryTyped'
        BY <2>1, FinalTypes, RefusedTypes DEF LocalFinal
    <2>3. WiresTyped'
        BY DEF LocalFinal, Final, RefusedFinal, Typed, WiresTyped, provider
    <2> QED
        BY <2>2, <2>3 DEF OthersTyped
<1>5. CASE \E r \in Requests : OnlineFinal(r)
    <2> PICK r \in Requests : OnlineFinal(r)
        BY <1>5
    <2>1. MemoryTyped' /\ HistoryTyped'
        BY FinalTypes, RefusedTypes DEF OnlineFinal
    <2>2. WiresTyped'
        BY DEF OnlineFinal, Final, RefusedFinal, Typed, WiresTyped, provider
    <2> QED
        BY <2>1, <2>2 DEF OthersTyped
<1>6. CASE LocalCaptured
    <2>1. /\ receipts' \in [Rooms -> SUBSET Requests] /\ replies' \in [Requests -> Nat]
          /\ worker' = Null
        BY <1>6, CaptureTypes DEF LocalCaptured
    <2>2. MemoryTyped' /\ HistoryTyped'
        BY <1>6, <2>1 DEF LocalCaptured, Typed, MemoryTyped, HistoryTyped, awaits, stops, Bounded
    <2>3. WiresTyped'
        BY <1>6, WiresKept DEF LocalCaptured, Typed, UnchangedWires
    <2> QED
        BY <2>2, <2>3 DEF OthersTyped
<1> QED
    BY <1>1, <1>2, <1>3, <1>4, <1>5, <1>6 DEF Deliver

LEMMA StepTypes ==
    ASSUME Typed, Next
    PROVE  OthersTyped'
<1>1. CASE Process
    BY <1>1, ResumeTypes, RestTypes, BeginTypes DEF Process
<1>2. CASE Failures
    BY <1>2, ContinueTypes, BeginTypes, FailureTypes DEF Failures
<1>3. CASE Continue \/ Timeout
    BY <1>3, ContinueTypes DEF Continue
<1>4. CASE \E room \in Rooms : WatchExpires(room) \/ Expire(room)
    BY <1>4, ResumeTypes
<1> QED
    BY <1>1, <1>2, <1>3, <1>4, UserTypes, ReachTypes, DeliverTypes, EnvironmentTypes DEF Next

-----------------------------------------------------------------------------
(* The invariant, and what follows from it.                                *)

LEMMA Initial == Init => IInv
<1> SUFFICES ASSUME Init PROVE IInv
    OBVIOUS
<1>1. RoomsTyped
    BY OffTyped DEF Init, RoomsTyped, Bounded
<1>2. MemoryTyped /\ WiresTyped
    <2>1. UserTab \in Tabs
        BY DEF Tabs
    <2> QED
        BY <2>1 DEF Init, MemoryTyped, WiresTyped, Bounded
<1>3. HistoryTyped
    BY ConstantFacts DEF Init, HistoryTyped, Bounded
<1>4. (\A room \in Rooms : RoomSound(room)) /\ Turning
    BY DEF Init, RoomSound, Turning, Live
<1>5. WithinBudget
    <2>1. \A room \in Rooms : Left(room) = 0
        BY DEF Init, Left, Off
    <2>2. Places = {}
        BY <2>1, PlaceFacts
    <2>3. starts * Budget = 0 /\ turns = 0
        BY ConstantFacts DEF Init
    <2> QED
        BY <2>2, <2>3, FS_EmptySet DEF WithinBudget
<1> QED
    BY <1>1, <1>2, <1>3, <1>4, <1>5 DEF IInv, Typed

LEMMA Inductive == IInv /\ [Next]_vars => IInv'
<1> SUFFICES ASSUME IInv, [Next]_vars PROVE IInv'
    OBVIOUS
<1>0. Typed /\ RoomsTyped /\ Sound /\ WithinBudget /\ ids \in Nat /\ starts \in Nat
    BY DEF IInv, Sound, Typed, HistoryTyped
<1>1. CASE Next
    <2>1. RoomStep
        BY <1>1, StepKind
    <2>2. RoomsTyped' /\ Sound'
        BY <1>0, <2>1, RoomStepKeeps
    <2>3. WithinBudget'
        BY <1>0, <2>1, <2>2, RoomStepPays
    <2>4. OthersTyped'
        BY <1>0, <1>1, StepTypes
    <2> QED
        BY <2>2, <2>3, <2>4 DEF IInv, Typed, Sound, OthersTyped
<1>2. CASE UNCHANGED vars
    <2>1. Quiet
        BY <1>2 DEF vars, snapshot, history, stops, counters, Quiet
    <2>2. RoomsTyped' /\ Sound'
        BY <1>0, <2>1, QuietKeeps
    <2>3. WithinBudget'
        BY <1>0, <2>1, <2>2, RoomStepPays DEF RoomStep
    <2>4. MemoryTyped' /\ WiresTyped' /\ HistoryTyped'
        BY <1>0, <1>2, MemoryKept, WiresKept, HistoryKept
           DEF Typed, UnchangedMemory, UnchangedWires, UnchangedHistory, vars, snapshot, awaits,
               history, counters
    <2> QED
        BY <2>2, <2>3, <2>4 DEF IInv, Typed, Sound
<1> QED
    BY <1>1, <1>2

THEOREM Invariance == Spec => []IInv
BY Initial, Inductive, PTL DEF Spec

\* The state of server, extension and wires is always well formed.
THEOREM TypeCorrect == Spec => []TypeOK
<1>1. IInv => TypeOK
    BY DEF IInv, Typed, RoomsTyped, MemoryTyped, WiresTyped, HistoryTyped, TypeOK, Gate
<1> QED
    BY <1>1, Invariance, PTL

\* One turn at a time over all rooms, and the turn being run is that of the one
\* live journal, with no other recovery under way.
THEOREM OneTurnAtATime == Spec => []OneTurn
<1>1. IInv => OneTurn
    <2> SUFFICES ASSUME IInv PROVE OneTurn
        OBVIOUS
    <2>1. current # Null => /\ worker # Null => ~Live(worker.room)
                            /\ Live(current.room)
                            /\ journal[current.room].request = current.request
        <3>1. /\ current # Null => current.room \in Rooms
              /\ worker # Null => worker.room \in Rooms
            BY DEF IInv, Typed, RoomsTyped, MemoryTyped, Bounded, Current
        <3> QED
            BY <3>1 DEF IInv, Turning
    <2> DEFINE S == {room \in Rooms : Live(room)}
    <2>2. Cardinality(S) <= 1
        <3>1. CASE S = {}
            BY <3>1, FS_EmptySet
        <3>2. CASE S # {}
            <4>1. PICK a \in S : TRUE
                BY <3>2
            <4>2. S = {a}
                BY <4>1 DEF IInv, Turning
            <4> HIDE DEF S
            <4>3. Cardinality(S) = 1
                BY <4>2, FS_Singleton
            <4> QED
                BY <4>3
        <3> QED
            BY <3>1, <3>2
    <2> QED
        BY <2>1, <2>2 DEF OneTurn
<1> QED
    BY <1>1, Invariance, PTL

\* However often turns are retried, recovered, replayed or cut off by a restart,
\* no more are taken than the started relays were given.
THEOREM BudgetIsKept == Spec => []BudgetKept
<1>1. IInv => BudgetKept
    <2> SUFFICES ASSUME IInv PROVE BudgetKept
        OBVIOUS
    <2>1. Cardinality(Places) \in Nat /\ Cardinality(Places) + turns <= starts * Budget
        BY FS_CardinalityType DEF IInv, WithinBudget
    <2>2. turns \in Nat /\ starts * Budget \in Nat
        BY ConstantFacts DEF IInv, Typed, RoomsTyped, HistoryTyped
    <2> QED
        BY <2>1, <2>2 DEF BudgetKept
<1> QED
    BY <1>1, Invariance, PTL
=============================================================================
