------------------------- MODULE DexDispatch_proofs -------------------------
(***************************************************************************)
(* What the relay runtime keeps of its prompts and replies as long as no   *)
(* Stop and no disconnect hits an open await (~InterruptAwaits).           *)
(***************************************************************************)
EXTENDS DexScheduler_proofs

-----------------------------------------------------------------------------
(* The inductive invariant: for every request, what the ledger, the        *)
(* journals, the open awaits and the messages say of it agree.             *)

Journaled(room) == journal[room] # Null

TurnOfJournal(room) ==
    [room |-> room, member |-> journal[room].member, turn |-> journal[room].turn]

\* Every request belongs to a turn,
Known ==
    /\ \A r \in 1 .. ids : turnOf[r] \in Named /\ turnOf[r].turn <= turns
    /\ \A room \in Rooms : Journaled(room) =>
          journal[room].request <= ids /\ turnOf[journal[room].request] = TurnOfJournal(room)
    /\ \A room \in Rooms : pending[room] # Null => pending[room].turn <= turns
    /\ ledger \subseteq 1 .. ids

\* and no later one is heard of.
Heard ==
    /\ cancelled \subseteq 1 .. ids
    /\ \A room \in Rooms : watches[room] \subseteq 1 .. ids /\ receipts[room] \subseteq 1 .. ids
    /\ \A c \in toExt \cup fromExt : c.type # "prompt" /\ c.request # Null => c.request <= ids

\* An open await is the current turn's, of which nothing is out.
Awaiting ==
    /\ gates # <<>> =>
          /\ current # Null /\ current.phase # "waiting" /\ locates = {}
          /\ current.request \notin ledger
          /\ Len(gates) = 1 /\ gates[1].request = current.request
          /\ current.phase = "selecting" =>
                \A c \in toExt \cup fromExt :
                   c.type \in {"select", "selected"} => c.request # current.request
    /\ locates # {} =>
          /\ current # Null /\ current.phase = "ready"
          /\ current.request \notin ledger
          /\ current.member \in LocalMembers
          /\ locates = {[request |-> current.request, target |-> current.member]}

\* What is out about a request.
Out ==
    /\ \A c \in toExt : c.type = "prompt" => c.request \in ledger /\ delivered[c.request] = <<>>
    /\ \A c \in toLocal : /\ c.request \in ledger
                          /\ ~c.received => delivered[c.request] = <<>>
                          /\ \A d \in toLocal : c.request = d.request => c = d
                          /\ \A d \in toExt : d.type = "prompt" => c.request # d.request
    /\ \A r \in Requests : Len(delivered[r]) <= 1 /\ (delivered[r] # <<>> => r \in ledger)
    /\ outbox \subseteq ledger /\ answered \subseteq ledger
    /\ \A e \in fromExt : e.type = "captured" /\ e.found => e.request \in ledger
    /\ \A e \in fromLocal : e.request \in ledger
    /\ \A e \in fromExt : e.type = "error" =>
          e.request \in ledger \/ turnOf[e.request].member \notin LocalMembers
    /\ \A c \in toExt \cup fromExt : c.type \in {"select", "selected"} /\ c.request # Null =>
          turnOf[c.request].member = c.tab
    /\ \A c \in toExt, e \in fromExt :
          c.type = "select" /\ e.type = "selected" /\ c.request # Null => c.request # e.request

\* The journal knows of the dispatch what the ledger knows, and a stop that is
\* in it is final: the prompt of a live one is out.
MarkedRoom(room) ==
    Journaled(room) =>
        /\ journal[room].dispatched => journal[room].request \in ledger
        /\ journal[room].stop => ~journal[room].active /\ ~relay[room].active
        /\ journal[room].stop /\ ~journal[room].passive => journal[room].request \in ledger

Marked ==
    /\ current # Null =>
         /\ current.request \in ledger => journal[current.room].dispatched
         /\ current.phase = "waiting" <=> current.request \in ledger
    /\ \A room \in Rooms : MarkedRoom(room)

Single ==
    /\ \A r, s \in ledger : turnOf[r].turn = turnOf[s].turn => r = s
    /\ \A room \in Rooms : pending[room] # Null =>
          \A r \in ledger : turnOf[r].turn # pending[room].turn
    /\ \A room \in Rooms : Live(room) =>
          \A r \in ledger : turnOf[r].turn = journal[room].turn => r = journal[room].request
    /\ \A a, b \in Rooms : pending[a] # Null /\ pending[b] # Null
          /\ pending[a].turn = pending[b].turn => a = b
    /\ \A a, b \in Rooms : pending[a] # Null /\ Journaled(b) => pending[a].turn # journal[b].turn
    /\ \A a, b \in Rooms : Journaled(a) /\ Journaled(b) /\ journal[a].turn = journal[b].turn => a = b

Replied ==
    /\ \A r \in Requests : replies[r] <= 1 /\ (replies[r] > 0 => Receipted(r) /\ r \in ledger)
    /\ \A room \in Rooms : Journaled(room) =>
         /\ ~Receipted(journal[room].request)
         /\ \A other \in Rooms : journal[room].request \notin watches[other]

\* A stopped room runs what is out to its end, and nothing else.
HaltedRoom(room) ==
    room \in halted =>
        /\ pending[room] = Null /\ ~relay[room].active
        /\ Journaled(room) => journal[room].stop

Halting == \A room \in Rooms : HaltedRoom(room)

Unsent ==
    \A r \in cancelled : r \notin ledger /\ (current # Null => current.request # r)

DInv == Known /\ Heard /\ Awaiting /\ Out /\ Marked /\ Single /\ Replied /\ Halting /\ Unsent

-----------------------------------------------------------------------------
(* What becomes of a room's queued turn and of its journal in a step.      *)

SameTurn(room) ==
    /\ journal[room] # Null /\ journal'[room] # Null
    /\ journal'[room].request = journal[room].request
    /\ journal'[room].member = journal[room].member
    /\ journal'[room].turn = journal[room].turn
    /\ Live(room)' => Live(room)

Elsewhere(room) ==
    \A other \in Rooms : other # room =>
        UNCHANGED <<pending[other], journal[other], relay[other]>>

\* The queued turn, and the turn of the journal, go on or are gone.
Kept(room) ==
    /\ pending'[room] \in {Null, pending[room]}
    /\ \/ journal'[room] = Null
       \/ SameTurn(room)
    /\ UNCHANGED turns

\* The relay's next turn is queued.
Next1(room) ==
    /\ turns' = turns + 1 /\ journal'[room] = Null
    /\ pending'[room].turn = turns'

\* The turn of the journal is queued again: its request is not in the ledger.
Again(room) ==
    /\ Live(room) /\ journal[room].request \notin ledger /\ ledger' = ledger
    /\ journal'[room] = Null /\ pending'[room].turn = journal[room].turn
    /\ UNCHANGED turns

\* The queued turn gets a request and a journal.
Fresh(room) ==
    /\ pending[room] # Null /\ pending'[room] = Null
    /\ journal'[room] # Null /\ journal'[room].request = ids'
    /\ journal'[room].member = pending[room].member
    /\ journal'[room].turn = pending[room].turn
    /\ turnOf'[ids'] = TurnOfJournal(room)'
    /\ \A other \in Rooms : ~Live(other)
    /\ current = Null /\ ids' = ids + 1
    /\ UNCHANGED turns

Fate(room) ==
    /\ Elsewhere(room)
    /\ Kept(room) \/ Next1(room) \/ Again(room) \/ Fresh(room)

LEMMA MarkingFate ==
    ASSUME RoomsTyped, NEW room \in Rooms, journal' = JournalDispatched(room),
           UNCHANGED <<relay, pending, turns>>
    PROVE  Fate(room) \/ UNCHANGED <<pending, journal, relay, turns>>
<1>1. CASE journal[room] = Null
    BY <1>1 DEF JournalDispatched
<1>2. CASE journal[room] # Null
    <2>1. /\ journal'[room] # Null
          /\ \A f \in {"request", "member", "turn", "passive"} : journal'[room][f] = journal[room][f]
        BY <1>2, MarkedEntry
    <2>2. SameTurn(room)
        BY <1>2, <2>1 DEF SameTurn, Live
    <2>3. Elsewhere(room)
        BY <1>2 DEF JournalDispatched, RoomsTyped, Elsewhere
    <2> QED
        BY <2>2, <2>3 DEF Fate, Kept
<1> QED
    BY <1>1, <1>2

LEMMA QueuedFate ==
    ASSUME RoomsTyped, NEW room \in Rooms,
           NEW at \in [active : BOOLEAN, remaining : Nat], at.active, at.remaining # 0,
           EnqueueNext(room, at)
    PROVE  Fate(room)
<1>1. PICK m : /\ turns' = turns + 1 /\ journal' = [journal EXCEPT ![room] = Null]
               /\ relay' = [relay EXCEPT ![room] =
                      [active |-> TRUE, remaining |-> at.remaining - 1]]
               /\ pending' = [pending EXCEPT ![room] =
                      [member |-> m, turn |-> turns', retry |-> 0]]
    BY DEF EnqueueNext
<1>2. Elsewhere(room)
    BY <1>1 DEF RoomsTyped, Elsewhere
<1>3. Next1(room)
    BY <1>1 DEF RoomsTyped, Next1
<1> QED
    BY <1>2, <1>3 DEF Fate

LEMMA ParkFate ==
    ASSUME RoomsTyped, Sound, Parking
    PROVE  \E room \in Rooms : room = current.room /\ Fate(room)
<1>1. current # Null /\ current.room \in Rooms
    BY EntryTyped DEF Parking, Current
<1> PICK room \in Rooms : room = current.room
    BY <1>1
<1>2. PICK at : at \in {journal, JournalDispatched(room)} /\ Park(at)
    BY DEF Parking
<1>3. \A other \in Rooms :
        /\ at[other] = Null <=> journal[other] = Null
        /\ journal[other] # Null => /\ at[other] \in Journal
                                    /\ at[other].request = journal[other].request
                                    /\ at[other].member = journal[other].member
                                    /\ at[other].turn = journal[other].turn
                                    /\ at[other].passive = journal[other].passive
        /\ other # room => at[other] = journal[other]
    <2>1. CASE at = journal
        BY <2>1, EntryTyped
    <2>2. CASE at = JournalDispatched(room)
        <3>1. \A other \in Rooms :
                /\ at[other] = Null <=> journal[other] = Null
                /\ journal[other] # Null =>
                      /\ at[other] \in Journal
                      /\ \A f \in {"request", "member", "turn", "passive"} :
                            at[other][f] = journal[other][f]
            BY <2>2, MarkedEntry
        <3>2. \A other \in Rooms : other # room => at[other] = journal[other]
            BY <2>2 DEF JournalDispatched, RoomsTyped
        <3> QED
            BY <3>1, <3>2
    <2> QED
        BY <1>2, <2>1, <2>2
<1>4. at \in [Rooms -> Bounded(Journal)]
    BY <1>2, JournalDispatchedTyped DEF RoomsTyped
<1>5. journal[room] # Null
    BY <1>1 DEF Sound, Turning, Live
<1>6. /\ journal' = [at EXCEPT ![room] = [at[room] EXCEPT !.interrupted = TRUE]]
      /\ relay' = [relay EXCEPT ![room] = Off] /\ pending' = pending /\ turns' = turns
    BY <1>2, <1>3, <1>5 DEF Park, Parking
<1>7. Elsewhere(room)
    BY <1>3, <1>4, <1>6 DEF RoomsTyped, Elsewhere
<1>8. Kept(room)
    <2>1. journal'[room] = [at[room] EXCEPT !.interrupted = TRUE]
        BY <1>4, <1>6
    <2>2. /\ journal'[room] \in Journal
          /\ journal'[room].request = journal[room].request
          /\ journal'[room].member = journal[room].member
          /\ journal'[room].turn = journal[room].turn
          /\ journal'[room].passive = journal[room].passive
        <3>1. at[room] \in Journal
            BY <1>3, <1>5
        <3>2. /\ journal'[room] \in Journal
              /\ journal'[room].request = at[room].request
              /\ journal'[room].member = at[room].member
              /\ journal'[room].turn = at[room].turn
              /\ journal'[room].passive = at[room].passive
            BY <2>1, <3>1 DEF Journal
        <3> QED
            BY <1>3, <1>5, <3>2
    <2>3. journal'[room] # Null
        BY <2>2, ConstantFacts
    <2> QED
        BY <1>5, <1>6, <2>2, <2>3 DEF Kept, SameTurn, Live
<1> QED
    BY <1>7, <1>8 DEF Fate

LEMMA HaltedFate ==
    ASSUME RoomsTyped, NEW room \in Rooms, Halted(room)
    PROVE  /\ Fate(room) /\ journal'[room] # Null /\ journal'[room].stop
           /\ ~journal'[room].active
           /\ relay' = [relay EXCEPT ![room] = Off]
           /\ journal'[room].dispatched = journal[room].dispatched
           /\ journal'[room].request = journal[room].request
           /\ journal'[room].passive \/ InFlight(room)
<1>1. journal[room] \in Journal
    BY EntryTyped DEF Halted
<1>2. PICK passive \in BOOLEAN :
        /\ passive = FALSE => journal[room].passive = FALSE /\ InFlight(room)
        /\ journal' = [journal EXCEPT ![room] =
              [journal[room] EXCEPT !.passive = passive, !.stop = TRUE, !.active = FALSE,
                                    !.remaining = 0]]
    <2>1. CASE InFlight(room) /\ journal' = [journal EXCEPT ![room] =
              [@ EXCEPT !.stop = TRUE, !.active = FALSE, !.remaining = 0]]
        <3>1. [journal[room] EXCEPT !.stop = TRUE, !.active = FALSE, !.remaining = 0]
              = [journal[room] EXCEPT !.passive = journal[room].passive, !.stop = TRUE,
                                      !.active = FALSE, !.remaining = 0]
            BY <1>1 DEF Journal
        <3>2. journal[room].passive \in BOOLEAN
            BY <1>1 DEF Journal
        <3> QED
            BY <2>1, <3>1, <3>2
    <2>2. CASE journal' = [journal EXCEPT ![room] =
              [@ EXCEPT !.passive = TRUE, !.stop = TRUE, !.active = FALSE, !.remaining = 0]]
        BY <2>2
    <2> QED
        BY <2>1, <2>2 DEF Halted
<1>3. /\ journal'[room] \in Journal
      /\ journal'[room].request = journal[room].request
      /\ journal'[room].member = journal[room].member
      /\ journal'[room].turn = journal[room].turn
      /\ journal'[room].dispatched = journal[room].dispatched
      /\ journal'[room].stop /\ ~journal'[room].active
      /\ ~journal'[room].passive => ~journal[room].passive /\ InFlight(room)
    <2>1. journal'[room] = [journal[room] EXCEPT !.passive = passive, !.stop = TRUE,
                                                 !.active = FALSE, !.remaining = 0]
        BY <1>2 DEF RoomsTyped
    <2>2. /\ journal'[room] \in Journal
          /\ journal'[room].request = journal[room].request
          /\ journal'[room].member = journal[room].member
          /\ journal'[room].turn = journal[room].turn
          /\ journal'[room].dispatched = journal[room].dispatched
          /\ journal'[room].stop = TRUE /\ journal'[room].active = FALSE
          /\ journal'[room].passive = passive
        <3>1. journal'[room] \in Journal
            <4>1. [journal[room] EXCEPT !.passive = passive, !.stop = TRUE, !.active = FALSE,
                                        !.remaining = 0] \in Journal
                BY <1>1 DEF Journal
            <4> QED
                BY <2>1, <4>1
        <3>2. /\ journal'[room].request = journal[room].request
              /\ journal'[room].member = journal[room].member
              /\ journal'[room].turn = journal[room].turn
            BY <1>1, <2>1 DEF Journal
        <3>3. /\ journal'[room].dispatched = journal[room].dispatched
              /\ journal'[room].passive = passive
            BY <1>1, <2>1 DEF Journal
        <3>4. journal'[room].stop = TRUE /\ journal'[room].active = FALSE
            BY <1>1, <2>1 DEF Journal
        <3> QED
            BY <3>1, <3>2, <3>3, <3>4
    <2> QED
        BY <1>2, <2>2
<1>4. SameTurn(room)
    BY <1>3, ConstantFacts DEF SameTurn, Live, Halted
<1>5. /\ relay' = [relay EXCEPT ![room] = Off] /\ turns' = turns
      /\ pending' = pending \/ pending' = [pending EXCEPT ![room] = Null]
    BY DEF Halted
<1>6. Elsewhere(room)
    BY <1>2, <1>5 DEF RoomsTyped, Elsewhere
<1>7. pending'[room] \in {Null, pending[room]}
    BY <1>5 DEF RoomsTyped
<1> QED
    BY <1>3, <1>4, <1>5, <1>6, <1>7 DEF Fate, Kept, SameTurn

LEMMA BeginningFate ==
    ASSUME RoomsTyped, Sound, HistoryTyped, NEW room \in Rooms, Beginning(room)
    PROVE  Fate(room) /\ Fresh(room) /\ ids' \in Requests
<1>1. PICK interrupted \in BOOLEAN : NewTurn(room, interrupted)
    BY DEF Beginning
<1> PICK entry :
      entry = [request |-> ids', member |-> pending[room].member,
               turn |-> pending[room].turn, retry |-> pending[room].retry,
               dispatched |-> FALSE, interrupted |-> interrupted, passive |-> FALSE,
               stop |-> FALSE, active |-> relay[room].active,
               remaining |-> relay[room].remaining]
    OBVIOUS
<1>2. /\ ids' \in Requests /\ pending[room] \in Turn /\ entry \in Journal
      /\ journal' = [journal EXCEPT ![room] = entry]
      /\ pending' = [pending EXCEPT ![room] = Null]
      /\ current = Null /\ worker = Null /\ \A other \in Rooms : ~Live(other)
    BY <1>1, NewTurnFacts DEF HistoryTyped
<1>3. journal'[room] = entry /\ entry # Null /\ pending'[room] = Null
    BY <1>2, ConstantFacts DEF RoomsTyped
<1>4. turnOf'[ids'] = [room |-> room, member |-> pending[room].member, turn |-> pending[room].turn]
    BY <1>1, <1>2 DEF NewTurn, HistoryTyped
<1>5. turnOf'[ids'] = TurnOfJournal(room)'
    BY <1>3, <1>4 DEF TurnOfJournal
<1>6. relay' = relay \/ relay' = [relay EXCEPT ![room] = Off]
    BY DEF Beginning
<1>7. Elsewhere(room)
    BY <1>2, <1>6 DEF RoomsTyped, Elsewhere
<1>8. Fresh(room)
    BY <1>1, <1>2, <1>3, <1>5 DEF Fresh, NewTurn, Queued, Beginning
<1> QED
    BY <1>2, <1>7, <1>8 DEF Fate

\* Every step is somebody's fate, or nobody's.
LEMMA StepFate ==
    ASSUME RoomsTyped, Sound, HistoryTyped, Marked, RoomStep
    PROVE  \/ UNCHANGED <<pending, journal, relay, turns>>
           \/ \E room \in Rooms : Fate(room)
<1>1. CASE Quiet
    BY <1>1 DEF Quiet
<1>2. CASE Sending
    <2>1. current.room \in Rooms
        BY <1>2, EntryTyped DEF Sending, Current
    <2> PICK room \in Rooms : room = current.room
        BY <2>1
    <2> QED
        BY <1>2, MarkingFate DEF Sending
<1>3. CASE Parking
    BY <1>3, ParkFate
<1>4. CASE Retrying
    <2>1. /\ current \in Current /\ current # Null /\ current.room \in Rooms
        BY <1>4, EntryTyped DEF Retrying, Current
    <2> PICK room \in Rooms : room = current.room
        BY <2>1
    <2>2. /\ Live(room) /\ journal[room].request = current.request
          /\ journal[room].turn = current.turn /\ current.request \notin ledger
        BY <1>4, <2>1 DEF Sound, Turning, Live, Marked, Retrying
    <2>3. Again(room)
        BY <1>4, <2>2 DEF Again, Retrying, RoomsTyped
    <2>4. Elsewhere(room)
        BY <1>4 DEF Retrying, Elsewhere, RoomsTyped
    <2> QED
        BY <2>3, <2>4 DEF Fate
<1>5. ASSUME NEW room \in Rooms,
             \/ Starting(room) \/ Stopping(room) \/ GoingOn(room) \/ Halted(room)
             \/ Archiving(room) \/ Capturing(room) \/ Replaying(room) \/ Beginning(room)
      PROVE  Fate(room) \/ UNCHANGED <<pending, journal, relay, turns>>
    <2>1. CASE Starting(room)
        <3> PICK at : at = [active |-> TRUE, remaining |-> Budget]
            OBVIOUS
        <3>1. at \in [active : BOOLEAN, remaining : Nat] /\ at.active /\ at.remaining # 0
            BY ConstantFacts
        <3> QED
            BY <2>1, <3>1, QueuedFate DEF Starting
    <2>2. CASE Stopping(room)
        <3>1. Elsewhere(room) /\ Kept(room)
            BY <2>2 DEF Stopping, SetStopped, RoomsTyped, Elsewhere, Kept
        <3> QED
            BY <3>1 DEF Fate
    <2>3. CASE GoingOn(room)
        <3>1. PICK at \in {relay[room],
                   [active |-> journal[room].active, remaining |-> journal[room].remaining]} :
                 at.active /\ at.remaining # 0 /\ EnqueueNext(room, at)
            BY <2>3 DEF GoingOn
        <3>2. journal[room] \in Journal /\ relay[room] \in [active : BOOLEAN, remaining : Nat]
            BY <2>3, EntryTyped DEF GoingOn
        <3>3. at \in [active : BOOLEAN, remaining : Nat]
            BY <3>2 DEF Journal
        <3> QED
            BY <3>1, <3>3, QueuedFate
    <2>4. CASE Halted(room)
        BY <2>4, HaltedFate
    <2>5. CASE Archiving(room)
        <3>1. Elsewhere(room) /\ Kept(room)
            BY <2>5 DEF Archiving, RoomsTyped, Elsewhere, Kept
        <3> QED
            BY <3>1 DEF Fate
    <2>6. CASE Capturing(room)
        BY <2>6, MarkingFate DEF Capturing
    <2>7. CASE Replaying(room)
        <3>1. Again(room)
            BY <2>7 DEF Again, Replaying, RoomsTyped, Dispatched
        <3>2. Elsewhere(room)
            BY <2>7 DEF Replaying, Elsewhere, RoomsTyped
        <3> QED
            BY <3>1, <3>2 DEF Fate
    <2>8. CASE Beginning(room)
        BY <2>8, BeginningFate
    <2> QED
        BY <1>5, <2>1, <2>2, <2>3, <2>4, <2>5, <2>6, <2>7, <2>8
<1> QED
    BY <1>1, <1>2, <1>3, <1>4, <1>5 DEF RoomStep

-----------------------------------------------------------------------------
(* What becomes of the request ids and of the ledger.                      *)

BooksKept == UNCHANGED <<ids, turnOf, ledger>>

NewId ==
    /\ ids' = ids + 1 /\ ids' \in Requests /\ current = Null
    /\ \E room \in Rooms :
          /\ pending[room] # Null
          /\ turnOf' = [turnOf EXCEPT ![ids'] =
                [room |-> room, member |-> pending[room].member, turn |-> pending[room].turn]]
    /\ UNCHANGED ledger

\* An append in the file: its dispatch goes on, or the server dies.
Appended ==
    /\ gates # <<>> /\ current # Null
    /\ ledger' = ledger \cup {current.request}
    /\ current' = Null \/ Sending
    /\ UNCHANGED <<ids, turnOf>>

LEMMA NewTurnBooks ==
    ASSUME RoomsTyped, HistoryTyped, NEW room \in Rooms,
           \/ StartLocal(room) \/ StartSelected(room) \/ StartSelecting(room)
           \/ StartOffline(room) \/ StartRefused(room)
    PROVE  NewId
<1>1. /\ ids < MaxRequests /\ ids' = ids + 1 /\ pending[room] # Null /\ current = Null
      /\ turnOf' = [turnOf EXCEPT ![ids'] =
           [room |-> room, member |-> pending[room].member, turn |-> pending[room].turn]]
      /\ UNCHANGED ledger
    BY DEF StartLocal, StartSelected, StartSelecting, StartOffline, StartRefused, Begin,
           NewTurn, Queued, Processing
<1>2. ids' \in Requests
    BY <1>1, ConstantFacts DEF HistoryTyped, Requests
<1> QED
    BY <1>1, <1>2 DEF NewId

\* A final is about a request of the ledger.
LEMMA FinalBooks ==
    ASSUME NEW r \in ledger, Final(r) \/ RefusedFinal(r)
    PROVE  BooksKept
BY DEF Final, RefusedFinal, BooksKept, history

LEMMA Books ==
    ASSUME IInv, Awaiting, Out, Next
    PROVE  BooksKept \/ NewId \/ Appended
<1>0. RoomsTyped /\ HistoryTyped /\ MemoryTyped
    BY DEF IInv, Typed
<1>1. CASE User \/ Reach \/ Environment \/ Timeout
           \/ \E room \in Rooms : WatchExpires(room) \/ Expire(room)
    <2>1. BooksKept
        BY <1>1 DEF BooksKept, User, StartRelay, StopInFlight, StopRelay, Reach, ExtSelect, ExtPrompt,
                    ExtCapture, LocalReceives, Environment, ProviderAnswers, LocalAnswers,
                    ExtPublishes, Timeout, WatchExpires, Expire, history, counters
    <2> QED
        BY <2>1
<1>2. CASE Process
    <2>1. CASE \E room \in Rooms : \/ StartLocal(room) \/ StartSelected(room)
                                   \/ StartSelecting(room) \/ StartOffline(room)
        BY <1>0, <2>1, NewTurnBooks
    <2>2. CASE \/ ProcessBusy \/ WorkerStale \/ Rest
               \/ \E room \in Rooms : \/ Archive(room) \/ ResumeCapture(room)
                                      \/ ResumeReplay(room) \/ ResumeUncertain(room)
                                      \/ ResumeUnsupported(room)
        BY <2>2 DEF BooksKept, ProcessBusy, WorkerStale, Rest, Archive, ResumeCapture,
                    ResumeReplay, ResumeUncertain, ResumeUnsupported, history, counters
    <2> QED
        BY <1>2, <2>1, <2>2 DEF Process
<1>3. CASE AppendDone
    <2>1. /\ gates # <<>> /\ current # Null /\ Head(gates).request = current.request
          /\ ledger' = ledger \cup {current.request}
          /\ UNCHANGED <<ids, turnOf>>
        BY <1>0, <1>3 DEF AppendDone, Awaiting, history, counters, MemoryTyped
    <2>2. current' = Null \/ Sending
        <3>1. CASE Sent(Head(gates))
            BY <1>3, <2>1, <3>1 DEF AppendDone, Appending, Sent, Sending, history, stops, counters
        <3>2. CASE ~Sent(Head(gates))
            BY <1>3, <2>1, <3>2 DEF AppendDone, Park
        <3> QED
            BY <3>1, <3>2
    <2> QED
        BY <2>1, <2>2 DEF Appended
<1>4. CASE \E l \in locates : LocateDone(l)
    BY <1>4 DEF LocateDone, BooksKept, history, counters
<1>5. CASE Deliver
    <2>1. CASE \/ \E e \in fromExt : Selected(e) \/ Captured(e)
               \/ \E e \in fromExt \cup fromLocal : Errored(e)
               \/ LocalCaptured
        BY <2>1 DEF Selected, Captured, Errored, LocalCaptured, BooksKept, history, counters
    <2>2. CASE \E e \in fromLocal : LocalFinal(e)
        BY <2>2, FinalBooks DEF LocalFinal, Out
    <2>3. CASE \E r \in Requests : OnlineFinal(r)
        BY <2>3, FinalBooks DEF OnlineFinal, Out
    <2> QED
        BY <1>5, <2>1, <2>2, <2>3 DEF Deliver
<1>6. CASE Failures
    <2>1. CASE \E room \in Rooms : StartRefused(room)
        BY <1>0, <2>1, NewTurnBooks
    <2>2. CASE Crash
        <3>1. PICK n \in 0 .. Len(gates) : ledger' = ledger \cup {gates[i].request : i \in 1 .. n}
            BY <2>2 DEF Crash
        <3>2. CASE n = 0
            <4>1. {gates[i].request : i \in 1 .. n} = {}
                BY <3>2
            <4> QED
                BY <2>2, <3>1, <4>1 DEF Crash, BooksKept, history
        <3>3. CASE n # 0
            <4>1. gates # <<>> /\ Len(gates) = 1 /\ n = 1 /\ current # Null
                  /\ gates[1].request = current.request
                BY <1>0, <3>1, <3>3 DEF Awaiting, MemoryTyped
            <4>2. {gates[i].request : i \in 1 .. n} = {current.request}
                BY <4>1
            <4> QED
                BY <2>2, <3>1, <4>1, <4>2 DEF Crash, Appended, history
        <3> QED
            BY <3>2, <3>3
    <2>3. CASE \/ StateChanged \/ AppendFails \/ ExtDrops
               \/ \E l \in locates : LocateFails(l)
               \/ \E c \in toExt : ExtFails(c)
               \/ \E r \in Requests : ProviderFails(r)
               \/ \E c \in toLocal : LocalFails(c)
        BY <2>3 DEF StateChanged, AppendFails, ExtDrops, LocateFails, ExtFails, ProviderFails,
                    LocalFails, BooksKept, history
    <2> QED
        BY <1>6, <2>1, <2>2, <2>3 DEF Failures
<1> QED
    BY <1>1, <1>2, <1>3, <1>4, <1>5, <1>6 DEF Next, Continue

-----------------------------------------------------------------------------
(* Every request keeps its turn, and a turn of the ledger its one request. *)

TurnStep ==
    /\ \/ UNCHANGED <<pending, journal, relay, turns>>
       \/ \E room \in Rooms : Fate(room)
    /\ BooksKept \/ NewId \/ Appended

LEMMA BookFacts ==
    ASSUME RoomsTyped, HistoryTyped, BooksKept \/ NewId \/ Appended
    PROVE  /\ ids \in Nat /\ ids' \in {ids, ids + 1} /\ ids' \in Nat
           /\ turnOf' = turnOf \/ NewId
           /\ \A r \in 1 .. ids : turnOf'[r] = turnOf[r]
           /\ ledger \subseteq ledger'
           /\ ledger' = ledger \/ Appended
<1>1. ids \in Nat
    BY DEF HistoryTyped
<1>2. \A r \in 1 .. ids : turnOf'[r] = turnOf[r]
    <2>1. CASE NewId
        BY <1>1, <2>1 DEF NewId, HistoryTyped
    <2>2. CASE ~NewId
        BY <2>2 DEF BooksKept, Appended
    <2> QED
        BY <2>1, <2>2
<1> QED
    BY <1>1, <1>2 DEF BooksKept, NewId, Appended

LEMMA TurnFacts ==
    ASSUME RoomsTyped, TurnStep
    PROVE  turns \in Nat /\ turns' \in {turns, turns + 1}
BY DEF RoomsTyped, TurnStep, Fate, Kept, Next1, Again, Fresh

LEMMA KnownKept ==
    ASSUME RoomsTyped, Sound, HistoryTyped, MemoryTyped, Known, TurnStep
    PROVE  Known'
<1>0. BooksKept \/ NewId \/ Appended
    BY DEF TurnStep
<1>1. \A r \in 1 .. ids' : turnOf'[r] \in Named /\ turnOf'[r].turn <= turns'
    <2> SUFFICES ASSUME NEW r \in 1 .. ids' PROVE turnOf'[r] \in Named /\ turnOf'[r].turn <= turns'
        OBVIOUS
    <2>1. CASE r \in 1 .. ids
        <3>1. turnOf'[r] = turnOf[r] /\ turnOf[r] \in Named /\ turnOf[r].turn <= turns
            BY <1>0, <2>1, BookFacts DEF Known
        <3>2. turnOf[r].turn \in Nat
            BY <3>1 DEF Named
        <3> QED
            BY <3>1, <3>2, TurnFacts
    <2>2. CASE r \notin 1 .. ids
        <3>1. NewId /\ r = ids'
            BY <1>0, <2>2, BookFacts DEF BooksKept, Appended, NewId
        <3>2. PICK room \in Rooms :
                /\ pending[room] # Null
                /\ turnOf' = [turnOf EXCEPT ![ids'] =
                     [room |-> room, member |-> pending[room].member, turn |-> pending[room].turn]]
            BY <3>1 DEF NewId
        <3>3. pending[room] \in Turn /\ pending[room].turn <= turns
            BY <3>2, EntryTyped DEF Known
        <3>4. turnOf'[r] = [room |-> room, member |-> pending[room].member,
                            turn |-> pending[room].turn]
            BY <3>1, <3>2 DEF NewId, HistoryTyped
        <3>5. pending[room].turn \in Nat /\ pending[room].member \in Members
            BY <3>3 DEF Turn
        <3> QED
            BY <3>3, <3>4, <3>5, TurnFacts DEF Named
    <2> QED
        BY <2>1, <2>2
<1>2. ASSUME NEW room \in Rooms
      PROVE  /\ Journaled(room)' => /\ journal'[room].request <= ids'
                                    /\ turnOf'[journal'[room].request] = TurnOfJournal(room)'
             /\ pending'[room] # Null => pending'[room].turn <= turns'
    <2>1. journal[room] # Null =>
            /\ journal[room].request \in 1 .. ids
            /\ turnOf'[journal[room].request] = TurnOfJournal(room)
            /\ journal[room].turn <= turns /\ journal[room].turn \in Nat
        <3> SUFFICES ASSUME journal[room] # Null
                     PROVE  /\ journal[room].request \in 1 .. ids
                            /\ turnOf'[journal[room].request] = TurnOfJournal(room)
                            /\ journal[room].turn <= turns /\ journal[room].turn \in Nat
            OBVIOUS
        <3>1. journal[room].request \in Requests /\ journal[room].turn \in Nat
            BY EntryTyped DEF Journal
        <3>2. journal[room].request \in 1 .. ids
            BY <1>0, <3>1, BookFacts, ConstantFacts DEF Known, Journaled, Requests
        <3>3. turnOf[journal[room].request] = TurnOfJournal(room)
              /\ turnOf[journal[room].request].turn <= turns
            BY <3>2 DEF Known, Journaled
        <3> QED
            BY <1>0, <3>1, <3>2, <3>3, BookFacts DEF TurnOfJournal
    <2>2. pending[room] # Null => pending[room].turn <= turns /\ pending[room].turn \in Nat
        BY EntryTyped DEF Known, Turn
    <2>3. CASE UNCHANGED <<pending[room], journal[room]>>
        BY <1>0, <2>1, <2>2, <2>3, BookFacts, TurnFacts DEF Journaled, TurnOfJournal
    <2>4. CASE Fate(room)
        <3>1. CASE Kept(room)
            BY <1>0, <2>1, <2>2, <3>1, BookFacts, TurnFacts
               DEF Kept, SameTurn, Journaled, TurnOfJournal
        <3>2. CASE Next1(room) \/ Again(room)
            BY <2>1, <3>2, TurnFacts DEF Next1, Again, Journaled, Live
        <3>3. CASE Fresh(room)
            BY <1>0, <3>3, BookFacts DEF Fresh, Journaled
        <3> QED
            BY <2>4, <3>1, <3>2, <3>3 DEF Fate
    <2> QED
        BY <2>3, <2>4 DEF TurnStep, Fate, Elsewhere
<1>3. ledger' \subseteq 1 .. ids'
    <2>1. Appended => current.request \in 1 .. ids
        <3> SUFFICES ASSUME current # Null PROVE current.request \in 1 .. ids
            BY DEF Appended
        <3>1. current \in Current /\ current.room \in Rooms /\ current.request \in Requests
            BY EntryTyped DEF Current
        <3>2. journal[current.room] # Null /\ journal[current.room].request = current.request
            BY DEF Sound, Turning, Live
        <3> QED
            BY <1>0, <3>1, <3>2, BookFacts, ConstantFacts DEF Known, Journaled, Requests
    <2>2. ledger \subseteq 1 .. ids
        BY DEF Known
    <2> QED
        <3>1. 1 .. ids \subseteq 1 .. ids'
            BY <1>0, BookFacts
        <3>2. ledger' \subseteq ledger \/ (Appended /\ ledger' = ledger \cup {current.request})
            BY <1>0, BookFacts DEF Appended
        <3> QED
            BY <2>1, <2>2, <3>1, <3>2
<1> QED
    BY <1>1, <1>2, <1>3 DEF Known

\* Of the turn being run only its own request can be in the ledger.
LEMMA SingleKept ==
    ASSUME RoomsTyped, Sound, HistoryTyped, MemoryTyped, Known, Single, TurnStep
    PROVE  Single'
<1>0. BooksKept \/ NewId \/ Appended
    BY DEF TurnStep
<1>1. /\ \A r \in ledger : r \in 1 .. ids /\ turnOf'[r] = turnOf[r] /\ turnOf[r].turn <= turns
      /\ \A r \in ledger : turnOf[r].turn \in Nat
    BY <1>0, BookFacts DEF Known, Named
<1>2. Appended =>
        /\ current # Null /\ current.room \in Rooms /\ Live(current.room)
        /\ journal[current.room].request = current.request
        /\ current.request \in 1 .. ids /\ turnOf'[current.request] = turnOf[current.request]
        /\ turnOf[current.request].turn = journal[current.room].turn
        /\ journal[current.room].turn \in Nat /\ journal[current.room].turn <= turns
    <2> SUFFICES ASSUME Appended
                 PROVE  /\ current # Null /\ current.room \in Rooms /\ Live(current.room)
                        /\ journal[current.room].request = current.request
                        /\ current.request \in 1 .. ids
                        /\ turnOf'[current.request] = turnOf[current.request]
                        /\ turnOf[current.request].turn = journal[current.room].turn
                        /\ journal[current.room].turn \in Nat
                        /\ journal[current.room].turn <= turns
        OBVIOUS
    <2>1. current # Null /\ current.room \in Rooms /\ current.request \in Requests
        BY EntryTyped DEF Appended, Current
    <2> PICK room \in Rooms : room = current.room
        BY <2>1
    <2>2. Live(room) /\ journal[room].request = current.request /\ journal[room] # Null
        BY <2>1 DEF Sound, Turning, Live
    <2>3. current.request \in 1 .. ids /\ turnOf[current.request] = TurnOfJournal(room)
        BY <1>0, <2>1, <2>2, BookFacts, ConstantFacts DEF Known, Journaled, Requests
    <2>4. turnOf'[current.request] = turnOf[current.request] /\ turnOf[current.request] \in Named
          /\ turnOf[current.request].turn <= turns
        BY <1>0, <2>3, BookFacts DEF Known
    <2> QED
        BY <2>1, <2>2, <2>3, <2>4 DEF TurnOfJournal, Named
<1>3. \A r \in ledger' : /\ turnOf'[r] = turnOf[r] /\ turnOf[r].turn \in Nat
                         /\ turnOf[r].turn <= turns
                         /\ r \in ledger \/ (Appended /\ r = current.request)
    BY <1>0, <1>1, <1>2, BookFacts DEF Appended
<1>4. \A r, s \in ledger' : turnOf'[r].turn = turnOf'[s].turn => r = s
    <2>1. \A r, s \in ledger : turnOf[r].turn = turnOf[s].turn => r = s
        BY DEF Single
    <2>2. Appended => \A r \in ledger :
                         turnOf[r].turn = turnOf[current.request].turn => r = current.request
        BY <1>2 DEF Single
    <2> QED
        BY <1>3, <2>1, <2>2
<1>5. ASSUME NEW room \in Rooms, pending'[room] # Null
      PROVE  \A r \in ledger' : turnOf'[r].turn # pending'[room].turn
    <2> SUFFICES ASSUME NEW r \in ledger' PROVE turnOf[r].turn # pending'[room].turn
        BY <1>3
    <2>1. CASE pending'[room] = pending[room]
        <3>1. CASE r \in ledger
            BY <1>5, <2>1, <3>1 DEF Single
        <3>2. CASE Appended /\ r = current.request
            BY <1>2, <1>5, <2>1, <3>2 DEF Single, Journaled, Live
        <3> QED
            BY <1>3, <3>1, <3>2
    <2>2. CASE Next1(room)
        BY <1>3, <2>2, TurnFacts DEF Next1
    <2>3. CASE Again(room)
        <3>1. r \in ledger /\ journal[room].request \notin ledger /\ Live(room)
            BY <2>3 DEF Again
        <3>2. turnOf[r].turn # journal[room].turn
            BY <3>1 DEF Single
        <3> QED
            BY <2>3, <3>2 DEF Again
    <2> QED
        BY <1>5, <2>1, <2>2, <2>3 DEF TurnStep, Fate, Elsewhere, Kept, Fresh
<1>6. ASSUME NEW room \in Rooms, Live(room)'
      PROVE  \A r \in ledger' : turnOf'[r].turn = journal'[room].turn => r = journal'[room].request
    <2> SUFFICES ASSUME NEW r \in ledger', turnOf[r].turn = journal'[room].turn
                 PROVE  r = journal'[room].request
        BY <1>3
    <2>1. CASE journal'[room] = journal[room] \/ SameTurn(room)
        <3>1. /\ Live(room) /\ journal'[room].turn = journal[room].turn
              /\ journal'[room].request = journal[room].request
            BY <1>6, <2>1 DEF SameTurn, Live
        <3>2. CASE r \in ledger
            BY <3>1, <3>2 DEF Single
        <3>3. CASE Appended /\ r = current.request
            BY <1>2, <3>1, <3>3 DEF Sound, Turning
        <3> QED
            BY <1>3, <3>2, <3>3
    <2>2. CASE Fresh(room)
        <3>1. r \in ledger
            BY <1>3, <2>2 DEF Fresh, Appended
        <3>2. turnOf[r].turn # pending[room].turn
            BY <2>2, <3>1 DEF Single, Fresh
        <3> QED
            BY <2>2, <3>2 DEF Fresh
    <2> QED
        BY <1>6, <2>1, <2>2 DEF TurnStep, Fate, Elsewhere, Kept, Next1, Again, Live
<1>7. /\ \A room \in Rooms : pending[room] # Null =>
            pending[room].turn \in Nat /\ pending[room].turn <= turns
      /\ \A room \in Rooms : journal[room] # Null =>
            journal[room].turn \in Nat /\ journal[room].turn <= turns
    <2>1. \A room \in Rooms : pending[room] # Null =>
            pending[room].turn \in Nat /\ pending[room].turn <= turns
        BY EntryTyped DEF Known, Turn
    <2>2. ASSUME NEW room \in Rooms, journal[room] # Null
          PROVE  journal[room].turn \in Nat /\ journal[room].turn <= turns
        <3>1. journal[room].request \in 1 .. ids /\ turnOf[journal[room].request] = TurnOfJournal(room)
            <4>1. journal[room].request \in Requests
                BY <2>2, EntryTyped DEF Journal
            <4> QED
                BY <1>0, <2>2, <4>1, BookFacts, ConstantFacts DEF Known, Journaled, Requests
        <3>2. turnOf[journal[room].request] \in Named /\ turnOf[journal[room].request].turn <= turns
            BY <3>1 DEF Known
        <3> QED
            BY <3>1, <3>2 DEF TurnOfJournal, Named
    <2> QED
        BY <2>1, <2>2
<1>8. /\ \A a, b \in Rooms : pending'[a] # Null /\ pending'[b] # Null
            /\ pending'[a].turn = pending'[b].turn => a = b
      /\ \A a, b \in Rooms : pending'[a] # Null /\ journal'[b] # Null =>
            pending'[a].turn # journal'[b].turn
      /\ \A a, b \in Rooms : journal'[a] # Null /\ journal'[b] # Null
            /\ journal'[a].turn = journal'[b].turn => a = b
    <2>0. /\ \A a, b \in Rooms : pending[a] # Null /\ pending[b] # Null
                /\ pending[a].turn = pending[b].turn => a = b
          /\ \A a, b \in Rooms : pending[a] # Null /\ journal[b] # Null =>
                pending[a].turn # journal[b].turn
          /\ \A a, b \in Rooms : journal[a] # Null /\ journal[b] # Null
                /\ journal[a].turn = journal[b].turn => a = b
        BY DEF Single, Journaled
    <2>1. CASE UNCHANGED <<pending, journal, relay, turns>>
        BY <2>0, <2>1
    <2>2. CASE \E room \in Rooms : Fate(room)
        <3> PICK room \in Rooms : Fate(room)
            BY <2>2
        <3>1. \A other \in Rooms : other # room =>
                 pending'[other] = pending[other] /\ journal'[other] = journal[other]
            BY DEF Fate, Elsewhere
        <3>2. CASE Kept(room)
            <4>1. /\ pending'[room] # Null => pending'[room] = pending[room]
                  /\ journal'[room] # Null => /\ journal[room] # Null
                                              /\ journal'[room].turn = journal[room].turn
                BY <3>2 DEF Kept, SameTurn
            <4> QED
                BY <2>0, <3>1, <4>1
        <3>3. CASE Next1(room)
            <4>1. pending'[room].turn = turns + 1 /\ journal'[room] = Null /\ turns \in Nat
                BY <3>3, TurnFacts DEF Next1
            <4>2. \A other \in Rooms : other # room =>
                    /\ pending'[other] # Null => pending'[other].turn # turns + 1
                    /\ journal'[other] # Null => journal'[other].turn # turns + 1
                BY <1>7, <3>1, <4>1
            <4> QED
                BY <2>0, <3>1, <4>1, <4>2
        <3>4. CASE Again(room)
            <4>1. /\ journal[room] # Null /\ journal'[room] = Null
                  /\ pending'[room].turn = journal[room].turn
                BY <3>4 DEF Again, Live
            <4> QED
                BY <2>0, <3>1, <4>1
        <3>5. CASE Fresh(room)
            <4>1. /\ pending[room] # Null /\ pending'[room] = Null
                  /\ journal'[room].turn = pending[room].turn
                BY <3>5 DEF Fresh
            <4> QED
                BY <2>0, <3>1, <4>1
        <3> QED
            BY <3>2, <3>3, <3>4, <3>5 DEF Fate
    <2> QED
        BY <2>1, <2>2 DEF TurnStep
<1> QED
    BY <1>4, <1>5, <1>6, <1>8 DEF Single, Journaled

-----------------------------------------------------------------------------
(* Each kind of step keeps the marks of its room, and a stop.              *)

Before ==
    /\ RoomsTyped /\ Sound /\ HistoryTyped /\ MemoryTyped
    /\ Known /\ Awaiting /\ Marked /\ Halting
    /\ BooksKept \/ NewId \/ Appended

Stuck(room) == pending'[room] # Null /\ Journaled(room) => ~journal[room].stop

Marks(room) ==
    Elsewhere(room) /\ MarkedRoom(room)' /\ HaltedRoom(room)' /\ Stuck(room)
    /\ halted' \subseteq halted \cup {room}

\* In a live journal a stop stands for a request of the ledger.
LEMMA GoneMarks ==
    ASSUME Before, NEW room \in Rooms, Elsewhere(room), journal'[room] = Null,
           halted' \subseteq halted \cup {room},
           \/ pending'[room] = Null /\ ~relay'[room].active
           \/ UNCHANGED <<pending[room], relay[room]>> /\ halted' = halted /\ pending[room] = Null
           \/ room \notin halted' /\ Stuck(room)
    PROVE  Marks(room)
BY DEF Marks, MarkedRoom, HaltedRoom, Stuck, Journaled, Before, Halting

LEMMA NeverAgain ==
    ASSUME Before, NEW room \in Rooms, Live(room), journal[room].request \notin ledger
    PROVE  room \notin halted /\ ~journal[room].stop
BY DEF Before, Marked, MarkedRoom, Halting, HaltedRoom, Journaled, Live

LEMMA StartingMarks ==
    ASSUME Before, NEW room \in Rooms, Starting(room)
    PROVE  Marks(room)
<1> PICK at : at = [active |-> TRUE, remaining |-> Budget]
    OBVIOUS
<1>1. at \in [active : BOOLEAN, remaining : Nat] /\ at.active /\ at.remaining # 0
    BY ConstantFacts
<1>2. Elsewhere(room) /\ journal[room] = Null
    BY <1>1, QueuedFate DEF Starting, Before, Fate
<1>3. journal'[room] = Null
    BY <1>1 DEF Starting, EnqueueNext, Before, RoomsTyped
<1> QED
    BY <1>2, <1>3, GoneMarks DEF Starting, Stuck, Journaled

LEMMA StoppingMarks ==
    ASSUME Before, NEW room \in Rooms, Stopping(room)
    PROVE  Marks(room)
<1>1. Elsewhere(room) /\ journal'[room] = Null /\ pending'[room] = Null /\ ~relay'[room].active
    BY DEF Stopping, SetStopped, Before, RoomsTyped, Elsewhere, Off
<1> QED
    BY <1>1, GoneMarks DEF Stopping

LEMMA GoingOnMarks ==
    ASSUME Before, NEW room \in Rooms, GoingOn(room)
    PROVE  Marks(room)
<1>1. PICK at \in {relay[room],
               [active |-> journal[room].active, remaining |-> journal[room].remaining]} :
         /\ at.active /\ at.remaining # 0
         /\ at = relay[room] \/ ~journal[room].stop
         /\ EnqueueNext(room, at)
    BY DEF GoingOn
<1>2. journal[room] \in Journal /\ relay[room] \in [active : BOOLEAN, remaining : Nat]
    BY EntryTyped DEF GoingOn, Before
<1>3. at \in [active : BOOLEAN, remaining : Nat]
    BY <1>2 DEF Journal
<1>4. Elsewhere(room)
    BY <1>1, <1>3, QueuedFate DEF Before, Fate
<1>5. ~journal[room].stop /\ room \notin halted
    BY <1>1 DEF GoingOn, Before, Marked, MarkedRoom, Halting, HaltedRoom, Journaled
<1>6. journal'[room] = Null
    BY <1>1 DEF EnqueueNext, Before, RoomsTyped
<1> QED
    BY <1>4, <1>5, <1>6, GoneMarks DEF GoingOn, Stuck

LEMMA HaltedMarks ==
    ASSUME Before, NEW room \in Rooms, Halted(room)
    PROVE  Marks(room)
<1>1. /\ Fate(room) /\ journal'[room] # Null /\ journal'[room].stop /\ ~journal'[room].active
      /\ relay' = [relay EXCEPT ![room] = Off]
      /\ journal'[room].dispatched = journal[room].dispatched
      /\ journal'[room].passive \/ InFlight(room)
    BY HaltedFate DEF Before
<1>2. journal[room] # Null /\ pending[room] = Null /\ pending'[room] = Null
    BY DEF Halted, Before, Sound, RoomSound, RoomsTyped
<1>3. journal'[room].request = journal[room].request
    BY HaltedFate DEF Before
<1>4. ~relay'[room].active
    BY <1>1 DEF Before, RoomsTyped, Off
<1>5. ledger \subseteq ledger'
    BY BookFacts DEF Before
<1>6. InFlight(room) => journal[room].request \in ledger
    BY <1>2 DEF InFlight, Running, Before, Marked, MarkedRoom, Journaled, Sound, Turning
<1>7. journal[room].dispatched => journal[room].request \in ledger
    BY <1>2 DEF Before, Marked, MarkedRoom, Journaled
<1>8. MarkedRoom(room)' /\ HaltedRoom(room)' /\ Stuck(room)
    BY <1>1, <1>2, <1>3, <1>4, <1>5, <1>6, <1>7 DEF MarkedRoom, HaltedRoom, Stuck
<1> QED
    BY <1>1, <1>8 DEF Marks, Fate, Halted

LEMMA ArchivingMarks ==
    ASSUME Before, NEW room \in Rooms, Archiving(room)
    PROVE  Marks(room)
<1>1. Elsewhere(room) /\ journal'[room] = Null
    BY DEF Archiving, Before, RoomsTyped, Elsewhere
<1>2. pending[room] = Null
    BY DEF Archiving, Before, Sound, RoomSound
<1> QED
    BY <1>1, <1>2, GoneMarks DEF Archiving

LEMMA ReplayingMarks ==
    ASSUME Before, NEW room \in Rooms, Replaying(room)
    PROVE  Marks(room)
<1>1. Elsewhere(room) /\ journal'[room] = Null
    BY DEF Replaying, Before, RoomsTyped, Elsewhere
<1>2. room \notin halted /\ ~journal[room].stop
    BY NeverAgain DEF Replaying, Dispatched
<1> QED
    BY <1>1, <1>2, GoneMarks DEF Replaying, Stuck

LEMMA RetryingMarks ==
    ASSUME Before, Retrying
    PROVE  \E room \in Rooms : room = current.room /\ Marks(room)
<1>1. current # Null /\ current.room \in Rooms
    BY EntryTyped DEF Retrying, Current, Before
<1> PICK room \in Rooms : room = current.room
    BY <1>1
<1>2. Live(room) /\ journal[room].request = current.request /\ journal[room].request \notin ledger
    BY <1>1 DEF Before, Sound, Turning, Live, Marked, Retrying
<1>3. room \notin halted /\ ~journal[room].stop
    BY <1>2, NeverAgain
<1>4. Elsewhere(room) /\ journal'[room] = Null
    BY DEF Retrying, Before, RoomsTyped, Elsewhere
<1> QED
    BY <1>3, <1>4, GoneMarks DEF Retrying, Stuck

\* A mark is only put where the ledger has the request.
LEMMA MarkingMarks ==
    ASSUME Before, NEW room \in Rooms, journal' = JournalDispatched(room),
           journal[room] # Null => journal[room].request \in ledger',
           UNCHANGED <<relay, pending, halted>>
    PROVE  Marks(room)
<1>1. Elsewhere(room)
    BY DEF JournalDispatched, Before, RoomsTyped, Elsewhere
<1>2. /\ journal'[room] = Null <=> journal[room] = Null
      /\ journal[room] # Null =>
            \A f \in {"request", "passive", "stop", "active"} : journal'[room][f] = journal[room][f]
    BY MarkedEntry DEF Before
<1>3. journal[room] # Null =>
        /\ journal'[room].request = journal[room].request
        /\ journal'[room].stop = journal[room].stop
        /\ journal'[room].active = journal[room].active
    BY <1>2
<1>4. MarkedRoom(room)' /\ HaltedRoom(room)'
    BY <1>2, <1>3 DEF Before, MarkedRoom, HaltedRoom, Marked, Halting, Journaled
<1>5. Stuck(room)
    BY DEF Stuck, Before, Sound, RoomSound, Journaled
<1> QED
    BY <1>1, <1>4, <1>5 DEF Marks

LEMMA AppendingFacts ==
    ASSUME Before, Appending
    PROVE  current # Null /\ current.request \in ledger' /\ current.room \in Rooms
           /\ journal[current.room].request = current.request /\ journal[current.room] # Null
<1>1. current # Null /\ Head(gates).request = current.request
    BY DEF Appending, Before, Awaiting, MemoryTyped
<1>2. current.room \in Rooms
    BY <1>1, EntryTyped DEF Before, Current
<1> QED
    BY <1>1, <1>2 DEF Appending, Before, Sound, Turning, Live

LEMMA SendingMarks ==
    ASSUME Before, Sending
    PROVE  \E room \in Rooms : room = current.room /\ Marks(room)
<1>1. current.room \in Rooms /\ (journal[current.room] # Null => journal[current.room].request \in ledger')
    BY AppendingFacts DEF Sending
<1> PICK room \in Rooms : room = current.room
    BY <1>1
<1>2. Marks(room)
    BY <1>1, MarkingMarks DEF Sending
<1> QED
    BY <1>2

LEMMA CapturingMarks ==
    ASSUME Before, NEW room \in Rooms, Capturing(room)
    PROVE  Marks(room)
BY MarkingMarks, BookFacts DEF Capturing, Dispatched, Before

LEMMA ParkingMarks ==
    ASSUME Before, Parking
    PROVE  \E room \in Rooms : room = current.room /\ Marks(room)
<1>1. current # Null /\ current.room \in Rooms
    BY EntryTyped DEF Parking, Current, Before
<1> PICK room \in Rooms : room = current.room
    BY <1>1
<1>2. journal[room] \in Journal /\ journal[room] # Null
    BY <1>1, EntryTyped DEF Before, Sound, Turning, Live
<1>3. PICK at : /\ Park(at) /\ at \in [Rooms -> Bounded(Journal)]
                /\ at[room] # Null /\ at[room] \in Journal
                /\ at[room].request = journal[room].request
                /\ at[room].stop = journal[room].stop
                /\ at[room].active = journal[room].active
                /\ at[room].passive = journal[room].passive
                /\ at[room].dispatched => journal[room].request \in ledger'
    <2>1. CASE Park(journal)
        <3>1. journal[room].dispatched => journal[room].request \in ledger'
            BY <1>2, BookFacts DEF Before, Marked, MarkedRoom, Journaled
        <3> QED
            BY <1>2, <2>1, <3>1 DEF Before, RoomsTyped
    <2>2. CASE Park(JournalDispatched(room)) /\ Appending
        <3> PICK at : at = JournalDispatched(room)
            OBVIOUS
        <3>1. at \in [Rooms -> Bounded(Journal)]
            BY JournalDispatchedTyped DEF Before
        <3>2. /\ at[room] # Null /\ at[room] \in Journal
              /\ \A f \in {"request", "stop", "active", "passive"} : at[room][f] = journal[room][f]
            BY <1>2, MarkedEntry DEF Before
        <3>3. journal[room].request \in ledger'
            BY <2>2, AppendingFacts
        <3> QED
            BY <2>2, <3>1, <3>2, <3>3
    <2> QED
        BY <2>1, <2>2 DEF Parking
<1>4. /\ journal' = [at EXCEPT ![room] = [at[room] EXCEPT !.interrupted = TRUE]]
      /\ relay' = [relay EXCEPT ![room] = Off] /\ pending' = pending /\ halted' = halted
    BY <1>3 DEF Park, Parking
<1>5. journal'[room] = [at[room] EXCEPT !.interrupted = TRUE] /\ relay'[room] = Off
    BY <1>3, <1>4 DEF Before, RoomsTyped
<1>6. /\ journal'[room].request = at[room].request /\ journal'[room].stop = at[room].stop
      /\ journal'[room].active = at[room].active /\ journal'[room].passive = at[room].passive
      /\ journal'[room].dispatched = at[room].dispatched
    BY <1>3, <1>5 DEF Journal
<1>7. ~relay'[room].active
    BY <1>5 DEF Off
<1>8. journal[room].stop => ~journal[room].active
      /\ (~journal[room].passive => journal[room].request \in ledger')
    BY <1>2, BookFacts DEF Before, Marked, MarkedRoom, Journaled
<1>9. MarkedRoom(room)'
    BY <1>3, <1>6, <1>7, <1>8 DEF MarkedRoom
<1>10. HaltedRoom(room)' /\ Stuck(room)
    BY <1>2, <1>3, <1>4, <1>6, <1>7
       DEF HaltedRoom, Stuck, Before, Halting, Journaled, Sound, RoomSound
<1>11. Elsewhere(room)
    <2> PICK other \in Rooms : other = current.room /\ Fate(other)
        BY ParkFate DEF Before
    <2> QED
        BY DEF Fate
<1> QED
    BY <1>4, <1>9, <1>10, <1>11 DEF Marks

LEMMA BeginningMarks ==
    ASSUME Before, NEW room \in Rooms, Beginning(room)
    PROVE  Marks(room)
<1>1. Elsewhere(room) /\ pending[room] # Null /\ pending'[room] = Null
    BY BeginningFate DEF Before, Fate, Fresh
<1>2. journal'[room].dispatched = FALSE /\ journal'[room].stop = FALSE
    BY DEF Beginning, NewTurn, Before, RoomsTyped
<1>3. room \notin halted /\ halted' = halted
    BY <1>1 DEF Before, Halting, HaltedRoom, Beginning
<1> QED
    BY <1>1, <1>2, <1>3 DEF Marks, MarkedRoom, HaltedRoom, Stuck

LEMMA StepMarks ==
    ASSUME Before, RoomStep
    PROVE  \/ UNCHANGED <<pending, journal, relay, halted>>
           \/ \E room \in Rooms : Marks(room)
<1>1. CASE Quiet
    BY <1>1 DEF Quiet
<1>2. CASE ~Quiet
    BY <1>2, SendingMarks, ParkingMarks, RetryingMarks, StartingMarks, StoppingMarks, GoingOnMarks,
       HaltedMarks, ArchivingMarks, CapturingMarks, ReplayingMarks, BeginningMarks DEF RoomStep
<1> QED
    BY <1>1, <1>2

-----------------------------------------------------------------------------
(* The current turn: it goes on, its prompt is sent, or another begins.    *)

Goes ==
    /\ current # Null /\ current' = current /\ current.room \in Rooms
    /\ journal'[current.room].dispatched = journal[current.room].dispatched

Begins ==
    /\ current = Null /\ ids' = ids + 1 /\ ids' \in Requests
    /\ current'.request = ids' /\ current'.phase \in {"ready", "selecting"}

LEMMA CurrentStep ==
    ASSUME RoomsTyped, Sound, HistoryTyped, MemoryTyped, Marked, RoomStep, current' # Null
    PROVE  Goes \/ Sending \/ Begins
<1>1. current # Null => current.room \in Rooms /\ journal[current.room] # Null
    <2>1. current # Null => current.room \in Rooms
        BY EntryTyped DEF Current
    <2> QED
        BY <2>1 DEF Sound, Turning, Live
<1>2. ASSUME NEW room \in Rooms, Elsewhere(room), current # Null, current' = current,
             current.room = room => journal'[room].dispatched = journal[room].dispatched
      PROVE  Goes
    BY <1>1, <1>2 DEF Goes, Elsewhere
<1>3. CASE Quiet
    BY <1>1, <1>3 DEF Quiet, Goes
<1>4. CASE Parking \/ Retrying
    BY <1>4 DEF Parking, Park, Retrying
<1>5. ASSUME NEW room \in Rooms, Starting(room) PROVE Goes
    <2> PICK at : at = [active |-> TRUE, remaining |-> Budget]
        OBVIOUS
    <2>1. at \in [active : BOOLEAN, remaining : Nat] /\ at.active /\ at.remaining # 0
        BY ConstantFacts
    <2>2. Elsewhere(room)
        BY <1>5, <2>1, QueuedFate DEF Starting, Fate
    <2> QED
        BY <1>1, <1>2, <1>5, <2>2 DEF Starting
<1>6. ASSUME NEW room \in Rooms, Stopping(room) PROVE Goes
    <2>1. Elsewhere(room) /\ current # Null /\ current' = current /\ current.room # room
        BY <1>6 DEF Stopping, Leaving, Running, SetStopped, RoomsTyped, Elsewhere
    <2> QED
        BY <1>2, <2>1
<1>7. ASSUME NEW room \in Rooms, GoingOn(room) PROVE Goes
    <2>1. PICK at \in {relay[room],
               [active |-> journal[room].active, remaining |-> journal[room].remaining]} :
             at.active /\ at.remaining # 0 /\ EnqueueNext(room, at)
        BY <1>7 DEF GoingOn
    <2>2. journal[room] \in Journal /\ relay[room] \in [active : BOOLEAN, remaining : Nat]
        BY <1>7, EntryTyped DEF GoingOn
    <2>3. at \in [active : BOOLEAN, remaining : Nat]
        BY <2>2 DEF Journal
    <2>4. Elsewhere(room)
        BY <2>1, <2>3, QueuedFate DEF Fate
    <2> QED
        BY <1>2, <1>7, <2>4 DEF GoingOn, Leaving, Running
<1>8. ASSUME NEW room \in Rooms, Halted(room) PROVE Goes
    BY <1>2, <1>8, HaltedFate DEF Halted, Fate
<1>9. ASSUME NEW room \in Rooms, Archiving(room) \/ Capturing(room) \/ Replaying(room) PROVE FALSE
    BY <1>9 DEF Archiving, Capturing, Replaying
<1>10. ASSUME NEW room \in Rooms, Beginning(room) PROVE Begins
    <2>1. current = Null /\ ids' = ids + 1 /\ ids' \in Requests
        BY <1>10, BeginningFate DEF Fresh
    <2>2. PICK phase \in {"ready", "selecting"} :
            current' = [request |-> ids', room |-> room, member |-> pending[room].member,
                        turn |-> pending[room].turn, retry |-> pending[room].retry,
                        phase |-> phase]
        BY <1>10, <2>1 DEF Beginning
    <2> QED
        BY <2>1, <2>2 DEF Begins
<1> QED
    BY <1>3, <1>4, <1>5, <1>6, <1>7, <1>8, <1>9, <1>10 DEF RoomStep

LEMMA MarkedKept ==
    ASSUME Before, RoomStep
    PROVE  Marked'
<1>1. ledger \subseteq ledger'
    BY BookFacts DEF Before
<1>2. ASSUME NEW room \in Rooms PROVE MarkedRoom(room)'
    <2>1. CASE UNCHANGED <<journal[room], relay[room]>>
        BY <1>1, <2>1 DEF Before, Marked, MarkedRoom, Journaled
    <2> QED
        BY <2>1, StepMarks DEF Marks, Elsewhere
<1>3. ASSUME current' # Null
      PROVE  /\ current'.request \in ledger' => journal'[current'.room].dispatched
             /\ current'.phase = "waiting" <=> current'.request \in ledger'
    <2>1. CASE Sending
        <3>1. current \in Current /\ current # Null /\ current.room \in Rooms
            BY <2>1, EntryTyped DEF Before, Sending, Current
        <3> PICK room \in Rooms : room = current.room
            BY <3>1
        <3>2. current'.request = current.request /\ current'.room = room
              /\ current'.phase = "waiting"
            BY <2>1, <3>1 DEF Sending, Current
        <3>3. current.request \in ledger' /\ journal[room] # Null
            BY <2>1, AppendingFacts DEF Sending
        <3>4. journal'[room].dispatched
            <4>1. journal[room] \in Journal /\ journal' = [journal EXCEPT ![room].dispatched = TRUE]
                BY <2>1, <3>3, EntryTyped DEF Before, Sending, JournalDispatched
            <4>2. journal'[room] = [journal[room] EXCEPT !.dispatched = TRUE]
                BY <4>1 DEF Before, RoomsTyped
            <4> QED
                BY <4>1, <4>2 DEF Journal
        <3> QED
            BY <3>2, <3>3, <3>4
    <2>2. CASE Goes /\ ~Sending
        <3>1. ledger' = ledger
            BY <1>3, <2>2, BookFacts DEF Before, Appended
        <3> QED
            BY <2>2, <3>1 DEF Goes, Before, Marked
    <2>3. CASE Begins
        <3>1. ledger' = ledger /\ ledger \subseteq 1 .. ids /\ ids \in Nat
            BY <2>3, BookFacts DEF Before, Begins, Appended, Known
        <3> QED
            BY <2>3, <3>1 DEF Begins
    <2> QED
        BY <1>3, <2>1, <2>2, <2>3, CurrentStep DEF Before
<1> QED
    BY <1>2, <1>3 DEF Marked

LEMMA HaltingKept ==
    ASSUME Before, RoomStep
    PROVE  Halting'
<1> SUFFICES ASSUME NEW room \in Rooms PROVE HaltedRoom(room)'
    BY DEF Halting
<1>1. CASE UNCHANGED <<pending[room], journal[room], relay[room]>>
           /\ (room \in halted' => room \in halted)
    BY <1>1 DEF Before, Halting, HaltedRoom, Journaled
<1> QED
    BY <1>1, StepMarks DEF Marks, Elsewhere

\* What has been cancelled was not sent and is not run again.
LEMMA UnsentKept ==
    ASSUME Before, RoomStep, Heard, Unsent,
           \/ cancelled' = cancelled
           \/ /\ current # Null /\ current.phase # "waiting" /\ current' = Null
              /\ ledger' = ledger /\ cancelled' = cancelled \cup {current.request}
    PROVE  Unsent'
<1>1. \A r \in cancelled : r \notin ledger'
    BY BookFacts DEF Before, Unsent, Appended
<1>2. CASE cancelled' = cancelled
    <2> SUFFICES ASSUME NEW r \in cancelled, current' # Null PROVE current'.request # r
        BY <1>1, <1>2 DEF Unsent
    <2>1. CASE Goes
        BY <2>1 DEF Unsent, Goes
    <2>2. CASE Sending
        BY <1>1, <2>2, AppendingFacts, EntryTyped DEF Sending, Current, Before
    <2>3. CASE Begins
        BY <2>3, BookFacts DEF Begins, Before, Heard
    <2> QED
        BY <2>1, <2>2, <2>3, CurrentStep DEF Before
<1>3. CASE /\ current # Null /\ current.phase # "waiting" /\ current' = Null
           /\ ledger' = ledger /\ cancelled' = cancelled \cup {current.request}
    BY <1>1, <1>3 DEF Unsent, Before, Marked
<1> QED
    BY <1>2, <1>3

-----------------------------------------------------------------------------
(* What the invariants say of the current turn, of a journal and of a      *)
(* message.                                                                *)

\* The whole invariant.
All == IInv /\ DInv

LEMMA Parts ==
    ASSUME All
    PROVE  /\ Typed /\ RoomsTyped /\ MemoryTyped /\ WiresTyped /\ HistoryTyped /\ Sound /\ Turning
           /\ Known /\ Heard /\ Awaiting /\ Out /\ Marked /\ Single /\ Replied /\ Halting /\ Unsent
BY DEF All, IInv, DInv, Typed, Sound

LEMMA JournalFacts ==
    ASSUME All, NEW room \in Rooms, journal[room] # Null
    PROVE  /\ journal[room] \in Journal
           /\ journal[room].request \in 1 .. ids /\ journal[room].request \in Requests
           /\ turnOf[journal[room].request] = TurnOfJournal(room)
           /\ \A other \in Rooms : other # room /\ journal[other] # Null =>
                 journal[other].request # journal[room].request
           /\ ~Receipted(journal[room].request)
           /\ \A other \in Rooms : journal[room].request \notin watches[other]
<1>1. \A one \in Rooms : journal[one] # Null =>
        /\ journal[one] \in Journal /\ journal[one].request \in Requests
        /\ journal[one].request <= ids
        /\ turnOf[journal[one].request] = TurnOfJournal(one)
    <2>1. Known /\ RoomsTyped
        BY Parts
    <2> QED
        BY <2>1, EntryTyped DEF Known, Journaled, Journal
<1>2. journal[room].request \in 1 .. ids
    BY <1>1, Parts, ConstantFacts DEF HistoryTyped, Requests
<1>3. \A other \in Rooms : other # room /\ journal[other] # Null =>
         journal[other].request # journal[room].request
    <2>1. \A one \in Rooms : TurnOfJournal(one).room = one
        BY DEF TurnOfJournal
    <2>2. \A one \in Rooms : journal[one] # Null => turnOf[journal[one].request].room = one
        BY <1>1, <2>1
    <2> QED
        BY <2>2
<1>4. /\ ~Receipted(journal[room].request)
      /\ \A other \in Rooms : journal[room].request \notin watches[other]
    BY Parts DEF Replied, Journaled
<1> QED
    BY <1>1, <1>2, <1>3, <1>4

LEMMA CurrentFacts ==
    ASSUME All, current # Null
    PROVE  /\ current \in Current /\ current.room \in Rooms
           /\ current.request \in 1 .. ids /\ current.request \in Requests
           /\ current.request # Null
           /\ turnOf[current.request].member = current.member
           /\ journal[current.room] # Null
           /\ journal[current.room].request = current.request
           /\ current.phase = "waiting" <=> current.request \in ledger
<1>1. current \in Current /\ current.room \in Rooms
    BY Parts, EntryTyped DEF Current
<1> PICK room \in Rooms : room = current.room
    BY <1>1
<1>2. /\ journal[room] # Null /\ journal[room].request = current.request
      /\ journal[room].member = current.member
    BY Parts DEF Turning, Live
<1>3. /\ current.request \in 1 .. ids /\ current.request \in Requests
      /\ turnOf[current.request] = TurnOfJournal(room)
    BY <1>2, JournalFacts
<1>4. current.phase = "waiting" <=> current.request \in ledger
    BY Parts DEF Marked
<1> QED
    BY <1>1, <1>2, <1>3, <1>4, ConstantFacts DEF TurnOfJournal

\* A message names a request at most, and that one has a turn.
LEMMA MessageFacts ==
    ASSUME All
    PROVE  /\ \A c \in toExt \cup fromExt : c.request # Null =>
                 c.request \in 1 .. ids /\ c.request \in Requests
           /\ ledger \subseteq 1 .. ids /\ ledger \subseteq Requests
           /\ \A c \in toExt \cup fromExt :
                 c.type \in {"select", "selected", "prompt", "capture", "captured", "error"}
           /\ \A c \in toExt : c.type \notin {"selected", "captured", "error"}
           /\ \A e \in fromExt : e.type \notin {"select", "prompt", "capture"}
           /\ \A e \in fromLocal : e.type \notin {"select", "selected", "captured"}
           /\ \A e \in fromExt : e.type # "selected" => e.request # Null
           /\ \A c \in toExt : c.type # "select" => c.request # Null
<1>1. toExt \subseteq Commands /\ fromExt \subseteq Events /\ fromLocal \subseteq LocalEvents
    BY Parts DEF WiresTyped
<1>2. ledger \subseteq 1 .. ids /\ ids \in Nat /\ ledger \subseteq Requests
    BY Parts DEF Known, HistoryTyped, MemoryTyped
<1>3. /\ \A c \in toExt : c.type \in {"select", "prompt", "capture"}
      /\ \A e \in fromExt : e.type \in {"selected", "captured", "error"}
      /\ \A e \in fromLocal : e.type \in {"error", "final"}
    BY <1>1 DEF Commands, Events, LocalEvents, Errors
<1>4. /\ \A c \in toExt \cup fromExt : c.request \in Requests \cup {Null}
      /\ \A e \in fromExt : e.type # "selected" => e.request \in Requests
      /\ \A c \in toExt : c.type # "select" => c.request \in Requests
    BY <1>1 DEF Commands, Events, Errors
<1>5. ASSUME NEW c \in toExt \cup fromExt, c.request # Null
      PROVE  c.request \in 1 .. ids /\ c.request \in Requests
    <2>1. c.request \in Requests /\ c.request \in Nat /\ c.request >= 1
        BY <1>4, <1>5, ConstantFacts DEF Requests
    <2>2. CASE c.type = "prompt"
        <3>1. c.request \in ledger
            BY <1>3, <2>2, Parts DEF Out
        <3> QED
            BY <1>2, <3>1
    <2>3. CASE c.type # "prompt"
        <3>1. c.request <= ids
            BY <1>5, <2>3, Parts DEF Heard
        <3> QED
            BY <1>2, <2>1, <3>1
    <2> QED
        BY <2>2, <2>3
<1> QED
    BY <1>2, <1>3, <1>4, <1>5, ConstantFacts

\* A turn begins: with a new request, of which nobody has heard.
LEMMA BeginFacts ==
    ASSUME All, NEW room \in Rooms, NEW phase \in {"ready", "selecting"}, Begin(room, phase)
    PROVE  /\ current = Null /\ gates = <<>> /\ locates = {}
           /\ ids' = ids + 1 /\ ids' \in Requests /\ ids \in Nat /\ ids' # Null
           /\ current' # Null /\ current'.request = ids' /\ current'.phase = phase
           /\ current'.member \in Members
           /\ turnOf'[ids'].member = current'.member
           /\ \A r \in 1 .. ids : turnOf'[r] = turnOf[r]
<1>1. /\ ids < MaxRequests /\ ids' = ids + 1 /\ pending[room] # Null /\ current = Null
      /\ turnOf' = [turnOf EXCEPT ![ids'] =
           [room |-> room, member |-> pending[room].member, turn |-> pending[room].turn]]
      /\ current' = [request |-> ids', room |-> room, member |-> pending[room].member,
                     turn |-> pending[room].turn, retry |-> pending[room].retry, phase |-> phase]
    BY DEF Begin, NewTurn, Queued, Processing
<1>2. ids' \in Requests /\ ids \in Nat
    BY <1>1, Parts, ConstantFacts DEF HistoryTyped, Requests
<1>3. pending[room] \in Turn
    BY <1>1, Parts, EntryTyped
<1>4. current' \in Current
    BY <1>1, <1>2, <1>3 DEF Turn, Current
<1>5. /\ turnOf'[ids'] = [room |-> room, member |-> pending[room].member,
                          turn |-> pending[room].turn]
      /\ \A r \in 1 .. ids : turnOf'[r] = turnOf[r]
    BY <1>1, <1>2, Parts DEF HistoryTyped
<1>6. gates = <<>> /\ locates = {}
    BY <1>1, Parts DEF Awaiting
<1> QED
    BY <1>1, <1>2, <1>3, <1>4, <1>5, <1>6, ConstantFacts DEF Turn

-----------------------------------------------------------------------------
(* An open await stays that of the current turn.                           *)

Choices == {"select", "selected"}

\* Nothing is added to the awaits, nothing is said about the turn they are of.
LEMMA AwaitsKept ==
    ASSUME Awaiting, UNCHANGED <<gates, locates>>,
           gates # <<>> \/ locates # {} =>
              current' = current /\ (current.request \notin ledger => current.request \notin ledger'),
           gates # <<>> /\ current.phase = "selecting" =>
              \A c \in toExt' \cup fromExt' : c.type \in Choices =>
                 c \in toExt \cup fromExt \/ c.request # current.request
    PROVE  Awaiting'
BY DEF Awaiting, Choices

LEMMA AwaitingUser ==
    ASSUME All, ~InterruptAwaits, User \/ Timeout \/ Environment
    PROVE  Awaiting'
<1>0. Awaiting
    BY Parts
<1>1. \A room \in Rooms : \/ StartRelay(room) \/ StopInFlight(room) \/ StopRelay(room)
        => Awaiting'
    BY <1>0, AwaitsKept DEF StartRelay, StopInFlight, StopRelay, MayInterrupt, awaits, wires
<1>2. Timeout => Awaiting'
    BY <1>0, AwaitsKept DEF Timeout, Awaiting, awaits, wires
<1>3. Environment => Awaiting'
    BY <1>0, AwaitsKept DEF Environment, ProviderAnswers, LocalAnswers, ExtPublishes, awaits
<1> QED
    BY <1>1, <1>2, <1>3 DEF User

LEMMA AwaitingProcess ==
    ASSUME All, \/ Process
                \/ \E room \in Rooms : WatchExpires(room) \/ Expire(room) \/ StartRefused(room)
    PROVE  Awaiting'
<1>0. Awaiting /\ (current = Null => gates = <<>> /\ locates = {})
    BY Parts DEF Awaiting
<1>1. CASE ProcessBusy
    BY <1>0, <1>1, AwaitsKept DEF ProcessBusy, awaits, wires
<1>2. CASE \/ WorkerStale \/ Rest
           \/ \E room \in Rooms :
                \/ WatchExpires(room) \/ Expire(room) \/ StartRefused(room) \/ Archive(room)
                \/ ResumeCapture(room) \/ ResumeReplay(room) \/ ResumeUncertain(room)
                \/ ResumeUnsupported(room) \/ StartOffline(room)
    <2>1. current = Null /\ UNCHANGED <<gates, locates>>
        BY <1>2 DEF WorkerStale, Rest, WatchExpires, Expire, StartRefused, Archive, ResumeCapture,
                    ResumeReplay, ResumeUncertain, ResumeUnsupported, StartOffline, NewTurn, Resuming,
                    Processing, awaits
    <2> QED
        BY <1>0, <2>1, AwaitsKept
<1>3. ASSUME NEW room \in Rooms, StartLocal(room) PROVE Awaiting'
    <2>1. /\ current' # Null /\ current'.request = ids' /\ current'.phase = "ready"
          /\ gates = <<>> /\ locates = {} /\ ids' = ids + 1 /\ ids \in Nat
        BY <1>3, BeginFacts DEF StartLocal
    <2>2. ids' \notin ledger
        BY <2>1, Parts DEF Known
    <2> QED
        BY <1>3, <2>1, <2>2 DEF StartLocal, Awaiting
<1>4. ASSUME NEW room \in Rooms, StartSelected(room) PROVE Awaiting'
    <2>1. /\ current' # Null /\ current'.request = ids' /\ current'.phase = "ready"
          /\ gates = <<>> /\ locates = {} /\ ids' = ids + 1 /\ ids \in Nat
        BY <1>4, BeginFacts DEF StartSelected
    <2>2. ids' \notin ledger
        BY <2>1, Parts DEF Known
    <2>3. Len(gates') = 1 /\ gates'[1].request = ids' /\ locates' = {} /\ ledger' = ledger
        BY <1>4, <2>1 DEF StartSelected
    <2> QED
        BY <2>1, <2>2, <2>3 DEF Awaiting
<1>5. ASSUME NEW room \in Rooms, StartSelecting(room) PROVE Awaiting'
    <2>1. gates = <<>> /\ locates = {}
        BY <1>5, BeginFacts DEF StartSelecting
    <2> QED
        BY <1>0, <1>5, <2>1, AwaitsKept DEF StartSelecting, awaits
<1> QED
    BY <1>1, <1>2, <1>3, <1>4, <1>5 DEF Process

\* The targets are known for the turn that asked, and its append is the only one.
LEMMA AwaitingContinue ==
    ASSUME All, \/ AppendDone \/ AppendFails
                \/ \E l \in locates : LocateDone(l) \/ LocateFails(l)
    PROVE  Awaiting'
<1>0. Awaiting /\ gates \in Seq(Gate)
    BY Parts DEF MemoryTyped
<1>1. CASE AppendDone \/ AppendFails
    <2>1. gates # <<>> /\ Len(gates) = 1 /\ locates = {}
        BY <1>0, <1>1 DEF AppendDone, AppendFails, Awaiting
    <2>2. gates' = <<>> /\ locates' = {}
        BY <1>0, <1>1, <2>1 DEF AppendDone, AppendFails
    <2> QED
        BY <2>2 DEF Awaiting
<1>2. ASSUME NEW l \in locates, LocateDone(l) \/ LocateFails(l) PROVE Awaiting'
    <2>1. /\ current # Null /\ current.phase = "ready" /\ current.request \notin ledger
          /\ gates = <<>> /\ locates' = {} /\ ledger' = ledger
        BY <1>0, <1>2 DEF Awaiting, LocateDone, LocateFails
    <2>2. CASE LocateFails(l)
        BY <2>1, <2>2 DEF LocateFails, Awaiting
    <2>3. CASE LocateDone(l)
        <3>1. ~Reserved(current.request)
            BY <2>1 DEF Reserved, Dispatched
        <3>2. current' = current
              /\ gates' = <<[request |-> current.request, target |-> l.target, via |-> "direct"]>>
            BY <2>1, <2>3, <3>1 DEF LocateDone
        <3>3. Len(gates') = 1 /\ gates'[1].request = current.request
            BY <3>2
        <3> QED
            BY <2>1, <3>2, <3>3 DEF Awaiting
    <2> QED
        BY <1>2, <2>2, <2>3
<1> QED
    BY <1>1, <1>2

LEMMA AwaitingReach ==
    ASSUME All, Reach
    PROVE  Awaiting'
<1>0. Awaiting
    BY Parts
<1>1. ASSUME NEW c \in toExt, ExtSelect(c) PROVE Awaiting'
    <2>1. gates # <<>> /\ current.phase = "selecting" =>
             \A d \in toExt' \cup fromExt' : d \in toExt \cup fromExt \/ d.request # current.request
        <3> SUFFICES ASSUME gates # <<>>, current.phase = "selecting",
                            NEW d \in toExt' \cup fromExt', d \notin toExt \cup fromExt
                     PROVE  d.request # current.request
            OBVIOUS
        <3>1. d.request = c.request /\ c.type = "select"
            BY <1>1 DEF ExtSelect
        <3> QED
            BY <1>0, <3>1 DEF Awaiting
    <2> QED
        BY <1>0, <1>1, <2>1, AwaitsKept DEF ExtSelect, awaits
<1>2. ASSUME NEW c \in toExt, ExtPrompt(c) PROVE Awaiting'
    BY <1>0, <1>2, AwaitsKept DEF ExtPrompt, awaits
<1>3. ASSUME NEW c \in toExt, ExtCapture(c) PROVE Awaiting'
    <2>1. \A d \in fromExt' : d \in fromExt \/ d.type = "captured"
        BY <1>3 DEF ExtCapture
    <2> QED
        BY <1>0, <1>3, <2>1, AwaitsKept DEF ExtCapture, awaits, Choices
<1>4. ASSUME NEW c \in toLocal, LocalReceives(c) PROVE Awaiting'
    BY <1>0, <1>4, AwaitsKept DEF LocalReceives, awaits
<1> QED
    BY <1>1, <1>2, <1>3, <1>4 DEF Reach

\* The selection a turn waits for is reported once, and opens its one append.
LEMMA AwaitingSelected ==
    ASSUME All, NEW e \in fromExt, Selected(e)
    PROVE  Awaiting'
<1>0. Awaiting /\ gates \in Seq(Gate)
    BY Parts DEF MemoryTyped
<1>1. UNCHANGED <<locates, current, ledger, toExt>> /\ fromExt' = fromExt \ {e} /\ e.type = "selected"
    BY DEF Selected, ExtEvent
<1>2. CASE ~(/\ e.request # Null /\ IsCurrent(e.request)
             /\ current.phase = "selecting" /\ e.tab = current.member)
    <2>1. gates' = gates
        BY <1>2 DEF Selected
    <2> QED
        BY <1>0, <1>1, <2>1, AwaitsKept
<1>3. CASE /\ e.request # Null /\ IsCurrent(e.request)
           /\ current.phase = "selecting" /\ e.tab = current.member
    <2>1. current # Null /\ e.request = current.request
        BY <1>3 DEF IsCurrent
    <2>2. gates = <<>> /\ locates = {} /\ current.request \notin ledger
        BY <1>0, <1>1, <1>3, <2>1, CurrentFacts DEF Awaiting
    <2>3. Len(gates') = 1 /\ gates'[1].request = current.request
        <3>1. gates' = <<[request |-> e.request, target |-> e.tab, via |-> "event"]>>
            BY <1>3, <2>2 DEF Selected
        <3> QED
            BY <2>1, <3>1
    <2>4. ASSUME NEW c \in toExt \cup fromExt', c.type \in {"select", "selected"},
                 c.request = current.request
          PROVE  FALSE
        <3>1. CASE c \in toExt
            BY <1>1, <1>3, <2>1, <2>4, <3>1, MessageFacts, Parts DEF Out
        <3>2. CASE c \in fromExt \ {e}
            <4>1. c.type = "selected"
                BY <2>4, <3>2, MessageFacts
            <4>2. c.tab = e.tab
                BY <1>1, <1>3, <2>1, <2>4, <3>2, <4>1, Parts DEF Out
            <4>3. c \in Events /\ e \in Events
                BY <3>2, Parts DEF WiresTyped
            <4>4. c = e
                BY <1>1, <2>1, <2>4, <4>1, <4>2, <4>3 DEF Events, Errors
            <4> QED
                BY <3>2, <4>4
        <3> QED
            BY <1>1, <3>1, <3>2
    <2> QED
        BY <1>1, <1>3, <2>1, <2>2, <2>3, <2>4 DEF Awaiting
<1> QED
    BY <1>2, <1>3

\* No event is about a turn that waits for its targets.
LEMMA AwaitingDeliver ==
    ASSUME All, Deliver
    PROVE  Awaiting'
<1>0. Awaiting
    BY Parts
<1>1. ASSUME NEW e \in fromExt, Captured(e) PROVE Awaiting'
    BY <1>0, <1>1, AwaitsKept DEF Captured, ExtEvent, awaits
<1>2. CASE LocalCaptured
    BY <1>0, <1>2, AwaitsKept DEF LocalCaptured, awaits, wires
<1>3. ASSUME NEW e \in fromExt \cup fromLocal, Errored(e) PROVE Awaiting'
    <2>1. locates # {} => current # Null /\ e.request # current.request
        <3> SUFFICES ASSUME locates # {}, current # Null PROVE e.request # current.request
            BY <1>0 DEF Awaiting
        <3>1. current.request \notin ledger /\ turnOf[current.request].member \in LocalMembers
            BY <1>0, CurrentFacts DEF Awaiting
        <3>2. \/ e.request \in ledger
              \/ e \in fromExt /\ turnOf[e.request].member \notin LocalMembers
            BY <1>3, Parts DEF Out, Errored
        <3> QED
            BY <3>1, <3>2
    <2>2. locates # {} => current' = current
        BY <1>3, <2>1 DEF Errored, IsCurrent
    <2>3. /\ gates = <<>> /\ UNCHANGED <<gates, locates, ledger, toExt>> /\ fromExt' \subseteq fromExt
        BY <1>3 DEF Errored, ExtEvent, awaits
    <2> QED
        BY <1>0, <2>2, <2>3, AwaitsKept
<1>4. ASSUME NEW r \in ledger, Final(r) \/ RefusedFinal(r) PROVE Awaiting'
    <2>1. gates = <<>> /\ UNCHANGED <<gates, locates, ledger>>
        BY <1>4 DEF Final, RefusedFinal, awaits
    <2>2. locates # {} => current' = current
        <3> SUFFICES ASSUME locates # {} PROVE current' = current
            OBVIOUS
        <3>1. current # Null /\ current.request # r
            BY <1>0 DEF Awaiting
        <3> QED
            BY <1>4, <3>1 DEF Final, RefusedFinal, LateFinal, RecoveredFinal, CompletesTurn,
                NobodyWants, IsCurrent
    <2> QED
        BY <1>0, <2>1, <2>2, AwaitsKept
<1>5. ASSUME NEW e \in fromLocal, LocalFinal(e) PROVE Awaiting'
    BY <1>4, <1>5, Parts DEF LocalFinal, Out
<1>6. ASSUME NEW r \in Requests, OnlineFinal(r) PROVE Awaiting'
    BY <1>4, <1>6, Parts DEF OnlineFinal, Out
<1> QED
    BY <1>1, <1>2, <1>3, <1>5, <1>6, AwaitingSelected DEF Deliver

LEMMA AwaitingFailures ==
    ASSUME All, ~InterruptAwaits, Failures
    PROVE  Awaiting'
<1>0. Awaiting
    BY Parts
<1>1. CASE StateChanged
    BY <1>0, <1>1, AwaitsKept DEF StateChanged, awaits, wires
<1>2. CASE ExtDrops
    <2>1. gates = <<>> /\ locates = {} /\ UNCHANGED <<gates, locates>>
        BY <1>2 DEF ExtDrops, MayInterrupt, awaits
    <2> QED
        BY <1>0, <2>1, AwaitsKept
<1>3. CASE Crash
    BY <1>3 DEF Crash, Awaiting
<1>4. ASSUME NEW c \in toExt, ExtFails(c) PROVE Awaiting'
    <2>1. \A d \in fromExt' : d \in fromExt \/ d.type \in {"captured", "error"}
        BY <1>4 DEF ExtFails, Failure
    <2> QED
        BY <1>0, <1>4, <2>1, AwaitsKept DEF ExtFails, awaits, Choices
<1>5. ASSUME NEW r \in Requests, ProviderFails(r) PROVE Awaiting'
    <2>1. \A d \in fromExt' : d \in fromExt \/ d.type = "error"
        BY <1>5 DEF ProviderFails, Failure
    <2> QED
        BY <1>0, <1>5, <2>1, AwaitsKept DEF ProviderFails, awaits, Choices
<1>6. ASSUME NEW c \in toLocal, LocalFails(c) PROVE Awaiting'
    BY <1>0, <1>6, AwaitsKept DEF LocalFails, awaits
<1> QED
    BY <1>1, <1>2, <1>3, <1>4, <1>5, <1>6, AwaitingProcess, AwaitingContinue DEF Failures

LEMMA AwaitingStep ==
    ASSUME All, ~InterruptAwaits, Next
    PROVE  Awaiting'
BY AwaitingUser, AwaitingProcess, AwaitingContinue, AwaitingReach, AwaitingDeliver,
   AwaitingFailures DEF Next, Continue

-----------------------------------------------------------------------------
(* What is out about a request, after a step.                              *)

LEMMA StepFacts ==
    ASSUME All, Next
    PROVE  /\ Before /\ RoomStep /\ TurnStep
           /\ ids \in Nat /\ ids' \in Nat /\ ids <= ids' /\ ledger \subseteq ledger'
           /\ \A r \in 1 .. ids : turnOf'[r] = turnOf[r]
           /\ \A c \in toExt \cup fromExt : c.request # Null => turnOf'[c.request] = turnOf[c.request]
<1>0. RoomsTyped /\ HistoryTyped /\ MemoryTyped /\ Sound /\ Known /\ Awaiting /\ Marked /\ Halting
    BY Parts
<1>1. BooksKept \/ NewId \/ Appended
    BY Parts, Books DEF All
<1>2. RoomStep
    BY StepKind DEF All
<1>3. Before /\ TurnStep
    BY <1>0, <1>1, <1>2, StepFate DEF Before, TurnStep
<1> QED
    BY <1>0, <1>1, <1>2, <1>3, BookFacts, MessageFacts

\* Of what was out, nothing more is out.
LEMMA OutShrinks ==
    ASSUME All, Next, toExt' \subseteq toExt, fromExt' \subseteq fromExt, toLocal' \subseteq toLocal,
           fromLocal' \subseteq fromLocal, outbox' \subseteq outbox, UNCHANGED <<delivered, answered>>
    PROVE  Out'
<1>1. Out /\ ledger \subseteq ledger'
      /\ \A c \in toExt \cup fromExt : c.request # Null => turnOf'[c.request] = turnOf[c.request]
    BY Parts, StepFacts
<1>2. \A e \in fromExt : e.type = "error" => e.request # Null
    BY MessageFacts
<1> QED
    BY <1>1, <1>2 DEF Out

\* A command that carries no prompt goes out.
LEMMA OutCommand ==
    ASSUME All, Next, NEW c, toExt' \subseteq toExt \cup {c}, c.type \in {"select", "capture"},
           c.type = "select" /\ c.request # Null =>
              /\ turnOf'[c.request].member = c.tab
              /\ \A e \in fromExt : e.type = "selected" => e.request # c.request,
           UNCHANGED <<fromExt, toLocal, fromLocal, outbox, delivered, answered>>
    PROVE  Out'
<1>1. Out /\ ledger \subseteq ledger'
      /\ \A d \in toExt \cup fromExt : d.request # Null => turnOf'[d.request] = turnOf[d.request]
    BY Parts, StepFacts
<1>2. \A e \in fromExt : e.type = "error" => e.request # Null
    BY MessageFacts
<1> QED
    BY <1>1, <1>2 DEF Out

\* An event about a request goes out.
LEMMA OutEvent ==
    ASSUME All, Next, NEW e, fromExt' \subseteq fromExt \cup {e}, toExt' \subseteq toExt,
           e.type \in {"selected", "captured", "error"},
           e.type = "captured" /\ e.found => e.request \in ledger,
           e.type = "error" =>
              e.request \in ledger
              \/ (e.request \in 1 .. ids /\ turnOf[e.request].member \notin LocalMembers),
           e.type = "selected" /\ e.request # Null =>
              /\ e.request \in 1 .. ids /\ turnOf[e.request].member = e.tab
              /\ \A c \in toExt' : c.type = "select" => c.request # e.request,
           UNCHANGED <<toLocal, fromLocal, outbox, delivered, answered>>
    PROVE  Out'
<1>1. Out /\ ledger \subseteq ledger' /\ \A r \in 1 .. ids : turnOf'[r] = turnOf[r]
    BY Parts, StepFacts
<1>2. \A d : d \in toExt \/ d \in fromExt =>
         (d.request # Null => turnOf'[d.request] = turnOf[d.request])
    BY StepFacts
<1>3. \A d \in fromExt : d.type = "error" => d.request # Null
    BY MessageFacts
<1>4. ledger \subseteq 1 .. ids
    BY MessageFacts
<1>5. /\ \A d \in fromExt : d.type = "captured" /\ d.found => d.request \in ledger
      /\ \A d \in fromExt : d.type = "error" =>
            d.request \in ledger \/ turnOf[d.request].member \notin LocalMembers
      /\ \A d \in toExt \cup fromExt : d.type \in {"select", "selected"} /\ d.request # Null =>
            turnOf[d.request].member = d.tab
      /\ \A c \in toExt, d \in fromExt :
            c.type = "select" /\ d.type = "selected" /\ c.request # Null => c.request # d.request
    BY <1>1 DEF Out
<1>6. ASSUME NEW d \in fromExt'
      PROVE  /\ d.type = "captured" /\ d.found => d.request \in ledger'
             /\ d.type = "error" =>
                   d.request \in ledger' \/ turnOf'[d.request].member \notin LocalMembers
             /\ d.type \in {"select", "selected"} /\ d.request # Null =>
                   turnOf'[d.request].member = d.tab
             /\ d.type = "selected" /\ d.request # Null =>
                   \A c \in toExt' : c.type = "select" => c.request # d.request
    <2>1. CASE d \in fromExt
        <3>1. d.request # Null => turnOf'[d.request] = turnOf[d.request]
            BY <1>2, <2>1
        <3>2. \A c \in toExt' : c \in toExt
            OBVIOUS
        <3> QED
            BY <1>1, <1>3, <1>5, <2>1, <3>1, <3>2
    <2>2. CASE d = e
        <3>1. e.request \in 1 .. ids => turnOf'[e.request] = turnOf[e.request]
            BY <1>1
        <3> QED
            BY <1>1, <1>4, <2>2, <3>1
    <2> QED
        BY <2>1, <2>2
<1>7. \A c \in toExt' : c.type \in {"select", "selected"} /\ c.request # Null =>
         turnOf'[c.request].member = c.tab
    BY <1>5, <1>2
<1>8. UNCHANGED <<toLocal, fromLocal, outbox, delivered, answered>> /\ toExt' \subseteq toExt
    OBVIOUS
<1> QED
    BY <1>1, <1>6, <1>7, <1>8 DEF Out

LEMMA OutQuietly ==
    ASSUME All, Next,
           \/ User \/ Timeout \/ ProcessBusy \/ WorkerStale \/ ExtPublishes \/ LocalCaptured
           \/ StateChanged \/ ExtDrops \/ Crash \/ AppendFails
           \/ \E l \in locates : LocateDone(l) \/ LocateFails(l)
           \/ \E room \in Rooms :
                \/ WatchExpires(room) \/ Expire(room) \/ Archive(room) \/ ResumeReplay(room)
                \/ ResumeUncertain(room) \/ ResumeUnsupported(room) \/ StartLocal(room)
                \/ StartSelected(room) \/ StartOffline(room) \/ StartRefused(room)
    PROVE  Out'
<1>1. CASE User \/ Timeout
    BY <1>1, OutShrinks DEF User, StartRelay, StopInFlight, StopRelay, Timeout, wires, provider
<1>2. CASE \/ ProcessBusy \/ WorkerStale \/ ExtPublishes \/ LocalCaptured \/ StateChanged
    BY <1>2, OutShrinks DEF ProcessBusy, WorkerStale, ExtPublishes, LocalCaptured, StateChanged,
                            wires, provider
<1>3. CASE ExtDrops \/ Crash
    BY <1>3, OutShrinks DEF ExtDrops, Crash, provider
<1>4. CASE AppendFails \/ \E l \in locates : LocateDone(l) \/ LocateFails(l)
    BY <1>4, OutShrinks DEF AppendFails, LocateDone, LocateFails, wires, provider
<1>5. CASE \E room \in Rooms :
             \/ WatchExpires(room) \/ Expire(room) \/ Archive(room) \/ ResumeReplay(room)
             \/ ResumeUncertain(room) \/ ResumeUnsupported(room)
    BY <1>5, OutShrinks DEF WatchExpires, Expire, Archive, ResumeReplay, ResumeUncertain,
                            ResumeUnsupported, wires, provider
<1>6. CASE \E room \in Rooms : \/ StartLocal(room) \/ StartSelected(room)
                               \/ StartOffline(room) \/ StartRefused(room)
    BY <1>6, OutShrinks DEF StartLocal, StartSelected, StartOffline, StartRefused, wires, provider
<1> QED
    BY <1>1, <1>2, <1>3, <1>4, <1>5, <1>6

LEMMA OutProcess ==
    ASSUME All, Next, Process
    PROVE  Out'
<1>1. CASE Rest
    <2>1. CASE toExt' = toExt
        BY <1>1, <2>1, OutShrinks DEF Rest, provider
    <2>2. CASE toExt' # toExt
        <3>1. PICK room \in Rooms :
                toExt' = toExt \cup {[type |-> "select", request |-> Null, tab |-> restoreTo[room]]}
            BY <1>1, <2>2 DEF Rest
        <3> PICK c : c = [type |-> "select", request |-> Null, tab |-> restoreTo[room]]
            OBVIOUS
        <3>2. c.type = "select" /\ c.request = Null
            OBVIOUS
        <3> QED
            BY <1>1, <3>1, <3>2, OutCommand DEF Rest, provider
    <2> QED
        BY <2>1, <2>2
<1>2. ASSUME NEW room \in Rooms, ResumeCapture(room) PROVE Out'
    <2> PICK c : c = [type |-> "capture", request |-> journal[room].request,
                      tab |-> journal[room].member]
        OBVIOUS
    <2>1. c.type = "capture" /\ toExt' \subseteq toExt \cup {c}
        BY <1>2 DEF ResumeCapture
    <2> QED
        BY <1>2, <2>1, OutCommand DEF ResumeCapture, provider
<1>3. ASSUME NEW room \in Rooms, StartSelecting(room) PROVE Out'
    <2> PICK c : c = [type |-> "select", request |-> ids', tab |-> current'.member]
        OBVIOUS
    <2>1. c.type = "select" /\ c.request = ids' /\ c.tab = current'.member
        OBVIOUS
    <2>2. toExt' \subseteq toExt \cup {c} /\ Begin(room, "selecting")
        BY <1>3 DEF StartSelecting
    <2>3. turnOf'[c.request].member = c.tab /\ ids' = ids + 1 /\ ids \in Nat /\ ids' # Null
        BY <2>1, <2>2, BeginFacts
    <2>4. \A e \in fromExt : e.request # c.request
        BY <2>1, <2>3, MessageFacts
    <2> QED
        BY <1>3, <2>1, <2>2, <2>3, <2>4, OutCommand DEF StartSelecting, provider
<1> QED
    BY <1>1, <1>2, <1>3, OutQuietly DEF Process

\* A command for a request names it once.
LEMMA OneCommand ==
    ASSUME All, NEW c \in toExt, NEW d \in toExt, c.request = d.request, c.request # Null,
           c.type = d.type, c.type \in {"select", "prompt"}
    PROVE  c = d
<1>1. c \in Commands /\ d \in Commands
    BY Parts DEF WiresTyped
<1>2. CASE c.type = "prompt"
    <2>1. c.request \in Requests /\ c = [type |-> "prompt", request |-> c.request]
        BY <1>1, <1>2 DEF Commands
    <2>2. d = [type |-> "prompt", request |-> d.request]
        BY <1>1, <1>2 DEF Commands
    <2> QED
        BY <2>1, <2>2
<1>3. CASE c.type = "select"
    <2>1. c.tab = d.tab
        BY <1>3, Parts DEF Out
    <2>2. c = [type |-> "select", request |-> c.request, tab |-> c.tab]
        BY <1>1, <1>3 DEF Commands
    <2>3. d = [type |-> "select", request |-> d.request, tab |-> d.tab]
        BY <1>1, <1>3 DEF Commands
    <2> QED
        BY <2>1, <2>2, <2>3
<1> QED
    BY <1>2, <1>3

\* The prompt reaches a provider, whatever the extension makes of it.
LEMMA OutDelivered ==
    ASSUME All, Next, NEW c \in toExt, c.type = "prompt", toExt' = toExt \ {c},
           delivered' = [delivered EXCEPT ![c.request] = Append(@, extTab)],
           \A e \in fromExt' : e \in fromExt \/ (e.type = "error" /\ e.request = c.request),
           UNCHANGED <<toLocal, fromLocal, outbox, answered>>
    PROVE  Out'
<1>1. /\ ledger \subseteq ledger' /\ WiresTyped
      /\ \A d : d \in toExt \/ d \in fromExt =>
            (d.request # Null => turnOf'[d.request] = turnOf[d.request])
    BY Parts, StepFacts
<1>2. /\ c.request \in ledger /\ c.request \in Requests /\ delivered[c.request] = <<>>
      /\ extTab \in Targets
    BY Parts, MessageFacts, ConstantFacts DEF Out, WiresTyped
<1>3. /\ \A r \in Requests : r # c.request => delivered'[r] = delivered[r]
      /\ Len(delivered'[c.request]) = 1
    BY <1>1, <1>2 DEF WiresTyped
<1>4. \A d \in toExt' : d.type = "prompt" => d.request \in ledger' /\ delivered'[d.request] = <<>>
    <2> SUFFICES ASSUME NEW d \in toExt', d.type = "prompt"
                 PROVE  d.request \in ledger' /\ delivered'[d.request] = <<>>
        OBVIOUS
    <2>1. d \in toExt /\ d # c /\ d.request # Null /\ d.request \in Requests
        BY MessageFacts
    <2>2. d.request # c.request
        BY <2>1, OneCommand
    <2>3. d.request \in ledger /\ delivered[d.request] = <<>>
        BY <2>1, Parts DEF Out
    <2> QED
        BY <1>1, <1>3, <2>1, <2>2, <2>3
<1>5. \A d \in toLocal' : /\ d.request \in ledger'
                          /\ ~d.received => delivered'[d.request] = <<>>
                          /\ \A other \in toLocal' : d.request = other.request => d = other
                          /\ \A other \in toExt' : other.type = "prompt" => d.request # other.request
    <2>1. \A d \in toLocal : d.request \in Requests
        BY Parts DEF WiresTyped
    <2>2. \A d \in toLocal : /\ d.request \in ledger
                             /\ ~d.received => delivered[d.request] = <<>>
                             /\ \A other \in toLocal : d.request = other.request => d = other
                             /\ \A other \in toExt : other.type = "prompt" => d.request # other.request
        BY Parts DEF Out
    <2> QED
        BY <1>1, <1>3, <2>1, <2>2
<1>6. \A r \in Requests : Len(delivered'[r]) <= 1 /\ (delivered'[r] # <<>> => r \in ledger')
    BY <1>1, <1>2, <1>3, Parts DEF Out
<1>7. /\ outbox' \subseteq ledger' /\ answered' \subseteq ledger'
      /\ \A e \in fromLocal' : e.request \in ledger'
    BY <1>1, Parts DEF Out
<1>8. ASSUME NEW e \in fromExt'
      PROVE  /\ e.type = "captured" /\ e.found => e.request \in ledger'
             /\ e.type = "error" =>
                   e.request \in ledger' \/ turnOf'[e.request].member \notin LocalMembers
             /\ e.type \in {"select", "selected"} /\ e.request # Null =>
                   turnOf'[e.request].member = e.tab
             /\ e.type = "selected" /\ e.request # Null =>
                   \A d \in toExt' : d.type = "select" => d.request # e.request
    <2>1. CASE e \in fromExt
        <3>1. /\ e.type = "error" => e.request # Null
              /\ e.request # Null => turnOf'[e.request] = turnOf[e.request]
            BY <1>1, <2>1, MessageFacts
        <3> QED
            BY <1>1, <2>1, <3>1, Parts DEF Out
    <2> QED
        BY <1>1, <1>2, <2>1
<1>9. \A d \in toExt' : d.type \in {"select", "selected"} /\ d.request # Null =>
         turnOf'[d.request].member = d.tab
    BY <1>1, Parts DEF Out
<1> QED
    BY <1>4, <1>5, <1>6, <1>7, <1>8, <1>9 DEF Out

LEMMA OutReach ==
    ASSUME All, Next, NEW c \in toExt, ExtSelect(c) \/ ExtPrompt(c) \/ ExtCapture(c) \/ ExtFails(c)
    PROVE  Out'
<1>0. /\ toExt' = toExt \ {c} /\ UNCHANGED <<toLocal, fromLocal, outbox, answered>>
      /\ c.request # Null => c.request \in 1 .. ids
    BY MessageFacts DEF ExtSelect, ExtPrompt, ExtCapture, ExtFails, provider
<1>1. CASE ExtSelect(c)
    <2> PICK e : e = [type |-> "selected", request |-> c.request, tab |-> c.tab]
        OBVIOUS
    <2>1. e.type = "selected" /\ e.request = c.request /\ e.tab = c.tab
        OBVIOUS
    <2>2. c.type = "select" /\ fromExt' \subseteq fromExt \cup {e} /\ UNCHANGED delivered
        BY <1>1 DEF ExtSelect, provider
    <2>3. c.request # Null => turnOf[c.request].member = c.tab
        BY <2>2, Parts DEF Out
    <2>4. c.request # Null => \A d \in toExt' : d.type = "select" => d.request # c.request
        BY <1>0, <2>2, OneCommand
    <2> QED
        BY <1>0, <2>1, <2>2, <2>3, <2>4, OutEvent
<1>2. CASE ExtPrompt(c)
    BY <1>0, <1>2, OutDelivered DEF ExtPrompt
<1>3. CASE ExtCapture(c)
    <2>1. PICK found \in BOOLEAN :
            /\ found => c.request \in answered
            /\ fromExt' \subseteq fromExt \cup {[type |-> "captured", request |-> c.request,
                                                 tab |-> c.tab, found |-> found]}
        BY <1>3 DEF ExtCapture
    <2> PICK e : e = [type |-> "captured", request |-> c.request, tab |-> c.tab, found |-> found]
        OBVIOUS
    <2>2. e.type = "captured" /\ e.request = c.request /\ e.found = found
        OBVIOUS
    <2>3. found => e.request \in ledger
        BY <2>1, <2>2, Parts DEF Out
    <2> QED
        BY <1>0, <1>3, <2>1, <2>2, <2>3, OutEvent DEF ExtCapture, provider
<1>4. CASE ExtFails(c)
    <2>1. PICK kind \in {"recover", "stop"} :
            fromExt' = IF ~extUp \/ c.request = Null THEN fromExt
                       ELSE IF c.type = "capture"
                       THEN fromExt \cup {[type |-> "captured", request |-> c.request,
                                           tab |-> Null, found |-> FALSE]}
                       ELSE fromExt \cup {Failure(c.request, kind)}
        BY <1>4 DEF ExtFails
    <2>2. CASE c.type = "prompt" /\ delivered' # delivered
        <3>1. \A e \in fromExt' : e \in fromExt \/ (e.type = "error" /\ e.request = c.request)
            BY <2>1, <2>2 DEF Failure
        <3> QED
            BY <1>0, <1>4, <2>2, <3>1, OutDelivered DEF ExtFails
    <2>3. CASE delivered' = delivered /\ fromExt' = fromExt
        BY <1>0, <2>3, OutShrinks
    <2>4. CASE delivered' = delivered /\ fromExt' # fromExt /\ c.type = "capture"
        <3> PICK e : e = [type |-> "captured", request |-> c.request, tab |-> Null, found |-> FALSE]
            OBVIOUS
        <3>1. e.type = "captured" /\ e.found = FALSE /\ fromExt' \subseteq fromExt \cup {e}
            BY <2>1, <2>4
        <3> QED
            BY <1>0, <2>4, <3>1, OutEvent
    <2>5. CASE delivered' = delivered /\ fromExt' # fromExt /\ c.type # "capture"
        <3> PICK e : e = Failure(c.request, kind)
            OBVIOUS
        <3>1. e.type = "error" /\ e.request = c.request /\ fromExt' \subseteq fromExt \cup {e}
              /\ c.request # Null
            BY <2>1, <2>5 DEF Failure
        <3>2. CASE c.type = "prompt"
            <4>1. c.request \in ledger
                BY <3>2, Parts DEF Out
            <4> QED
                BY <1>0, <2>5, <3>1, <4>1, OutEvent
        <3>3. CASE c.type = "select"
            <4>1. c.tab \in Tabs
                BY <3>3, Parts DEF WiresTyped, Commands
            <4>2. turnOf[c.request].member = c.tab
                BY <3>1, <3>3, Parts DEF Out
            <4>3. c.tab \notin LocalMembers
                BY <4>1, ConstantFacts
            <4> QED
                BY <1>0, <2>5, <3>1, <4>2, <4>3, OutEvent
        <3>4. c.type \in {"select", "prompt"}
            <4>1. c \in Commands
                BY Parts DEF WiresTyped
            <4> QED
                BY <2>5, <4>1 DEF Commands
        <3> QED
            BY <3>2, <3>3, <3>4
    <2> QED
        BY <1>4, <2>2, <2>3, <2>4, <2>5 DEF ExtFails
<1> QED
    BY <1>1, <1>2, <1>3, <1>4

\* The messages that a step leaves alone are about what they were about.
LEMMA OutKeeps ==
    ASSUME All, Next, toExt' \subseteq toExt, fromExt' \subseteq fromExt
    PROVE  /\ \A e \in fromExt' : e.type = "captured" /\ e.found => e.request \in ledger'
           /\ \A e \in fromExt' : e.type = "error" =>
                 e.request \in ledger' \/ turnOf'[e.request].member \notin LocalMembers
           /\ \A c \in toExt' \cup fromExt' : c.type \in {"select", "selected"} /\ c.request # Null =>
                 turnOf'[c.request].member = c.tab
           /\ \A c \in toExt', e \in fromExt' :
                 c.type = "select" /\ e.type = "selected" /\ c.request # Null =>
                    c.request # e.request
<1>1. /\ Out /\ ledger \subseteq ledger'
      /\ \A d : d \in toExt \/ d \in fromExt =>
            (d.request # Null => turnOf'[d.request] = turnOf[d.request])
    BY Parts, StepFacts
<1>2. \A e \in fromExt : e.type = "error" => e.request # Null
    BY MessageFacts
<1> QED
    BY <1>1, <1>2 DEF Out

\* What has been delivered may be answered, or fail.
LEMMA OutAnswers ==
    ASSUME All, Next, NEW r \in Requests,
           ProviderAnswers(r) \/ LocalAnswers(r) \/ ProviderFails(r)
    PROVE  Out'
<1>1. /\ Out /\ ledger \subseteq ledger' /\ WiresTyped
    BY Parts, StepFacts
<1>2. r \in ledger
    BY <1>1 DEF Out, ProviderAnswers, LocalAnswers, ProviderFails
<1>3. CASE ProviderFails(r)
    <2>1. PICK kind : fromExt' = fromExt \cup {Failure(r, kind)}
        BY <1>3 DEF ProviderFails
    <2> PICK e : e = Failure(r, kind)
        OBVIOUS
    <2>2. e.type = "error" /\ e.request = r
        BY DEF Failure
    <2> QED
        BY <1>2, <1>3, <2>1, <2>2, OutEvent DEF ProviderFails, provider
<1>4. CASE ProviderAnswers(r) \/ LocalAnswers(r)
    <2>1. /\ UNCHANGED <<toExt, fromExt, delivered>> /\ toLocal' \subseteq toLocal
          /\ outbox' \subseteq outbox \cup {r} /\ answered' = answered \cup {r}
          /\ \A e \in fromLocal' : e \in fromLocal \/ e.request = r
        BY <1>4 DEF ProviderAnswers, LocalAnswers
    <2>2. /\ \A c \in toExt' : c.type = "prompt" => c.request \in ledger' /\ delivered'[c.request] = <<>>
          /\ \A c \in toLocal' : /\ c.request \in ledger'
                                 /\ ~c.received => delivered'[c.request] = <<>>
                                 /\ \A d \in toLocal' : c.request = d.request => c = d
                                 /\ \A d \in toExt' : d.type = "prompt" => c.request # d.request
          /\ \A s \in Requests : Len(delivered'[s]) <= 1 /\ (delivered'[s] # <<>> => s \in ledger')
        BY <1>1, <2>1 DEF Out
    <2>3. /\ outbox' \subseteq ledger' /\ answered' \subseteq ledger'
          /\ \A e \in fromLocal' : e.request \in ledger'
        BY <1>1, <1>2, <2>1 DEF Out
    <2> QED
        BY <2>1, <2>2, <2>3, OutKeeps DEF Out
<1> QED
    BY <1>3, <1>4

\* A call of a local target is received once, and may fail.
LEMMA OutLocal ==
    ASSUME All, Next, NEW c \in toLocal, LocalReceives(c) \/ LocalFails(c)
    PROVE  Out'
<1>1. /\ Out /\ ledger \subseteq ledger' /\ WiresTyped
      /\ UNCHANGED <<toExt, fromExt, outbox, answered>>
    BY Parts, StepFacts DEF LocalReceives, LocalFails, provider
<1>2. c.request \in Requests /\ c.target \in Targets /\ c.request \in ledger
    BY <1>1, ConstantFacts DEF WiresTyped, Out
<1>3. CASE LocalFails(c)
    <2>1. /\ toLocal' \subseteq toLocal /\ UNCHANGED delivered
          /\ \A e \in fromLocal' : e \in fromLocal \/ e.request = c.request
        BY <1>3 DEF LocalFails, Failure, provider
    <2>2. /\ \A d \in toExt' : d.type = "prompt" => d.request \in ledger' /\ delivered'[d.request] = <<>>
          /\ \A d \in toLocal' : /\ d.request \in ledger'
                                 /\ ~d.received => delivered'[d.request] = <<>>
                                 /\ \A o \in toLocal' : d.request = o.request => d = o
                                 /\ \A o \in toExt' : o.type = "prompt" => d.request # o.request
          /\ \A s \in Requests : Len(delivered'[s]) <= 1 /\ (delivered'[s] # <<>> => s \in ledger')
        BY <1>1, <2>1 DEF Out
    <2>3. /\ outbox' \subseteq ledger' /\ answered' \subseteq ledger'
          /\ \A e \in fromLocal' : e.request \in ledger'
        BY <1>1, <1>2, <2>1 DEF Out
    <2> QED
        BY <1>1, <2>2, <2>3, OutKeeps DEF Out
<1>4. CASE LocalReceives(c)
    <2>1. /\ ~c.received /\ delivered[c.request] = <<>> /\ UNCHANGED fromLocal
          /\ \A d \in toExt : d.type = "prompt" => c.request # d.request
          /\ \A d \in toLocal : d.request = c.request => d = c
        BY <1>1, <1>4 DEF LocalReceives, Out
    <2> PICK got : got = [c EXCEPT !.received = TRUE]
        OBVIOUS
    <2>2. got.request = c.request /\ got.received
        BY <1>1 DEF WiresTyped
    <2>3. toLocal' = (toLocal \ {c}) \cup {got}
        BY <1>4 DEF LocalReceives
    <2>4. /\ \A r \in Requests : r # c.request => delivered'[r] = delivered[r]
          /\ Len(delivered'[c.request]) = 1
        BY <1>1, <1>2, <1>4, <2>1 DEF LocalReceives, WiresTyped
    <2>5. \A d \in toExt' : d.type = "prompt" => d.request \in ledger' /\ delivered'[d.request] = <<>>
        <3>1. \A d \in toExt : d.type = "prompt" => d.request \in Requests
            BY MessageFacts
        <3> QED
            BY <1>1, <2>1, <2>4, <3>1 DEF Out
    <2>6. \A d \in toLocal' : d = got \/ (d \in toLocal /\ d.request \in Requests /\ d.request # c.request)
        BY <1>1, <2>1, <2>3 DEF WiresTyped
    <2>7. \A d \in toLocal' : /\ d.request \in ledger'
                              /\ ~d.received => delivered'[d.request] = <<>>
                              /\ \A o \in toLocal' : d.request = o.request => d = o
                              /\ \A o \in toExt' : o.type = "prompt" => d.request # o.request
        <3>1. \A d \in toLocal : /\ d.request \in ledger
                                 /\ ~d.received => delivered[d.request] = <<>>
                                 /\ \A o \in toLocal : d.request = o.request => d = o
                                 /\ \A o \in toExt : o.type = "prompt" => d.request # o.request
            BY <1>1 DEF Out
        <3> SUFFICES ASSUME NEW d \in toLocal'
                     PROVE  /\ d.request \in ledger'
                            /\ ~d.received => delivered'[d.request] = <<>>
                            /\ \A o \in toLocal' : d.request = o.request => d = o
                            /\ \A o \in toExt' : o.type = "prompt" => d.request # o.request
            OBVIOUS
        <3>2. CASE d = got
            BY <1>1, <1>2, <2>1, <2>2, <2>6, <3>2
        <3>3. CASE d \in toLocal /\ d.request \in Requests /\ d.request # c.request
            <4>1. delivered'[d.request] = delivered[d.request]
                BY <2>4, <3>3
            <4> QED
                BY <1>1, <2>2, <2>6, <3>1, <3>3, <4>1
        <3> QED
            BY <2>6, <3>2, <3>3
    <2>8. \A s \in Requests : Len(delivered'[s]) <= 1 /\ (delivered'[s] # <<>> => s \in ledger')
        <3>1. \A s \in Requests : Len(delivered[s]) <= 1 /\ (delivered[s] # <<>> => s \in ledger)
            BY <1>1 DEF Out
        <3>2. ASSUME NEW s \in Requests, s # c.request
              PROVE  Len(delivered'[s]) <= 1 /\ (delivered'[s] # <<>> => s \in ledger')
            BY <1>1, <2>4, <3>1, <3>2
        <3>3. Len(delivered'[c.request]) <= 1 /\ c.request \in ledger'
            BY <1>1, <1>2, <2>4
        <3> QED
            BY <3>2, <3>3
    <2>9. /\ outbox' \subseteq ledger' /\ answered' \subseteq ledger'
          /\ \A e \in fromLocal' : e.request \in ledger'
        BY <1>1, <2>1 DEF Out
    <2> QED
        BY <1>1, <2>5, <2>7, <2>8, <2>9, OutKeeps DEF Out
<1> QED
    BY <1>3, <1>4

\* The prompt of a request leaves when its append is in the file.
LEMMA OutAppend ==
    ASSUME All, Next, AppendDone
    PROVE  Out'
<1>1. /\ Out /\ ledger \subseteq ledger' /\ gates \in Seq(Gate)
      /\ UNCHANGED <<fromExt, fromLocal, outbox, delivered, answered>>
    BY Parts, StepFacts DEF AppendDone, MemoryTyped, provider
<1>2. /\ gates # <<>> /\ current # Null /\ Head(gates).request = current.request
      /\ current.request \notin ledger /\ current.request \in Requests
      /\ current.request \in ledger'
    BY <1>1, Parts, CurrentFacts DEF AppendDone, Awaiting
<1>3. delivered[current.request] = <<>>
    BY <1>1, <1>2 DEF Out
<1>4. /\ \A c \in toExt : c.type = "prompt" => c.request # current.request
      /\ \A c \in toLocal : c.request # current.request
    BY <1>1, <1>2 DEF Out
<1>5. /\ outbox' \subseteq ledger' /\ answered' \subseteq ledger'
      /\ \A e \in fromLocal' : e.request \in ledger'
      /\ \A r \in Requests : Len(delivered'[r]) <= 1 /\ (delivered'[r] # <<>> => r \in ledger')
    BY <1>1 DEF Out
<1>6. CASE UNCHANGED <<toExt, toLocal>>
    BY <1>1, <1>6, OutShrinks
<1>7. CASE Sent(Head(gates)) /\ Head(gates).via = "direct"
    <2>1. UNCHANGED toExt
        BY <1>7 DEF Sent
    <2> PICK new : new = [request |-> current.request, target |-> Head(gates).target, received |-> FALSE]
        OBVIOUS
    <2>2. toLocal' = toLocal \cup {new} /\ new.request = current.request
        BY <1>2, <1>7 DEF Sent
    <2>3. \A d \in toLocal' : /\ d.request \in ledger'
                              /\ ~d.received => delivered'[d.request] = <<>>
                              /\ \A o \in toLocal' : d.request = o.request => d = o
                              /\ \A o \in toExt' : o.type = "prompt" => d.request # o.request
        <3>1. \A d \in toLocal : /\ d.request \in ledger
                                 /\ ~d.received => delivered[d.request] = <<>>
                                 /\ \A o \in toLocal : d.request = o.request => d = o
                                 /\ \A o \in toExt : o.type = "prompt" => d.request # o.request
            BY <1>1 DEF Out
        <3> SUFFICES ASSUME NEW d \in toLocal'
                     PROVE  /\ d.request \in ledger'
                            /\ ~d.received => delivered'[d.request] = <<>>
                            /\ \A o \in toLocal' : d.request = o.request => d = o
                            /\ \A o \in toExt' : o.type = "prompt" => d.request # o.request
            OBVIOUS
        <3>2. \A o \in toLocal' : o = new \/ (o \in toLocal /\ o.request # current.request)
            BY <1>4, <2>2
        <3>3. CASE d = new
            BY <1>1, <1>2, <1>3, <1>4, <2>1, <2>2, <3>2, <3>3
        <3>4. CASE d \in toLocal /\ d.request # current.request
            BY <1>1, <2>1, <2>2, <3>1, <3>2, <3>4
        <3> QED
            BY <3>2, <3>3, <3>4
    <2>4. \A c \in toExt' : c.type = "prompt" => c.request \in ledger' /\ delivered'[c.request] = <<>>
        BY <1>1, <2>1 DEF Out
    <2> QED
        BY <1>1, <1>5, <2>1, <2>3, <2>4, OutKeeps DEF Out
<1>8. CASE Sent(Head(gates)) /\ Head(gates).via # "direct"
    <2>1. UNCHANGED toLocal
        BY <1>8 DEF Sent
    <2> PICK new : new = [type |-> "prompt", request |-> current.request]
        OBVIOUS
    <2>2. toExt' = toExt \cup {new} /\ new.request = current.request /\ new.type = "prompt"
        BY <1>8 DEF Sent
    <2>3. \A d \in toLocal' : /\ d.request \in ledger'
                              /\ ~d.received => delivered'[d.request] = <<>>
                              /\ \A o \in toLocal' : d.request = o.request => d = o
                              /\ \A o \in toExt' : o.type = "prompt" => d.request # o.request
        <3>1. \A d \in toLocal : /\ d.request \in ledger
                                 /\ ~d.received => delivered[d.request] = <<>>
                                 /\ \A o \in toLocal : d.request = o.request => d = o
                                 /\ \A o \in toExt : o.type = "prompt" => d.request # o.request
            BY <1>1 DEF Out
        <3> QED
            BY <1>1, <1>4, <2>1, <2>2, <3>1
    <2>4. \A c \in toExt' : c.type = "prompt" => c.request \in ledger' /\ delivered'[c.request] = <<>>
        BY <1>1, <1>2, <1>3, <2>2 DEF Out
    <2>5. /\ \A c \in toExt' \cup fromExt' : c.type \in {"select", "selected"} /\ c.request # Null =>
                turnOf'[c.request].member = c.tab
          /\ \A c \in toExt', e \in fromExt' :
                c.type = "select" /\ e.type = "selected" /\ c.request # Null => c.request # e.request
        <3>1. \A c \in toExt' : c.type \in {"select", "selected"} => c \in toExt
            BY <2>2
        <3>2. /\ \A c \in toExt : c.type \in {"select", "selected"} /\ c.request # Null =>
                    turnOf[c.request].member = c.tab
              /\ \A c \in fromExt : c.type \in {"select", "selected"} /\ c.request # Null =>
                    turnOf[c.request].member = c.tab
              /\ \A c \in toExt, e \in fromExt :
                    c.type = "select" /\ e.type = "selected" /\ c.request # Null =>
                       c.request # e.request
            BY <1>1 DEF Out
        <3>3. turnOf' = turnOf
            BY DEF AppendDone, history
        <3> QED
            BY <1>1, <3>1, <3>2, <3>3
    <2>6. /\ \A e \in fromExt' : e.type = "captured" /\ e.found => e.request \in ledger'
          /\ \A e \in fromExt' : e.type = "error" =>
                e.request \in ledger' \/ turnOf'[e.request].member \notin LocalMembers
        <3>1. turnOf' = turnOf
            BY DEF AppendDone, history
        <3> QED
            BY <1>1, <3>1 DEF Out
    <2> QED
        BY <1>5, <2>3, <2>4, <2>5, <2>6 DEF Out
<1> QED
    BY <1>2, <1>6, <1>7, <1>8 DEF AppendDone

\* What the server hears is no longer out.
LEMMA OutDeliver ==
    ASSUME All, Next, Deliver
    PROVE  Out'
<1>1. ASSUME NEW e \in fromExt, Selected(e) \/ Captured(e) PROVE Out'
    BY <1>1, OutShrinks DEF Selected, Captured, ExtEvent, provider
<1>2. ASSUME NEW e \in fromExt \cup fromLocal, Errored(e) PROVE Out'
    BY <1>2, OutShrinks DEF Errored, ExtEvent, provider
<1>3. ASSUME NEW e \in fromLocal, LocalFinal(e) PROVE Out'
    BY <1>3, OutShrinks DEF LocalFinal, Final, RefusedFinal, provider
<1>4. ASSUME NEW r \in Requests, OnlineFinal(r) PROVE Out'
    BY <1>4, OutShrinks DEF OnlineFinal, Final, RefusedFinal, provider
<1> QED
    BY <1>1, <1>2, <1>3, <1>4, OutQuietly DEF Deliver

LEMMA OutStep ==
    ASSUME All, Next
    PROVE  Out'
<1>1. CASE Failures
    BY <1>1, OutQuietly, OutReach, OutAnswers, OutLocal DEF Failures
<1>2. CASE Continue
    BY <1>2, OutQuietly, OutAppend DEF Continue
<1>3. CASE Environment
    BY <1>3, OutQuietly, OutAnswers DEF Environment
<1>4. CASE Reach
    BY <1>4, OutReach, OutLocal DEF Reach
<1> QED
    BY <1>1, <1>2, <1>3, <1>4, OutQuietly, OutProcess, OutDeliver DEF Next

-----------------------------------------------------------------------------
(* Nobody hears of a request before it is made.                            *)

LEMMA HeardKept ==
    ASSUME All, Next,
           cancelled' \subseteq 1 .. ids,
           \A room \in Rooms : watches'[room] \subseteq 1 .. ids /\ receipts'[room] \subseteq 1 .. ids,
           \A c \in toExt' \cup fromExt' :
              c \in toExt \cup fromExt \/ c.type = "prompt" \/ c.request \in (1 .. ids') \cup {Null}
    PROVE  Heard'
<1>1. Heard /\ ids \in Nat /\ ids' \in Nat /\ ids <= ids'
    BY Parts, StepFacts
<1>2. \A c \in toExt \cup fromExt : c.request # Null => c.request \in 1 .. ids
    BY MessageFacts
<1>3. 1 .. ids \subseteq 1 .. ids'
    BY <1>1
<1> QED
    BY <1>1, <1>2, <1>3 DEF Heard

-----------------------------------------------------------------------------
(* What a step does to replies and watches.                                *)

\* A reply is committed that was not, and the journal that waits for it is gone.
Committing ==
    \E room \in Rooms, r \in ledger :
       /\ Commit(room, r) /\ ~Receipted(r)
       /\ \A other \in Rooms : journal[other] # Null /\ journal[other].request = r =>
             journal'[other] = Null

\* The request of a journal is watched instead.
Watching ==
    /\ UNCHANGED receipts
    /\ \E room \in Rooms :
          /\ journal[room] # Null /\ journal'[room] = Null
          /\ watches' = [watches EXCEPT ![room] = @ \cup {journal[room].request}]

Replying ==
    /\ Committing \/ UNCHANGED <<receipts, replies>>
    /\ Watching \/ \A room \in Rooms : watches'[room] \subseteq watches[room]

LEMMA Closes ==
    ASSUME RoomsTyped, NEW room \in Rooms, NEW at, SetStopped(room) \/ Follow(room, at)
    PROVE  journal'[room] = Null
BY DEF RoomsTyped, SetStopped, Follow, EnqueueNext

LEMMA FinishReplying ==
    ASSUME All, NEW room \in Rooms, journal[room] # Null, journal[room].request \in ledger,
           FinishRecovered(room)
    PROVE  Committing
<1>1. Commit(room, journal[room].request) /\ ~Receipted(journal[room].request)
    BY JournalFacts DEF FinishRecovered
<1>2. journal'[room] = Null
    BY Parts, Closes DEF FinishRecovered
<1>3. \A other \in Rooms : journal[other] # Null /\ journal[other].request = journal[room].request =>
         journal'[other] = Null
    BY <1>2, JournalFacts
<1> QED
    BY <1>1, <1>3 DEF Committing

\* Only what has been answered is captured.
LEMMA CaptureReplying ==
    ASSUME All, LocalCaptured \/ \E e \in fromExt : Captured(e)
    PROVE  Replying
<1>1. UNCHANGED watches
    BY DEF LocalCaptured, Captured
<1>2. worker # Null => worker.room \in Rooms
    BY Parts DEF MemoryTyped, Bounded
<1>3. CASE LocalCaptured
    <2>1. CASE UNCHANGED <<receipts, replies>>
        BY <1>1, <2>1 DEF Replying
    <2>2. CASE ~UNCHANGED <<receipts, replies>>
        <3>1. /\ worker # Null /\ Live(worker.room) /\ worker.request \in answered
              /\ journal[worker.room].request = worker.request /\ FinishRecovered(worker.room)
            BY <1>3, <2>2 DEF LocalCaptured, CaptureReturns, CaptureMissed
        <3> PICK room \in Rooms : room = worker.room
            BY <1>2, <3>1
        <3>2. journal[room] # Null /\ journal[room].request \in ledger
            BY <3>1, Parts DEF Live, Out
        <3> QED
            BY <1>1, <3>1, <3>2, FinishReplying DEF Replying
    <2> QED
        BY <2>1, <2>2
<1>4. ASSUME NEW e \in fromExt, Captured(e) PROVE Replying
    <2>1. CASE UNCHANGED <<receipts, replies>>
        BY <1>1, <2>1 DEF Replying
    <2>2. CASE ~UNCHANGED <<receipts, replies>>
        <3>1. /\ worker # Null /\ Live(worker.room) /\ e.type = "captured" /\ e.found
              /\ journal[worker.room].request = e.request /\ FinishRecovered(worker.room)
            BY <1>4, <2>2 DEF Captured, CaptureReturns, CaptureMissed
        <3> PICK room \in Rooms : room = worker.room
            BY <1>2, <3>1
        <3>2. journal[room] # Null /\ journal[room].request \in ledger
            BY <3>1, Parts DEF Live, Out
        <3> QED
            BY <1>1, <3>1, <3>2, FinishReplying DEF Replying
    <2> QED
        BY <2>1, <2>2
<1> QED
    BY <1>3, <1>4

LEMMA FinalReplying ==
    ASSUME All, NEW r \in ledger, Final(r) \/ RefusedFinal(r)
    PROVE  Replying
<1>1. CASE \E room \in Rooms : LateFinal(r, room)
    <2> PICK room \in Rooms : LateFinal(r, room)
        BY <1>1
    <2>1. \A other \in Rooms : journal[other] # Null => journal[other].request # r
        BY JournalFacts DEF LateFinal, Watched
    <2>2. Committing
        BY <2>1 DEF LateFinal, Committing
    <2>3. \A other \in Rooms : watches'[other] \subseteq watches[other]
        BY Parts DEF LateFinal, MemoryTyped
    <2> QED
        BY <2>2, <2>3 DEF Replying
<1>2. CASE \E room \in Rooms : RecoveredFinal(r, room)
    <2> PICK room \in Rooms : RecoveredFinal(r, room)
        BY <1>2
    <2>1. journal[room] # Null /\ journal[room].request = r /\ FinishRecovered(room)
          /\ UNCHANGED watches
        BY DEF RecoveredFinal, Recoverable
    <2> QED
        BY <2>1, FinishReplying DEF Replying
<1>3. CASE CompletesTurn(r)
    <2>1. /\ current # Null /\ current.request = r /\ UNCHANGED watches
        BY <1>3 DEF CompletesTurn, IsCurrent
    <2> PICK room \in Rooms : room = current.room
        BY <2>1, CurrentFacts
    <2>2. journal[room] # Null /\ journal[room].request = r
        BY <2>1, CurrentFacts
    <2>3. Commit(room, r) /\ journal'[room] = Null
        BY <1>3, Parts, Closes DEF CompletesTurn
    <2>4. ~Receipted(r)
          /\ \A other \in Rooms : journal[other] # Null /\ journal[other].request = r => other = room
        BY <2>2, JournalFacts
    <2> QED
        BY <2>1, <2>3, <2>4 DEF Replying, Committing
<1>4. CASE NobodyWants(r)
    BY <1>4 DEF NobodyWants, Replying
<1>5. CASE RefusedFinal(r)
    BY <1>5 DEF RefusedFinal, Replying, snapshot, history
<1> QED
    BY <1>1, <1>2, <1>3, <1>4, <1>5 DEF Final

LEMMA StepReplying ==
    ASSUME All, Next
    PROVE  Replying
<1>1. ASSUME UNCHANGED <<receipts, watches, replies>> PROVE Replying
    BY <1>1 DEF Replying
<1>2. CASE User \/ Timeout \/ Continue \/ Reach \/ Environment
    BY <1>1, <1>2 DEF User, StartRelay, StopInFlight, StopRelay, Timeout, Continue, AppendDone,
       LocateDone, Reach, ExtSelect, ExtPrompt, ExtCapture, LocalReceives, Environment,
       ProviderAnswers, LocalAnswers, ExtPublishes, snapshot, history
<1>3. CASE Failures
    BY <1>1, <1>3 DEF Failures, StateChanged, AppendFails, ExtDrops, Crash, StartRefused, LocateFails,
       ExtFails, ProviderFails, LocalFails, snapshot, history
<1>4. CASE \E room \in Rooms : Archive(room)
    <2> PICK room \in Rooms : Archive(room)
        BY <1>4
    <2>1. journal'[room] = Null
        BY Parts DEF Archive, RoomsTyped
    <2>2. Watching /\ UNCHANGED <<receipts, replies>>
        BY <2>1 DEF Archive, Watching, history
    <2> QED
        BY <2>2 DEF Replying
<1>5. CASE Process /\ ~\E room \in Rooms : Archive(room)
    BY <1>1, <1>5 DEF Process, ProcessBusy, WorkerStale, Rest, ResumeCapture, ResumeReplay,
       ResumeUncertain, ResumeUnsupported, StartLocal, StartSelected, StartSelecting, StartOffline,
       snapshot, history
<1>6. CASE \E room \in Rooms : WatchExpires(room)
    <2>1. UNCHANGED <<receipts, replies>> /\ \A room \in Rooms : watches'[room] \subseteq watches[room]
        BY <1>6, Parts DEF WatchExpires, MemoryTyped, history
    <2> QED
        BY <2>1 DEF Replying
<1>7. CASE \E room \in Rooms : Expire(room)
    BY <1>1, <1>7 DEF Expire, history
<1>8. CASE Deliver
    <2>1. CASE \E e \in fromExt \cup fromLocal : Errored(e)
        BY <1>1, <2>1 DEF Errored, history
    <2>2. CASE \E e \in fromExt : Selected(e)
        BY <1>1, <2>2 DEF Selected, snapshot, history
    <2>3. CASE \E e \in fromLocal : LocalFinal(e)
        BY <2>3, FinalReplying, Parts DEF LocalFinal, Out
    <2>4. CASE \E r \in Requests : OnlineFinal(r)
        BY <2>4, FinalReplying, Parts DEF OnlineFinal, Out
    <2> QED
        BY <1>8, <2>1, <2>2, <2>3, <2>4, CaptureReplying DEF Deliver
<1> QED
    BY <1>2, <1>3, <1>4, <1>5, <1>6, <1>7, <1>8 DEF Next

LEMMA RecordsAfter ==
    ASSUME All, Next, Replying
    PROVE  /\ \A room \in Rooms : watches'[room] \subseteq 1 .. ids /\ receipts'[room] \subseteq 1 .. ids
           /\ \A room \in Rooms : receipts[room] \subseteq receipts'[room]
<1>0. /\ Heard /\ MemoryTyped /\ ledger \subseteq 1 .. ids
    BY Parts, MessageFacts
<1>1. ASSUME NEW room \in Rooms
      PROVE  receipts'[room] \subseteq 1 .. ids /\ receipts[room] \subseteq receipts'[room]
    <2>1. CASE Committing
        BY <1>0, <2>1 DEF Committing, Commit, Heard, MemoryTyped
    <2>2. CASE UNCHANGED receipts
        BY <1>0, <2>2 DEF Heard
    <2> QED
        BY <2>1, <2>2 DEF Replying
<1>2. ASSUME NEW room \in Rooms PROVE watches'[room] \subseteq 1 .. ids
    <2>1. CASE Watching
        <3> PICK other \in Rooms :
                /\ journal[other] # Null
                /\ watches' = [watches EXCEPT ![other] = @ \cup {journal[other].request}]
            BY <2>1 DEF Watching
        <3>1. journal[other].request \in 1 .. ids
            BY JournalFacts
        <3> QED
            BY <1>0, <3>1 DEF Heard, MemoryTyped
    <2>2. CASE \A other \in Rooms : watches'[other] \subseteq watches[other]
        BY <1>0, <2>2 DEF Heard
    <2> QED
        BY <2>1, <2>2 DEF Replying
<1> QED
    BY <1>1, <1>2

LEMMA JournalAfter ==
    ASSUME All, Next, NEW room \in Rooms, journal'[room] # Null
    PROVE  \/ journal[room] # Null /\ journal'[room].request = journal[room].request
           \/ journal'[room].request = ids + 1
<1>1. TurnStep
    BY StepFacts
<1>2. CASE UNCHANGED journal[room]
    BY <1>2
<1>3. CASE Fate(room)
    BY <1>3 DEF Fate, Kept, SameTurn, Next1, Again, Fresh
<1> QED
    BY <1>1, <1>2, <1>3 DEF TurnStep, Fate, Elsewhere

LEMMA RepliedStep ==
    ASSUME All, Next
    PROVE  Replied'
<1>0. Replying /\ Replied /\ HistoryTyped /\ MemoryTyped /\ ids \in Nat /\ ledger \subseteq ledger'
    BY Parts, StepReplying, StepFacts
<1>1. \A room \in Rooms : receipts[room] \subseteq receipts'[room]
    BY <1>0, RecordsAfter
<1>2. ASSUME NEW s \in Requests
      PROVE  replies'[s] <= 1 /\ (replies'[s] > 0 => Receipted(s)' /\ s \in ledger')
    <2>1. replies[s] \in Nat /\ replies[s] <= 1 /\ (replies[s] > 0 => Receipted(s) /\ s \in ledger)
        BY <1>0 DEF Replied, HistoryTyped
    <2>2. Receipted(s) => Receipted(s)'
        BY <1>1 DEF Receipted
    <2>3. CASE Committing
        <3> PICK room \in Rooms, r \in ledger : Commit(room, r) /\ ~Receipted(r)
            BY <2>3 DEF Committing
        <3>1. CASE s = r
            <4>1. s \in receipts'[room] /\ replies'[s] = replies[s] + 1
                BY <1>0, <3>1 DEF Commit, MemoryTyped, HistoryTyped
            <4> QED
                BY <1>0, <2>1, <3>1, <4>1 DEF Receipted
        <3>2. CASE s # r
            <4>1. replies'[s] = replies[s]
                BY <1>0, <3>2 DEF Commit, HistoryTyped
            <4> QED
                BY <1>0, <2>1, <2>2, <4>1
        <3> QED
            BY <3>1, <3>2
    <2>4. CASE UNCHANGED <<receipts, replies>>
        BY <1>0, <2>1, <2>2, <2>4
    <2> QED
        BY <1>0, <2>3, <2>4 DEF Replying
<1>3. ASSUME NEW room \in Rooms, journal'[room] # Null
      PROVE  \A other \in Rooms : /\ journal'[room].request \notin receipts'[other]
                                    /\ journal'[room].request \notin watches'[other]
    <2> PICK q : q = journal'[room].request
        OBVIOUS
    <2>1. CASE q = ids + 1
        BY <1>0, <2>1, RecordsAfter
    <2>2. CASE journal[room] # Null /\ q = journal[room].request
        <3>1. /\ ~Receipted(q) /\ \A other \in Rooms : q \notin watches[other]
              /\ \A other \in Rooms : other # room /\ journal[other] # Null =>
                    journal[other].request # q
            BY <2>2, JournalFacts
        <3>2. \A other \in Rooms : q \notin receipts'[other]
            <4>1. CASE Committing
                <5> PICK one \in Rooms, r \in ledger :
                        Commit(one, r) /\ (journal[room].request = r => journal'[room] = Null)
                    BY <2>2, <4>1 DEF Committing
                <5>1. r # q
                    BY <1>3, <2>2
                <5> QED
                    BY <1>0, <3>1, <5>1 DEF Commit, MemoryTyped, Receipted
            <4>2. CASE UNCHANGED receipts
                BY <3>1, <4>2 DEF Receipted
            <4> QED
                BY <1>0, <4>1, <4>2 DEF Replying
        <3>3. \A other \in Rooms : q \notin watches'[other]
            <4>1. CASE Watching
                <5> PICK one \in Rooms :
                        /\ journal[one] # Null /\ journal'[one] = Null
                        /\ watches' = [watches EXCEPT ![one] = @ \cup {journal[one].request}]
                    BY <4>1 DEF Watching
                <5>1. journal[one].request # q
                    BY <1>3, <3>1
                <5> QED
                    BY <1>0, <3>1, <5>1 DEF MemoryTyped
            <4>2. CASE \A other \in Rooms : watches'[other] \subseteq watches[other]
                BY <3>1, <4>2
            <4> QED
                BY <1>0, <4>1, <4>2 DEF Replying
        <3> QED
            BY <3>2, <3>3
    <2> QED
        BY <1>3, <2>1, <2>2, JournalAfter
<1> QED
    BY <1>2, <1>3 DEF Replied, Journaled, Receipted

-----------------------------------------------------------------------------
(* What a step cancels, and what it sends to be heard of.                  *)

LEMMA Cancelling ==
    ASSUME All, Next
    PROVE  \/ cancelled' = cancelled
           \/ /\ current # Null /\ current.phase # "waiting" /\ current' = Null
              /\ ledger' = ledger /\ cancelled' = cancelled \cup {current.request}
<1>1. CASE User
    <2>1. ASSUME NEW room \in Rooms, StartRelay(room) \/ StopInFlight(room) PROVE cancelled' = cancelled
        BY <2>1 DEF StartRelay, StopInFlight
    <2>2. ASSUME NEW room \in Rooms, StopRelay(room), Running(room)
          PROVE  /\ current # Null /\ current.phase # "waiting" /\ current' = Null
                 /\ ledger' = ledger /\ cancelled' = cancelled \cup {current.request}
        BY <2>2 DEF StopRelay, InFlight, Running
    <2>3. ASSUME NEW room \in Rooms, StopRelay(room), ~Running(room) PROVE cancelled' = cancelled
        BY <2>3 DEF StopRelay
    <2> QED
        BY <1>1, <2>1, <2>2, <2>3 DEF User
<1>2. CASE Timeout \/ Continue \/ Reach \/ Environment
    BY <1>2 DEF Timeout, Continue, AppendDone, LocateDone, Reach, ExtSelect, ExtPrompt, ExtCapture,
       LocalReceives, Environment, ProviderAnswers, LocalAnswers, ExtPublishes, history, stops
<1>3. CASE Failures
    BY <1>3 DEF Failures, StateChanged, AppendFails, ExtDrops, Crash, StartRefused, LocateFails,
       ExtFails, ProviderFails, LocalFails, history, stops
<1>4. CASE Process \/ \E room \in Rooms : WatchExpires(room) \/ Expire(room)
    BY <1>4 DEF Process, ProcessBusy, WorkerStale, Rest, Archive, ResumeCapture, ResumeReplay,
       ResumeUncertain, ResumeUnsupported, StartLocal, StartSelected, StartSelecting, StartOffline,
       WatchExpires, Expire, history, stops
<1>5. CASE Deliver
    BY <1>5 DEF Deliver, Selected, Captured, Errored, LocalCaptured, LocalFinal, OnlineFinal, Final,
       RefusedFinal, history, stops
<1> QED
    BY <1>1, <1>2, <1>3, <1>4, <1>5 DEF Next

LEMMA UnsentStep ==
    ASSUME All, Next
    PROVE  Unsent'
BY Parts, StepFacts, Cancelling, UnsentKept

LEMMA MessagesAfter ==
    ASSUME All, Next
    PROVE  \A c \in toExt' \cup fromExt' :
              c \in toExt \cup fromExt \/ c.type = "prompt" \/ c.request \in (1 .. ids') \cup {Null}
<1>0. /\ \A c \in toExt \cup fromExt : c.request \in (1 .. ids) \cup {Null}
      /\ ids \in Nat /\ ids' \in Nat /\ ids <= ids' /\ ledger \subseteq 1 .. ids
    BY MessageFacts, StepFacts
<1>1. 1 .. ids \subseteq 1 .. ids'
    BY <1>0
<1>2. CASE \/ User \/ Timeout \/ ProcessBusy \/ WorkerStale \/ Environment \/ StateChanged
           \/ ExtDrops \/ Crash \/ AppendFails
           \/ \E l \in locates : LocateDone(l) \/ LocateFails(l)
           \/ \E c \in toLocal : LocalReceives(c) \/ LocalFails(c)
    BY <1>2 DEF User, StartRelay, StopInFlight, StopRelay, Timeout, ProcessBusy, WorkerStale,
       Environment, ProviderAnswers, LocalAnswers, ExtPublishes, StateChanged, ExtDrops, Crash,
       AppendFails, LocateDone, LocateFails, LocalReceives, LocalFails, wires
<1>3. CASE \E room \in Rooms :
             \/ WatchExpires(room) \/ Expire(room) \/ Archive(room) \/ ResumeReplay(room)
             \/ ResumeUncertain(room) \/ ResumeUnsupported(room) \/ StartLocal(room)
             \/ StartSelected(room) \/ StartOffline(room) \/ StartRefused(room)
    BY <1>3 DEF WatchExpires, Expire, Archive, ResumeReplay, ResumeUncertain, ResumeUnsupported,
       StartLocal, StartSelected, StartOffline, StartRefused, wires
<1>4. CASE Deliver
    BY <1>4 DEF Deliver, Selected, Captured, Errored, LocalCaptured, LocalFinal, OnlineFinal, Final,
       RefusedFinal, ExtEvent, wires
<1>5. CASE Rest
    BY <1>5 DEF Rest
<1>6. ASSUME NEW room \in Rooms, ResumeCapture(room)
      PROVE  \A c \in toExt' \cup fromExt' : c \in toExt \cup fromExt \/ c.request \in 1 .. ids'
    <2>1. journal[room].request \in 1 .. ids'
        BY <1>1, <1>6, JournalFacts DEF ResumeCapture, Resuming, Live
    <2> QED
        BY <1>6, <2>1 DEF ResumeCapture
<1>7. ASSUME NEW room \in Rooms, StartSelecting(room)
      PROVE  \A c \in toExt' \cup fromExt' : c \in toExt \cup fromExt \/ c.request \in 1 .. ids'
    <2>1. ids' \in 1 .. ids'
        BY <1>0, <1>7, BeginFacts DEF StartSelecting
    <2> QED
        BY <1>7, <2>1 DEF StartSelecting
<1>8. CASE AppendDone
    BY <1>8 DEF AppendDone, Sent
<1>9. ASSUME NEW c \in toExt, ExtSelect(c) \/ ExtPrompt(c) \/ ExtCapture(c) \/ ExtFails(c)
      PROVE  \A d \in toExt' \cup fromExt' : d \in toExt \cup fromExt \/ d.request = c.request
    BY <1>9 DEF ExtSelect, ExtPrompt, ExtCapture, ExtFails, Failure
<1>10. ASSUME NEW r \in Requests, ProviderFails(r)
       PROVE  \A d \in toExt' \cup fromExt' : d \in toExt \cup fromExt \/ d.request \in 1 .. ids'
    <2>1. r \in 1 .. ids'
        BY <1>0, <1>1, <1>10, Parts DEF ProviderFails, Out
    <2> QED
        BY <1>10, <2>1 DEF ProviderFails, Failure
<1>11. \A c \in toExt : c.request \in (1 .. ids') \cup {Null}
    BY <1>0, <1>1
<1> QED
    BY <1>2, <1>3, <1>4, <1>5, <1>6, <1>7, <1>8, <1>9, <1>10, <1>11
       DEF Next, Process, Continue, Reach, Failures

LEMMA HeardStep ==
    ASSUME All, Next
    PROVE  Heard'
<1>1. cancelled' \subseteq 1 .. ids
    BY Cancelling, CurrentFacts, Parts DEF Heard
<1> QED
    BY <1>1, StepReplying, RecordsAfter, MessagesAfter, HeardKept

-----------------------------------------------------------------------------
(* The invariant of the dispatch, and what follows from it.                *)

LEMMA DispatchInitial == Init => All
<1> SUFFICES ASSUME Init PROVE All
    OBVIOUS
<1>1. IInv
    BY Initial
<1>2. Known /\ Heard
    BY DEF Init, Known, Heard, Journaled
<1>3. Awaiting /\ Out
    BY DEF Init, Awaiting, Out
<1>4. Marked /\ Single /\ Halting /\ Unsent
    BY DEF Init, Marked, MarkedRoom, Single, Live, Journaled, Halting, HaltedRoom, Unsent
<1>5. Replied
    BY DEF Init, Replied, Journaled
<1> QED
    BY <1>1, <1>2, <1>3, <1>4, <1>5 DEF All, DInv

LEMMA DispatchStutters ==
    ASSUME All, UNCHANGED vars
    PROVE  All'
<1>1. IInv'
    BY Inductive DEF All
<1>2. UNCHANGED <<relay, pending, journal, watches, receipts, ledger, current, gates, locates,
                  toExt, fromExt, toLocal, fromLocal, outbox, delivered, answered, turnOf,
                  cancelled, halted, replies, ids, turns>>
    BY DEF vars, snapshot, awaits, wires, provider, history, stops, counters
<1>3. Known' /\ Heard'
    BY <1>2, Parts DEF Known, Heard, Journaled, TurnOfJournal
<1>4. Awaiting' /\ Out'
    BY <1>2, Parts DEF Awaiting, Out
<1>5. Marked' /\ Halting' /\ Unsent'
    BY <1>2, Parts DEF Marked, MarkedRoom, Halting, HaltedRoom, Unsent, Journaled
<1>6. Single' /\ Replied'
    BY <1>2, Parts DEF Single, Live, Replied, Receipted, Journaled
<1> QED
    BY <1>1, <1>3, <1>4, <1>5, <1>6 DEF All, DInv

LEMMA DispatchInductive ==
    ASSUME ~InterruptAwaits
    PROVE  All /\ [Next]_vars => All'
<1> SUFFICES ASSUME All, [Next]_vars PROVE All'
    OBVIOUS
<1>1. CASE Next
    <2>1. IInv'
        BY <1>1, Inductive DEF All
    <2>2. Before /\ RoomStep /\ TurnStep
        BY <1>1, StepFacts
    <2>3. Known' /\ Single'
        BY <2>2, Parts, KnownKept, SingleKept
    <2>4. Marked' /\ Halting'
        BY <2>2, MarkedKept, HaltingKept
    <2>5. Awaiting' /\ Out' /\ Heard' /\ Replied' /\ Unsent'
        BY <1>1, AwaitingStep, OutStep, HeardStep, RepliedStep, UnsentStep
    <2> QED
        BY <2>1, <2>3, <2>4, <2>5 DEF All, DInv
<1>2. CASE UNCHANGED vars
    BY <1>2, DispatchStutters
<1> QED
    BY <1>1, <1>2

THEOREM DispatchInvariance ==
    ASSUME ~InterruptAwaits
    PROVE  Spec => []All
BY DispatchInitial, DispatchInductive, PTL DEF Spec

\* A prompt is at a provider only if the ledger has its request: a restart never
\* takes a turn whose prompt is out for one that may be run again.
THEOREM LedgerComesFirst ==
    ASSUME ~InterruptAwaits
    PROVE  Spec => []LedgerBeforeSend
<1>1. All => LedgerBeforeSend
    BY Parts DEF Out, LedgerBeforeSend, Dispatched
<1> QED
    BY <1>1, DispatchInvariance, PTL

\* However often a turn is retried, parked, replayed or cut off by a restart, its
\* prompt is sent at most once under all the requests made for it.
THEOREM SentOnce ==
    ASSUME ~InterruptAwaits
    PROVE  Spec => []SendOnce
<1>1. All => SendOnce
    <2> SUFFICES ASSUME All PROVE SendOnce
        OBVIOUS
    <2>1. Out /\ Single
        BY Parts
    <2> QED
        BY <2>1 DEF Out, Single, SendOnce
<1> QED
    BY <1>1, DispatchInvariance, PTL

\* Whether the final comes from the outbox, from a local call, late, or from a
\* capture, a turn's reply is committed at most once.
THEOREM RepliedOnce ==
    ASSUME ~InterruptAwaits
    PROVE  Spec => []ReplyOnce
<1>1. All => ReplyOnce
    <2> SUFFICES ASSUME All PROVE ReplyOnce
        OBVIOUS
    <2>1. \A r \in Requests : replies[r] <= 1 /\ (replies[r] > 0 => r \in ledger)
        BY Parts DEF Replied
    <2>2. \A r, s \in ledger : turnOf[r].turn = turnOf[s].turn => r = s
        BY Parts DEF Single
    <2> QED
        BY <2>1, <2>2 DEF ReplyOnce
<1> QED
    BY <1>1, DispatchInvariance, PTL

LEMMA StuckStep ==
    ASSUME All, Next, NEW room \in Rooms
    PROVE  Stuck(room)
<1>1. Before /\ RoomStep /\ RoomSound(room)
    BY StepFacts, Parts DEF Sound
<1>2. CASE UNCHANGED pending[room]
    BY <1>1, <1>2 DEF Stuck, RoomSound, Journaled
<1> QED
    BY <1>1, <1>2, StepMarks DEF Marks, Elsewhere

\* After Stop, or when its recovery has run out of time, a room queues no other
\* turn until it is started again, whatever comes back from the provider.
THEOREM StopIsFinal ==
    ASSUME ~InterruptAwaits
    PROVE  Spec => StopSticks
<1> DEFINE Sticks == \A room \in Rooms :
                        pending'[room] # Null =>
                           /\ room \notin halted'
                           /\ ~(journal[room] # Null /\ journal[room].stop)
<1>1. All /\ All' /\ [Next]_vars => [Sticks]_vars
    <2> SUFFICES ASSUME All, All', Next, NEW room \in Rooms, pending'[room] # Null
                 PROVE  room \notin halted' /\ ~(journal[room] # Null /\ journal[room].stop)
        OBVIOUS
    <2>1. ~(journal[room] # Null /\ journal[room].stop)
        BY StuckStep DEF Stuck, Journaled
    <2>2. HaltedRoom(room)'
        BY DEF All, DInv, Halting
    <2> QED
        BY <2>1, <2>2 DEF HaltedRoom
<1>2. Spec => []All
    BY DispatchInvariance
<1> QED
    BY <1>1, <1>2, PTL DEF Spec, StopSticks

\* Prompts reach a provider only under requests of the ledger.
LEMMA DeliveredStep ==
    ASSUME All, Next, NEW s \in Requests \ ledger
    PROVE  delivered'[s] = delivered[s]
<1>0. delivered \in [Requests -> Seq(Targets)]
    BY Parts DEF WiresTyped
<1>1. ASSUME NEW c \in toExt, ExtSelect(c) \/ ExtPrompt(c) \/ ExtCapture(c) \/ ExtFails(c)
      PROVE  delivered'[s] = delivered[s]
    <2>1. c.type = "prompt" => c.request # s
        BY Parts DEF Out
    <2> QED
        BY <1>0, <1>1, <2>1 DEF ExtSelect, ExtPrompt, ExtCapture, ExtFails, provider
<1>2. ASSUME NEW c \in toLocal, LocalReceives(c) \/ LocalFails(c)
      PROVE  delivered'[s] = delivered[s]
    <2>1. c.request # s
        BY Parts DEF Out
    <2> QED
        BY <1>0, <1>2, <2>1 DEF LocalReceives, LocalFails, provider
<1>3. CASE User \/ Timeout \/ Continue \/ Environment \/ StateChanged \/ AppendFails \/ ExtDrops
           \/ Crash \/ (\E l \in locates : LocateFails(l)) \/ (\E r \in Requests : ProviderFails(r))
           \/ \E room \in Rooms : StartRefused(room)
    BY <1>3 DEF User, StartRelay, StopInFlight, StopRelay, Timeout, Continue, AppendDone, LocateDone,
       Environment, ProviderAnswers, LocalAnswers, ExtPublishes, StateChanged, AppendFails, ExtDrops,
       Crash, LocateFails, ProviderFails, StartRefused, provider
<1>4. CASE Process \/ \E room \in Rooms : WatchExpires(room) \/ Expire(room)
    BY <1>4 DEF Process, ProcessBusy, WorkerStale, Rest, Archive, ResumeCapture, ResumeReplay,
       ResumeUncertain, ResumeUnsupported, StartLocal, StartSelected, StartSelecting, StartOffline,
       WatchExpires, Expire, provider
<1>5. CASE Deliver
    BY <1>5 DEF Deliver, Selected, Captured, Errored, LocalCaptured, LocalFinal, OnlineFinal, Final,
       RefusedFinal, provider
<1> QED
    BY <1>1, <1>2, <1>3, <1>4, <1>5 DEF Next, Reach, Failures

\* What Stop cancels before its dispatch is never sent, although its continuation
\* may still be awaited.
THEOREM CancelledIsUnsent ==
    ASSUME ~InterruptAwaits
    PROVE  Spec => StoppedNeverSent
<1> DEFINE Silent == \A r \in cancelled : delivered'[r] = delivered[r]
<1>1. All /\ [Next]_vars => [Silent]_vars
    <2> SUFFICES ASSUME All, Next, NEW r \in cancelled PROVE delivered'[r] = delivered[r]
        OBVIOUS
    <2>1. r \in Requests \ ledger
        BY Parts DEF Unsent, HistoryTyped
    <2> QED
        BY <2>1, DeliveredStep
<1>2. Spec => []All
    BY DispatchInvariance
<1> QED
    BY <1>1, <1>2, PTL DEF Spec, StoppedNeverSent
=============================================================================
