---------------------------- MODULE DexScheduler ----------------------------
(***************************************************************************)
(* The Dex relay runtime of the Nexus server: the turn scheduler           *)
(* (dex/server-scheduler.js), its room state (server-scheduler-state.js),  *)
(* interrupted-turn recovery (server-scheduler-recovery.js and its         *)
(* helpers), the dispatch gate and durable turn ledger                     *)
(* (server-durability.js, turn-ledger.js), and as much of the browser      *)
(* extension (extension/service-worker.js) and of a local target as        *)
(* decides where a prompt lands.                                           *)
(*                                                                         *)
(* JavaScript runs one handler at a time between awaits, so an action is a *)
(* handler up to its first await on something slow, or a continuation      *)
(* after one: the ledger append of a dispatch (`gates`) and the refresh of *)
(* the local targets (`locates`).  The append of an observed event is      *)
(* merged with the handler behind it, which only runs after it.            *)
(*                                                                         *)
(* Abstracted: message texts and what an agent's reply says (a reply stops *)
(* the room or goes to a next member, either way), budget extensions, the  *)
(* durable inbox, app-origin targets (as local ones, with a later gate),   *)
(* elapsed time (a deadline may pass whenever its timer is armed), why a   *)
(* reply is refused (a fault of kind "reply": it names another request or  *)
(* says nothing; a capture of a local target is not refused), the          *)
(* selection before a capture (one command with it), the reopening of a    *)
(* closed tab (as its selection), the states of a ledger entry (recovery   *)
(* asks only whether there is one), and prompt_accepted and the activity   *)
(* events, which renew the lease of a turn.                                *)
(***************************************************************************)
EXTENDS Integers, Sequences, FiniteSets

CONSTANTS
    Rooms,
    Members,            \* agents; each is bound to a target of its own
    LocalMembers,       \* those bound to a Local-Origin target
    MembersOf,          \* the members of each room
    UserTab,            \* a provider tab no member is bound to
    Null,
    Budget,             \* turns a started relay may take
    MaxRetries,         \* maxAttempts of the retry policies
    InterruptAwaits,    \* bound: may Stop or a disconnect hit an open await?
    FaultKinds,         \* bound: the kinds of failure that may happen
    MaxStarts,          \* bound: relays started
    MaxFaults,          \* bound: failures of those kinds, together
    MaxRequests         \* bound: request ids

Requests == 1 .. MaxRequests
Tabs == (Members \ LocalMembers) \cup {UserTab}
Targets == Members \cup {UserTab}

ASSUME MembersAssumption ==
    /\ LocalMembers \subseteq Members
    /\ UserTab \notin Members
    /\ MembersOf \in [Rooms -> SUBSET Members \ {{}}]
ASSUME NullAssumption == Null \notin Rooms \cup Targets \cup Requests
ASSUME BoundsAssumption ==
    /\ Budget \in Nat \ {0} /\ MaxRetries \in Nat
    /\ InterruptAwaits \in BOOLEAN
    /\ FaultKinds \subseteq {"crash", "drop", "append", "command", "target", "ui", "reply"}
    /\ MaxStarts \in Nat /\ MaxFaults \in Nat /\ MaxRequests \in Nat

VARIABLES
    \* the durable room snapshot
    relay,      \* of each room: active, and the turns that remain
    pending,    \* the queued turn of each room, or Null
    journal,    \* the recovery journal of each room, or Null
    restoreTo,  \* the tab to reselect when the relays are done, or Null
    watches,    \* requests whose late final a room still accepts
    receipts,   \* requests whose final a room has committed
    ledger,     \* the requests the durable ledger has an entry of
    \* server memory
    current,    \* the turn being run, or Null
    worker,     \* the recovery that waits for its answer, or Null
    gates,      \* dispatches waiting for their ledger append, in order
    locates,    \* turns waiting for a refresh of the local targets
    reliable,   \* no append has failed since the ledger was read
    view,       \* the selected tab, as the server last heard
    awake,      \* a processSoon timer is set
    \* the extension and the targets
    extUp, extTab,          \* connected; the tab that gets the next prompt
    toExt, fromExt,         \* commands under way to it, events from it
    toLocal, fromLocal,
    outbox,                 \* finals the extension keeps until receipted
    delivered,  \* history: where each request's prompt went
    answered,   \* requests the provider has answered
    \* history and bounds
    turnOf,     \* the turn each request was made for, or Null
    cancelled,  \* requests Stop cancelled before their dispatch
    halted,     \* rooms stopped since their relay was last started
    replies,    \* how often each request's reply was committed
    ids, turns, starts, faults

snapshot == <<relay, pending, journal, restoreTo, watches, receipts>>
awaits == <<gates, locates>>
wires == <<extUp, extTab, toExt, fromExt, toLocal, fromLocal, outbox>>
provider == <<delivered, answered>>
stops == <<cancelled, halted>>
history == <<turnOf, stops, replies>>
counters == <<ids, turns, starts, faults>>
vars == <<snapshot, ledger, current, worker, awaits, reliable, view, awake,
          wires, provider, history, counters>>

Off == [active |-> FALSE, remaining |-> 0]

Init ==
    /\ relay = [room \in Rooms |-> Off]
    /\ pending = [room \in Rooms |-> Null]
    /\ journal = [room \in Rooms |-> Null]
    /\ restoreTo = [room \in Rooms |-> Null]
    /\ watches = [room \in Rooms |-> {}]
    /\ receipts = [room \in Rooms |-> {}]
    /\ ledger = {}
    /\ current = Null /\ worker = Null
    /\ gates = <<>> /\ locates = {}
    /\ reliable = TRUE /\ awake = TRUE
    /\ extUp = TRUE /\ extTab = UserTab /\ view = UserTab
    /\ toExt = {} /\ fromExt = {} /\ toLocal = {} /\ fromLocal = {}
    /\ outbox = {}
    /\ delivered = [r \in Requests |-> <<>>] /\ answered = {}
    /\ turnOf = [r \in Requests |-> Null]
    /\ cancelled = {} /\ halted = {} /\ replies = [r \in Requests |-> 0]
    /\ ids = 0 /\ turns = 0 /\ starts = 0 /\ faults = 0

Fault(kind) == kind \in FaultKinds /\ faults < MaxFaults /\ faults' = faults + 1

-----------------------------------------------------------------------------
(* The ledger, and what the room state machine is made of.                 *)

\* dispatchMayHaveOccurred: in whatever state the entry is.
Dispatched(r) == r \in ledger

\* Mutant: the journal outlives the stop.
SetStoppedKeepingJournal(room) ==
    /\ relay' = [relay EXCEPT ![room] = Off]
    /\ pending' = [pending EXCEPT ![room] = Null]
    /\ UNCHANGED journal

SetStopped(room) ==
    /\ relay' = [relay EXCEPT ![room] = Off]
    /\ pending' = [pending EXCEPT ![room] = Null]
    /\ journal' = [journal EXCEPT ![room] = Null]

\* Mutant: the relay does not look whether turns remain.
EnqueueNextBeyondBudget(room, at) ==
    IF ~at.active
    THEN SetStopped(room) /\ UNCHANGED turns
    ELSE /\ turns' = turns + 1
         /\ relay' = [relay EXCEPT ![room] =
                [active |-> TRUE, remaining |-> at.remaining - 1]]
         /\ \E m \in MembersOf[room] :
                pending' = [pending EXCEPT ![room] =
                    [member |-> m, turn |-> turns', retry |-> 0]]
         /\ journal' = [journal EXCEPT ![room] = Null]

\* `at` is the relay state of the room when the next turn is queued.
EnqueueNext(room, at) ==
    IF ~at.active \/ at.remaining = 0
    THEN SetStopped(room) /\ UNCHANGED turns
    ELSE /\ turns' = turns + 1
         /\ relay' = [relay EXCEPT ![room] =
                [active |-> TRUE, remaining |-> at.remaining - 1]]
         /\ \E m \in MembersOf[room] :
                pending' = [pending EXCEPT ![room] =
                    [member |-> m, turn |-> turns', retry |-> 0]]
         /\ journal' = [journal EXCEPT ![room] = Null]

\* What follows a committed reply: it ends the relay, or the next turn does.
Follow(room, at) ==
    \/ SetStopped(room) /\ UNCHANGED turns
    \/ EnqueueNext(room, at)

Commit(room, r) ==
    /\ receipts' = [receipts EXCEPT ![room] = @ \cup {r}]
    /\ replies' = [replies EXCEPT ![r] = @ + 1]

FailCurrent ==
    IF current = Null
    THEN UNCHANGED <<relay, pending, journal, current, awake>>
    ELSE SetStopped(current.room) /\ current' = Null /\ awake' = TRUE

JournalDispatched(room) ==
    IF journal[room] = Null THEN journal
    ELSE [journal EXCEPT ![room].dispatched = TRUE]

\* parkCurrent, on the journals `at` that moment.
Park(at) ==
    LET room == current.room
    IN  /\ current' = Null
        /\ IF at[room] = Null
           THEN UNCHANGED <<relay, journal>>
           ELSE /\ journal' = [at EXCEPT ![room].interrupted = TRUE]
                /\ relay' = [relay EXCEPT ![room] = Off]
        /\ UNCHANGED pending

\* handleTurnError, for the three actions of the failure policy that differ
\* here; a retry after the dispatch becomes a recovery.
TurnError(kind) ==
    LET room == current.room
        dispatched == journal[room] # Null /\ journal[room].dispatched
    IN  CASE kind = "retry" /\ ~dispatched /\ current.retry < MaxRetries ->
               /\ current' = Null /\ awake' = TRUE
               /\ journal' = [journal EXCEPT ![room] = Null]
               /\ pending' = [pending EXCEPT ![room] =
                     [member |-> current.member, turn |-> current.turn,
                      retry |-> current.retry + 1]]
               /\ UNCHANGED relay
          [] kind = "recover" \/ (kind = "retry" /\ dispatched) ->
               Park(journal) /\ awake' = TRUE
          [] OTHER -> FailCurrent

-----------------------------------------------------------------------------
(* The user.                                                               *)

MayInterrupt == InterruptAwaits \/ (gates = <<>> /\ locates = {})

Running(room) == current # Null /\ current.room = room

StartRelay(room) ==
    /\ starts < MaxStarts /\ starts' = starts + 1
    /\ ~Running(room) /\ journal[room] = Null /\ pending[room] = Null
    /\ EnqueueNext(room, [active |-> TRUE, remaining |-> Budget])
    /\ awake' = TRUE
    /\ halted' = halted \ {room}
    /\ UNCHANGED <<restoreTo, watches, receipts, ledger, current, worker, awaits,
                   reliable, view, wires, provider, turnOf, cancelled, replies, ids,
                   faults>>

InFlight(room) ==
    /\ Running(room)
    /\ current.phase = "waiting" \/ (journal[room] # Null /\ journal[room].dispatched)

\* Mutant: Stop is not written into the journal.
StopInFlightForgotten(room) ==
    /\ InFlight(room) /\ MayInterrupt
    /\ relay' = [relay EXCEPT ![room] = Off]
    /\ halted' = halted \cup {room}
    /\ UNCHANGED <<pending, journal, restoreTo, watches, receipts, ledger, current,
                   worker, awaits, reliable, view, awake, wires, provider,
                   turnOf, cancelled, replies, counters>>

StopInFlight(room) ==
    /\ InFlight(room) /\ MayInterrupt
    /\ relay' = [relay EXCEPT ![room] = Off]
    /\ halted' = halted \cup {room}
    /\ journal' = IF journal[room] = Null THEN journal
                  ELSE [journal EXCEPT ![room] =
                     [@ EXCEPT !.stop = TRUE, !.active = FALSE, !.remaining = 0]]
    /\ UNCHANGED <<pending, restoreTo, watches, receipts, ledger, current, worker,
                   awaits, reliable, view, awake, wires, provider, turnOf, cancelled,
                   replies, counters>>

\* Mutant: the turn that has selected its target goes on.
StopRelayKeepingTurn(room) ==
    /\ ~InFlight(room) /\ MayInterrupt
    /\ relay[room].active \/ pending[room] # Null \/ journal[room] # Null
    /\ SetStopped(room)
    /\ halted' = halted \cup {room}
    /\ awake' = TRUE
    /\ cancelled' = IF Running(room) THEN cancelled \cup {current.request} ELSE cancelled
    /\ UNCHANGED <<restoreTo, watches, receipts, ledger, current, worker, awaits,
                   reliable, view, wires, provider, turnOf, replies, counters>>

\* Stopping an idle room would change nothing.
StopRelay(room) ==
    /\ ~InFlight(room) /\ MayInterrupt
    /\ relay[room].active \/ pending[room] # Null \/ journal[room] # Null
    /\ SetStopped(room)
    /\ halted' = halted \cup {room}
    /\ awake' = TRUE
    /\ IF Running(room)
       THEN current' = Null /\ cancelled' = cancelled \cup {current.request}
       ELSE UNCHANGED <<current, cancelled>>
    /\ UNCHANGED <<restoreTo, watches, receipts, ledger, worker, awaits, reliable,
                   view, wires, provider, turnOf, replies, counters>>

-----------------------------------------------------------------------------
(* process(): first passive recoveries, then live ones, then queued turns. *)

Processing == awake /\ current = Null

\* A timer that fires during a turn is spent; the end of the turn sets a new one.
ProcessBusy ==
    /\ awake /\ current # Null
    /\ awake' = FALSE
    /\ UNCHANGED <<snapshot, ledger, current, worker, awaits, reliable, view, wires,
                   provider, history, counters>>

\* The grace of a passive recovery is over.
Archive(room) ==
    /\ Processing
    /\ journal[room] # Null /\ journal[room].passive
    /\ ~relay[room].active /\ pending[room] = Null
    /\ watches' = [watches EXCEPT ![room] = @ \cup {journal[room].request}]
    /\ journal' = [journal EXCEPT ![room] = Null]
    /\ UNCHANGED <<relay, pending, restoreTo, receipts, ledger, current, worker,
                   awaits, reliable, view, awake, wires, provider, history, counters>>

WatchExpires(room) ==
    /\ Processing
    /\ \E r \in watches[room] : watches' = [watches EXCEPT ![room] = @ \ {r}]
    /\ UNCHANGED <<relay, pending, journal, restoreTo, receipts, ledger, current,
                   worker, awaits, reliable, view, awake, wires, provider, history,
                   counters>>

Live(room) == journal[room] # Null /\ ~journal[room].passive

\* Mutant: a parked turn whose capture is not out does not count.
HasActiveWork == worker # Null

HasWork == worker # Null \/ \E room \in Rooms : Live(room)

Recovering(room) == worker # Null => worker.room = room

\* The recovery window is over, with or without a capture out.
Expire(room) ==
    /\ Processing /\ Live(room) /\ Recovering(room)
    /\ journal' = [journal EXCEPT ![room] =
          [@ EXCEPT !.passive = TRUE, !.stop = TRUE, !.active = FALSE, !.remaining = 0]]
    /\ relay' = [relay EXCEPT ![room] = Off]
    /\ pending' = [pending EXCEPT ![room] = Null]
    /\ worker' = Null
    /\ UNCHANGED <<restoreTo, watches, receipts, ledger, current, awaits, reliable, view,
                   awake, wires, provider, history, counters>>

\* The journal of the capture that is out is gone.
WorkerStale ==
    /\ Processing
    /\ worker # Null
    /\ ~(Live(worker.room) /\ journal[worker.room].request = worker.request)
    /\ worker' = Null
    /\ UNCHANGED <<snapshot, ledger, current, awaits, reliable, view, awake, wires,
                   provider, history, counters>>

Resuming(room) == Processing /\ worker = Null /\ Live(room)

\* The ledger knows the request: its prompt may be out, so look for its answer.
\* A direct target is read in the server, an online one through the extension,
\* with the selection of its tab and the capture as one command.
ResumeCapture(room) ==
    LET m == journal[room].member  r == journal[room].request
    IN  /\ Resuming(room) /\ Dispatched(r)
        /\ journal' = JournalDispatched(room)
        /\ IF m \notin LocalMembers /\ ~extUp
           THEN UNCHANGED <<worker, toExt>>
           ELSE /\ worker' = [room |-> room, request |-> r]
                /\ toExt' = IF m \in LocalMembers THEN toExt
                            ELSE toExt \cup {[type |-> "capture", request |-> r, tab |-> m]}
        /\ UNCHANGED <<relay, pending, restoreTo, watches, receipts, ledger, current,
                       awaits, reliable, view, awake, extUp, extTab, fromExt, toLocal,
                       fromLocal, outbox, provider, history, counters>>

\* Mutant: the ledger's entry is not looked at.
ResumeReplayBlindly(room) ==
    LET j == journal[room]
    IN  /\ Resuming(room) /\ reliable
        /\ relay' = [relay EXCEPT ![room] =
              [active |-> j.active, remaining |-> j.remaining]]
        /\ pending' = [pending EXCEPT ![room] =
              [member |-> j.member, turn |-> j.turn, retry |-> j.retry]]
        /\ journal' = [journal EXCEPT ![room] = Null]
        /\ UNCHANGED <<restoreTo, watches, receipts, ledger, current, worker, awaits,
                       reliable, view, awake, wires, provider, history, counters>>

\* Mutant: the turn to be run again is paid back to the relay.
ResumeReplayRefunding(room) ==
    LET j == journal[room]
    IN  /\ Resuming(room) /\ reliable /\ ~Dispatched(j.request)
        /\ relay' = [relay EXCEPT ![room] =
              [active |-> j.active, remaining |-> j.remaining + 1]]
        /\ pending' = [pending EXCEPT ![room] =
              [member |-> j.member, turn |-> j.turn, retry |-> j.retry]]
        /\ journal' = [journal EXCEPT ![room] = Null]
        /\ UNCHANGED <<restoreTo, watches, receipts, ledger, current, worker, awaits,
                       reliable, view, awake, wires, provider, history, counters>>

\* A reliable ledger does not know the request: run the turn again, with an id
\* of its own.
ResumeReplay(room) ==
    LET j == journal[room]
    IN  /\ Resuming(room) /\ reliable /\ ~Dispatched(j.request)
        /\ relay' = [relay EXCEPT ![room] =
              [active |-> j.active, remaining |-> j.remaining]]
        /\ pending' = [pending EXCEPT ![room] =
              [member |-> j.member, turn |-> j.turn, retry |-> j.retry]]
        /\ journal' = [journal EXCEPT ![room] = Null]
        /\ UNCHANGED <<restoreTo, watches, receipts, ledger, current, worker, awaits,
                       reliable, view, awake, wires, provider, history, counters>>

ResumeUncertain(room) ==
    /\ Resuming(room) /\ ~reliable /\ ~Dispatched(journal[room].request)
    /\ SetStopped(room)
    /\ awake' = FALSE
    /\ UNCHANGED <<restoreTo, watches, receipts, ledger, current, worker, awaits,
                   reliable, view, wires, provider, history, counters>>

\* An online provider that offers no recovery and capture: there is no way to
\* look for the answer.
ResumeUnsupported(room) ==
    /\ Resuming(room) /\ Dispatched(journal[room].request)
    /\ journal[room].member \notin LocalMembers /\ extUp
    /\ SetStopped(room)
    /\ UNCHANGED <<restoreTo, watches, receipts, ledger, current, worker, awaits,
                   reliable, view, awake, wires, provider, history, counters>>

Queued(room) == pending[room] # Null /\ relay[room].active

\* A queued turn gets a request id, and a journal saved before anything is sent.
NewTurn(room, interrupted) ==
    LET p == pending[room]
    IN  /\ Processing /\ ~HasWork /\ Queued(room)
        /\ ids < MaxRequests /\ ids' = ids + 1
        /\ turnOf' = [turnOf EXCEPT ![ids'] =
              [room |-> room, member |-> p.member, turn |-> p.turn]]
        /\ pending' = [pending EXCEPT ![room] = Null]
        /\ journal' = [journal EXCEPT ![room] =
              [request |-> ids', member |-> p.member, turn |-> p.turn,
               retry |-> p.retry, dispatched |-> FALSE, interrupted |-> interrupted,
               passive |-> FALSE, stop |-> FALSE, active |-> relay[room].active,
               remaining |-> relay[room].remaining]]

Begin(room, phase) ==
    LET p == pending[room]
    IN  /\ NewTurn(room, FALSE)
        /\ current' = [request |-> ids', room |-> room, member |-> p.member,
                       turn |-> p.turn, retry |-> p.retry, phase |-> phase]
        /\ awake' = FALSE

StartLocal(room) ==
    /\ Begin(room, "ready")
    /\ current'.member \in LocalMembers
    /\ locates' = locates \cup {[request |-> ids', target |-> current'.member]}
    /\ UNCHANGED <<relay, restoreTo, watches, receipts, ledger, worker, gates, reliable,
                   view, wires, provider, stops, replies, turns, starts, faults>>

\* The member's tab is the selected one: straight to the dispatch gate.
StartSelected(room) ==
    /\ Begin(room, "ready")
    /\ extUp /\ view = current'.member
    /\ gates' = Append(gates,
          [request |-> ids', target |-> current'.member, via |-> "process"])
    /\ UNCHANGED <<relay, restoreTo, watches, receipts, ledger, worker, locates,
                   reliable, view, wires, provider, stops, replies, turns, starts,
                   faults>>

StartSelecting(room) ==
    /\ Begin(room, "selecting")
    /\ current'.member \notin LocalMembers
    /\ extUp /\ view # current'.member
    /\ restoreTo' = [restoreTo EXCEPT ![room] = IF @ = Null THEN view ELSE @]
    /\ toExt' = toExt \cup {[type |-> "select", request |-> ids', tab |-> current'.member]}
    /\ UNCHANGED <<relay, watches, receipts, ledger, worker, awaits, reliable, view,
                   extUp, extTab, fromExt, toLocal, fromLocal, outbox, provider,
                   stops, replies, turns, starts, faults>>

\* The extension is away: the turn is parked at once.
StartOffline(room) ==
    /\ NewTurn(room, TRUE)
    /\ pending[room].member \notin LocalMembers /\ ~extUp
    /\ relay' = [relay EXCEPT ![room] = Off]
    /\ awake' = FALSE
    /\ UNCHANGED <<restoreTo, watches, receipts, ledger, current, worker, awaits,
                   reliable, view, wires, provider, stops, replies, turns, starts,
                   faults>>

\* The provider cannot send, or its health forbids it.
StartRefused(room) ==
    /\ Processing /\ ~HasWork /\ Queued(room)
    /\ Fault("target")
    /\ ids < MaxRequests /\ ids' = ids + 1
    /\ turnOf' = [turnOf EXCEPT ![ids'] = [room |-> room, turn |-> pending[room].turn,
                                           member |-> pending[room].member]]
    /\ SetStopped(room)
    /\ UNCHANGED <<restoreTo, watches, receipts, ledger, current, worker, awaits,
                   reliable, view, awake, wires, provider, stops, replies, turns,
                   starts>>

\* Nothing to run: reselect the tab the user had, if all relays are done.  A
\* passive recovery keeps a timer for the end of its grace.
Rest ==
    /\ Processing /\ ~HasWork
    /\ \A room \in Rooms : ~Queued(room)
    /\ awake' = \E room \in Rooms : journal[room] # Null
    /\ IF awake' \/ \E room \in Rooms : relay[room].active
       THEN UNCHANGED <<restoreTo, toExt>>
       ELSE \/ /\ \A room \in Rooms : restoreTo[room] = Null
               /\ UNCHANGED <<restoreTo, toExt>>
            \/ \E room \in Rooms :
                 /\ restoreTo[room] # Null
                 /\ restoreTo' = [restoreTo EXCEPT ![room] = Null]
                 /\ toExt' = IF extUp
                             THEN toExt \cup {[type |-> "select", request |-> Null,
                                               tab |-> restoreTo[room]]}
                             ELSE toExt
    /\ UNCHANGED <<relay, pending, journal, watches, receipts, ledger, current, worker,
                   awaits, reliable, view, extUp, extTab, fromExt, toLocal, fromLocal,
                   outbox, provider, history, counters>>

\* The page edits the rooms: onStateChanged.
StateChanged ==
    /\ Fault("ui")
    /\ current = Null /\ ~awake
    /\ awake' = TRUE
    /\ UNCHANGED <<snapshot, ledger, current, worker, awaits, reliable, view, wires,
                   provider, history, ids, turns, starts>>

-----------------------------------------------------------------------------
(* Continuations: what runs when an await returns, on the current turn of  *)
(* that moment.                                                            *)

Reserved(r) == Dispatched(r) \/ \E i \in DOMAIN gates : gates[i].request = r

\* dispatchDirect, of the turn that is current when the targets are known.
LocateDone(l) ==
    /\ l \in locates
    /\ locates' = locates \ {l}
    /\ IF current = Null \/ ~Reserved(current.request)
       THEN /\ gates' = IF current = Null THEN gates
                        ELSE Append(gates, [request |-> current.request,
                                            target |-> l.target, via |-> "direct"])
            /\ UNCHANGED <<relay, pending, journal, current, awake>>
       ELSE TurnError("stop") /\ UNCHANGED gates
    /\ UNCHANGED <<restoreTo, watches, receipts, ledger, worker, reliable, view, wires, provider,
                   history, counters>>

LocateFails(l) ==
    /\ Fault("target")
    /\ l \in locates
    /\ locates' = locates \ {l}
    /\ IF current = Null
       THEN UNCHANGED <<relay, pending, journal, current, awake>>
       ELSE TurnError("retry")
    /\ UNCHANGED <<restoreTo, watches, receipts, ledger, worker, gates, reliable, view,
                   wires, provider, history, ids, turns, starts>>

\* The ledger holds the dispatch of g: mark the journal of the current turn and
\* send, an online turn's prompt by what `current` says, a direct one's by g.
Sent(g) ==
    /\ journal' = JournalDispatched(current.room)
    /\ current' = [current EXCEPT !.phase = "waiting"]
    /\ IF g.via = "direct"
       THEN toLocal' = toLocal \cup {[request |-> g.request, target |-> g.target,
                                            received |-> FALSE]}
            /\ UNCHANGED toExt
       ELSE toExt' = toExt \cup {[type |-> "prompt", request |-> current.request]}
            /\ UNCHANGED toLocal
    /\ UNCHANGED <<relay, pending>>

\* Mutant: the prompt is sent while the append is still under way.
AppendAfterSend ==
    LET g == Head(gates)
    IN  /\ gates # <<>>
        /\ gates' = Tail(gates)
        /\ CASE current = Null ->
                  UNCHANGED <<relay, pending, journal, current, toExt, toLocal>>
             [] current # Null /\ (g.via = "direct" \/ extUp) -> Sent(g)
             [] OTHER ->
                  Park(JournalDispatched(current.room)) /\ UNCHANGED <<toExt, toLocal>>
        /\ UNCHANGED <<restoreTo, watches, receipts, ledger, worker, locates, reliable,
                       view, awake, extUp, extTab, fromExt, fromLocal, outbox, provider,
                       history, counters>>

\* With no current turn the continuation dies of a TypeError.
AppendDone ==
    LET g == Head(gates)
    IN  /\ gates # <<>>
        /\ gates' = Tail(gates)
        /\ ledger' = ledger \cup {g.request}
        /\ CASE current = Null ->
                  UNCHANGED <<relay, pending, journal, current, toExt, toLocal>>
             [] current # Null /\ (g.via = "direct" \/ extUp) -> Sent(g)
             [] OTHER ->
                  Park(JournalDispatched(current.room)) /\ UNCHANGED <<toExt, toLocal>>
        /\ UNCHANGED <<restoreTo, watches, receipts, worker, locates, reliable, view,
                       awake, extUp, extTab, fromExt, fromLocal, outbox, provider,
                       history, counters>>

\* The append throws.  process() fails the current turn and a direct dispatch
\* its own; the handler of target_selected has nobody to catch it.
AppendFails ==
    LET g == Head(gates)
    IN  /\ Fault("append")
        /\ gates # <<>>
        /\ gates' = Tail(gates)
        /\ reliable' = FALSE
        /\ IF \/ g.via = "process"
              \/ g.via = "direct" /\ current # Null /\ current.request = g.request
           THEN FailCurrent
           ELSE UNCHANGED <<relay, pending, journal, current, awake>>
        /\ UNCHANGED <<restoreTo, watches, receipts, ledger, worker, locates, view,
                       wires, provider, history, ids, turns, starts>>

\* The lease of the turn runs out.
Timeout ==
    /\ current # Null /\ current.phase = "waiting"
    /\ TurnError("recover")
    /\ UNCHANGED <<restoreTo, watches, receipts, ledger, worker, awaits, reliable, view,
                   wires, provider, history, counters>>

-----------------------------------------------------------------------------
(* The extension: each command is a handler of its own, so they overlap.   *)

Failure(r, kind) == [type |-> "error", request |-> r, kind |-> kind]

ExtSelect(c) ==
    /\ c \in toExt /\ c.type = "select"
    /\ toExt' = toExt \ {c}
    /\ extTab' = c.tab
    /\ fromExt' = IF extUp
                  THEN fromExt \cup {[type |-> "selected", request |-> c.request, tab |-> c.tab]}
                  ELSE fromExt
    /\ UNCHANGED <<snapshot, ledger, current, worker, awaits, reliable, view, awake,
                   extUp, toLocal, fromLocal, outbox, provider, history, counters>>

ExtPrompt(c) ==
    /\ c \in toExt /\ c.type = "prompt"
    /\ toExt' = toExt \ {c}
    /\ delivered' = [delivered EXCEPT ![c.request] = Append(@, extTab)]
    /\ UNCHANGED <<snapshot, ledger, current, worker, awaits, reliable, view, awake,
                   extUp, extTab, fromExt, toLocal, fromLocal, outbox, answered, history, counters>>

\* capture_latest, and the selection before it.
ExtCapture(c) ==
    /\ c \in toExt /\ c.type = "capture"
    /\ toExt' = toExt \ {c}
    /\ extTab' = c.tab
    /\ fromExt' = IF extUp
                  THEN fromExt \cup {[type |-> "captured", request |-> c.request,
                          tab |-> c.tab, found |-> /\ c.request \in answered
                                                   /\ c.tab \in {delivered[c.request][i] :
                                                         i \in DOMAIN delivered[c.request]}]}
                  ELSE fromExt
    /\ UNCHANGED <<snapshot, ledger, current, worker, awaits, reliable, view, awake,
                   extUp, toLocal, fromLocal, outbox, provider, history, counters>>

\* A command fails; a prompt may have been submitted all the same.
ExtFails(c) ==
    /\ Fault("command")
    /\ c \in toExt
    /\ toExt' = toExt \ {c}
    /\ \/ UNCHANGED delivered
       \/ /\ c.type = "prompt"
          /\ delivered' = [delivered EXCEPT ![c.request] = Append(@, extTab)]
    /\ \E kind \in {"recover", "stop"} :
          fromExt' = IF ~extUp \/ c.request = Null THEN fromExt
                     ELSE IF c.type = "capture"
                     THEN fromExt \cup {[type |-> "captured", request |-> c.request,
                                         tab |-> Null, found |-> FALSE]}
                     ELSE fromExt \cup {Failure(c.request, kind)}
    /\ UNCHANGED <<snapshot, ledger, current, worker, awaits, reliable, view, awake,
                   extUp, extTab, toLocal, fromLocal, outbox, answered, history, ids,
                   turns, starts>>

\* The page of an online target reports its final, once.
ProviderAnswers(r) ==
    /\ delivered[r] # <<>> /\ delivered[r][1] \in Tabs /\ r \notin answered
    /\ answered' = answered \cup {r}
    /\ outbox' = outbox \cup {r}
    /\ UNCHANGED <<snapshot, ledger, current, worker, awaits, reliable, view, awake,
                   extUp, extTab, toExt, fromExt, toLocal, fromLocal, delivered, history,
                   counters>>

ProviderFails(r) ==
    /\ Fault("command")
    /\ extUp /\ delivered[r] # <<>> /\ delivered[r][1] \in Tabs /\ r \notin answered
    /\ \E kind \in {"recover", "stop"} : fromExt' = fromExt \cup {Failure(r, kind)}
    /\ UNCHANGED <<snapshot, ledger, current, worker, awaits, reliable, view, awake,
                   extUp, extTab, toExt, toLocal, fromLocal, outbox, provider, history,
                   ids, turns, starts>>

\* Mutant: a new connection does not wake the scheduler.
ExtPublishesSilently ==
    /\ ~extUp
    /\ extUp' = TRUE /\ view' = extTab
    /\ UNCHANGED <<snapshot, ledger, current, worker, awaits, reliable, awake, extTab,
                   toExt, fromExt, toLocal, fromLocal, outbox, provider, history, counters>>

\* The hello and the tab list of a connection, or a later tab list when it is
\* news or wakes an idle scheduler.
ExtPublishes ==
    /\ extUp => view # extTab \/ (current = Null /\ ~awake)
    /\ extUp' = TRUE /\ view' = extTab /\ awake' = TRUE
    /\ UNCHANGED <<snapshot, ledger, current, worker, awaits, reliable, extTab, toExt,
                   fromExt, toLocal, fromLocal, outbox, provider, history, counters>>

\* The connection closes and no other extension is there: transportLost.
ExtDrops ==
    /\ Fault("drop")
    /\ MayInterrupt
    /\ extUp /\ extUp' = FALSE
    /\ view' = Null /\ worker' = Null
    /\ IF current = Null THEN UNCHANGED <<relay, pending, journal, current>> ELSE Park(journal)
    /\ fromExt' = {}
    /\ \E kept \in SUBSET toExt : toExt' = kept
    /\ UNCHANGED <<restoreTo, watches, receipts, ledger, awaits, reliable, awake, extTab,
                   toLocal, fromLocal, outbox, provider, history, ids, turns, starts>>

-----------------------------------------------------------------------------
(* Local targets.  A call of sendLocalPrompt stays open until its answer.   *)

LocalReceives(c) ==
    /\ c \in toLocal /\ ~c.received
    /\ toLocal' = (toLocal \ {c}) \cup {[c EXCEPT !.received = TRUE]}
    /\ delivered' = [delivered EXCEPT ![c.request] = Append(@, c.target)]
    /\ UNCHANGED <<snapshot, ledger, current, worker, awaits, reliable, view, awake,
                   extUp, extTab, toExt, fromExt, fromLocal, outbox, answered, history,
                   counters>>

LocalFails(c) ==
    /\ Fault("target")
    /\ c \in toLocal
    /\ toLocal' = toLocal \ {c}
    /\ \E kind \in {"retry", "recover", "stop"} :
          fromLocal' = fromLocal \cup {Failure(c.request, kind)}
    /\ UNCHANGED <<snapshot, ledger, current, worker, awaits, reliable, view, awake,
                   extUp, extTab, toExt, fromExt, outbox, provider, history, ids, turns,
                   starts>>

\* Without an open call, since the server restarted, only a capture can read it.
LocalAnswers(r) ==
    /\ delivered[r] # <<>> /\ delivered[r][1] \in LocalMembers /\ r \notin answered
    /\ answered' = answered \cup {r}
    /\ toLocal' = {c \in toLocal : c.request # r \/ ~c.received}
    /\ fromLocal' = IF toLocal' = toLocal THEN fromLocal
                    ELSE fromLocal \cup {[type |-> "final", request |-> r]}
    /\ UNCHANGED <<snapshot, ledger, current, worker, awaits, reliable, view, awake,
                   extUp, extTab, toExt, fromExt, outbox, delivered, history, counters>>

-----------------------------------------------------------------------------
(* Events at the server.  Each is observed in the ledger first, so one that *)
(* writes there waits for the appends before it.                            *)

IsCurrent(r) == current # Null /\ current.request = r

ExtEvent(e) ==
    /\ extUp /\ e \in fromExt
    /\ fromExt' = fromExt \ {e}
    /\ UNCHANGED fromLocal

\* target_selected: for the turn that waits for it, on to the dispatch gate.
Selected(e) ==
    /\ ExtEvent(e) /\ e.type = "selected"
    /\ view' = e.tab
    /\ gates' = IF /\ e.request # Null /\ IsCurrent(e.request)
                   /\ current.phase = "selecting" /\ e.tab = current.member
                THEN Append(gates, [request |-> e.request, target |-> e.tab,
                                    via |-> "event"])
                ELSE gates
    /\ UNCHANGED <<snapshot, ledger, current, worker, locates, reliable, awake, extUp,
                   extTab, toExt, toLocal, outbox, provider, history, counters>>

Errored(e) ==
    /\ e.type = "error" /\ gates = <<>>
    /\ \/ ExtEvent(e)
       \/ e \in fromLocal /\ fromLocal' = fromLocal \ {e} /\ UNCHANGED fromExt
    /\ IF IsCurrent(e.request)
       THEN TurnError(e.kind)
       ELSE UNCHANGED <<relay, pending, journal, current, awake>>
    /\ UNCHANGED <<restoreTo, watches, receipts, ledger, worker, awaits, reliable, view,
                   extUp, extTab, toExt, toLocal, outbox, provider, history, counters>>

\* finish(): the recovered reply of the room's journal is committed, and the
\* relay goes on from what the journal kept, unless a stop was requested.
FinishRecovered(room) ==
    LET j == journal[room]
    IN  /\ Commit(room, j.request)
        /\ worker' = Null
        /\ awake' = TRUE
        /\ IF j.stop
           THEN SetStopped(room) /\ UNCHANGED turns
           ELSE Follow(room, [active |-> j.active, remaining |-> j.remaining])

CaptureMissed ==
    /\ worker' = Null /\ awake' = TRUE
    /\ UNCHANGED <<relay, pending, journal, receipts, turns, replies>>

\* A capture comes back: with nothing usable yet, or with the reply.
CaptureReturns(found) ==
    \/ CaptureMissed
    \/ found /\ FinishRecovered(worker.room)

Captured(e) ==
    /\ ExtEvent(e) /\ e.type = "captured"
    /\ view' = IF e.tab = Null THEN view ELSE e.tab
    /\ \/ /\ IF worker # Null /\ worker.request = e.request /\ Live(worker.room)
                /\ journal[worker.room].request = e.request
             THEN CaptureReturns(e.found)
             ELSE UNCHANGED <<relay, pending, journal, receipts, worker, awake, turns,
                              replies>>
          /\ UNCHANGED faults
       \/ /\ e.found /\ Fault("reply")
          /\ UNCHANGED <<relay, pending, journal, receipts, worker, awake, turns, replies>>
    /\ UNCHANGED <<restoreTo, watches, ledger, current, awaits, reliable, extUp, extTab,
                   toExt, toLocal, outbox, provider, turnOf, stops, ids, starts>>

LocalCaptured ==
    /\ worker # Null /\ Live(worker.room)
    /\ journal[worker.room].request = worker.request
    /\ journal[worker.room].member \in LocalMembers
    /\ CaptureReturns(worker.request \in answered)
    /\ UNCHANGED <<restoreTo, watches, ledger, current, awaits, reliable, view, wires,
                   provider, turnOf, stops, ids, starts, faults>>

Receipted(r) == \E room \in Rooms : r \in receipts[room]

Watched(r, room) == r \in watches[room]

Recoverable(r, room) ==
    /\ journal[room] # Null /\ journal[room].request = r
    /\ journal[room].interrupted \/ (worker # Null /\ worker.room = room)
    /\ Recovering(room)

\* A late final is noted in its room and starts nothing.
LateFinal(r, room) ==
    /\ ~Receipted(r) /\ Watched(r, room)
    /\ Commit(room, r)
    /\ watches' = [watches EXCEPT ![room] = @ \ {r}]
    /\ awake' = TRUE
    /\ UNCHANGED <<relay, pending, journal, current, worker, turns>>

RecoveredFinal(r, room) ==
    /\ ~Receipted(r) /\ ~\E other \in Rooms : Watched(r, other)
    /\ Recoverable(r, room)
    /\ FinishRecovered(room)
    /\ UNCHANGED <<watches, current>>

Recovers(r) ==
    /\ ~Receipted(r)
    /\ \E room \in Rooms : Watched(r, room) \/ Recoverable(r, room)

\* completeTurn
CompletesTurn(r) ==
    /\ ~Recovers(r) /\ IsCurrent(r)
    /\ Commit(current.room, r)
    /\ Follow(current.room, relay[current.room])
    /\ current' = Null /\ awake' = TRUE
    /\ UNCHANGED <<watches, worker>>

NobodyWants(r) ==
    /\ ~Recovers(r) /\ ~IsCurrent(r)
    /\ UNCHANGED <<relay, pending, journal, watches, receipts, current, worker, awake,
                   turns, replies>>

Final(r) ==
    /\ gates = <<>>
    /\ ledger' = ledger \cup {r}
    /\ \/ \E room \in Rooms : LateFinal(r, room)
       \/ \E room \in Rooms : RecoveredFinal(r, room)
       \/ CompletesTurn(r)
       \/ NobodyWants(r)
    /\ UNCHANGED <<restoreTo, awaits, reliable, view, extUp, extTab, toExt, fromExt,
                   toLocal, provider, turnOf, stops, ids, starts, faults>>

\* What a final that is not accepted does: a late one nothing; one of a journal
\* makes it the recovery that waits, if it names another request, and ends the
\* capture that is out, if it says nothing new; the current turn's nothing.
Rejects(r) ==
    \/ (\E room \in Rooms : Watched(r, room)) /\ awake' = TRUE /\ UNCHANGED worker
    \/ /\ ~\E room \in Rooms : Watched(r, room)
       /\ \E room \in Rooms :
             /\ Recoverable(r, room)
             /\ \/ worker' = Null /\ awake' = TRUE
                \/ /\ worker' = IF worker = Null THEN [room |-> room, request |-> r]
                                ELSE worker
                   /\ UNCHANGED awake
    \/ ~Recovers(r) /\ IsCurrent(r) /\ UNCHANGED <<worker, awake>>

RefusedFinal(r) ==
    /\ gates = <<>>
    /\ Fault("reply")
    /\ ledger' = ledger \cup {r}
    /\ ~Receipted(r) /\ Rejects(r)
    /\ UNCHANGED <<snapshot, current, awaits, reliable, view, extUp, extTab, toExt,
                   fromExt, toLocal, provider, history, ids, turns, starts>>

\* The outbox offers a final until the server answers that it is committed or
\* that no turn wants it.
OnlineFinal(r) ==
    /\ extUp /\ r \in outbox
    /\ Final(r) \/ RefusedFinal(r)
    /\ outbox' =
          IF /\ ~\E room \in Rooms : r \in receipts'[room]
             /\ \/ current' # Null /\ current'.request = r
                \/ \E room \in Rooms : \/ journal'[room] # Null /\ journal'[room].request = r
                                       \/ r \in watches'[room]
          THEN outbox ELSE outbox \ {r}
    /\ UNCHANGED fromLocal

LocalFinal(e) ==
    /\ e \in fromLocal /\ e.type = "final"
    /\ fromLocal' = fromLocal \ {e}
    /\ Final(e.request) \/ RefusedFinal(e.request)
    /\ UNCHANGED outbox

\* The server dies and is started again.  Appends under way are in the file or
\* not; what was on its way to the extension may still arrive.
Crash ==
    /\ Fault("crash")
    /\ \E n \in 0 .. Len(gates) :
          ledger' = ledger \cup {gates[i].request : i \in 1 .. n}
    /\ current' = Null /\ worker' = Null
    /\ gates' = <<>> /\ locates' = {}
    /\ reliable' = TRUE /\ view' = Null /\ awake' = TRUE
    /\ extUp' = FALSE
    /\ \E kept \in SUBSET toExt : toExt' = kept
    /\ fromExt' = {} /\ toLocal' = {} /\ fromLocal' = {}
    /\ UNCHANGED <<snapshot, extTab, outbox, provider, history, ids, turns, starts>>

-----------------------------------------------------------------------------
Process ==
    \/ ProcessBusy \/ WorkerStale \/ Rest
    \/ \E room \in Rooms :
         \/ Archive(room) \/ ResumeCapture(room) \/ ResumeReplay(room)
         \/ ResumeUncertain(room) \/ ResumeUnsupported(room) \/ StartLocal(room)
         \/ StartSelected(room) \/ StartSelecting(room) \/ StartOffline(room)

Continue == AppendDone \/ \E l \in locates : LocateDone(l)

Deliver ==
    \/ \E e \in fromExt : Selected(e) \/ Captured(e)
    \/ \E e \in fromExt \cup fromLocal : Errored(e)
    \/ \E e \in fromLocal : LocalFinal(e)
    \/ \E r \in Requests : OnlineFinal(r)
    \/ LocalCaptured

Reach ==
    \/ \E c \in toExt : ExtSelect(c) \/ ExtPrompt(c) \/ ExtCapture(c)
    \/ \E c \in toLocal : LocalReceives(c)

User == \E room \in Rooms : StartRelay(room) \/ StopInFlight(room) \/ StopRelay(room)

Environment ==
    \/ \E r \in Requests : ProviderAnswers(r) \/ LocalAnswers(r)
    \/ ExtPublishes

Failures ==
    \/ StateChanged \/ AppendFails \/ ExtDrops \/ Crash
    \/ \E room \in Rooms : StartRefused(room)
    \/ \E l \in locates : LocateFails(l)
    \/ \E c \in toExt : ExtFails(c)
    \/ \E r \in Requests : ProviderFails(r)
    \/ \E c \in toLocal : LocalFails(c)

Next ==
    \/ User \/ Process \/ Continue \/ Timeout \/ Reach \/ Deliver \/ Environment
    \/ Failures
    \/ \E room \in Rooms : WatchExpires(room) \/ Expire(room)

Spec == Init /\ [][Next]_vars

\* Timers fire, promises settle, and a message that can arrive does.  Nothing is
\* assumed of the user, of the agents, of failures, or of the connection.
ServerFair ==
    /\ WF_vars(Process) /\ \A room \in Rooms : WF_vars(Expire(room))
    /\ WF_vars(Continue) /\ WF_vars(Timeout)
    /\ WF_vars(Deliver) /\ WF_vars(Reach)

OfflineSpec == Spec /\ ServerFair

\* An extension without a connection tries again every 1.2 seconds.
FairSpec == OfflineSpec /\ WF_vars(~extUp /\ ExtPublishes)

-----------------------------------------------------------------------------
Bounded(S) == S \cup {Null}

Turn == [member : Members, turn : Nat, retry : Nat]

Journal == [request : Requests, member : Members, turn : Nat, retry : Nat,
            dispatched : BOOLEAN, interrupted : BOOLEAN, passive : BOOLEAN,
            stop : BOOLEAN, active : BOOLEAN, remaining : Nat]

Current == [request : Requests, room : Rooms, member : Members, turn : Nat,
            retry : Nat, phase : {"ready", "selecting", "waiting"}]

ASSUME NullRecordAssumption == Null \notin Turn \cup Journal \cup Current

\* The state of the server, of the extension and of the wires is well formed: a
\* relay never has fewer than no turns left, and nothing but a bound target is
\* waited for.
TypeOK ==
    /\ relay \in [Rooms -> [active : BOOLEAN, remaining : Nat]]
    /\ pending \in [Rooms -> Bounded(Turn)]
    /\ journal \in [Rooms -> Bounded(Journal)]
    /\ restoreTo \in [Rooms -> Bounded(Tabs)]
    /\ watches \in [Rooms -> SUBSET Requests]
    /\ receipts \in [Rooms -> SUBSET Requests]
    /\ ledger \subseteq Requests
    /\ current \in Bounded(Current)
    /\ worker \in Bounded([room : Rooms, request : Requests])
    /\ gates \in Seq([request : Requests, target : Members,
                      via : {"process", "event", "direct"}])
    /\ locates \subseteq [request : Requests, target : Members]
    /\ view \in Bounded(Tabs) /\ extTab \in Tabs
    /\ outbox \subseteq Requests /\ answered \subseteq Requests
    /\ delivered \in [Requests -> Seq(Targets)]
    /\ ids \in 0 .. MaxRequests /\ halted \subseteq Rooms

\* No prompt reaches a provider before the ledger knows its request.
LedgerBeforeSend == \A r \in Requests : delivered[r] # <<>> => Dispatched(r)

\* A turn's prompt is sent at most once, under all the request ids it ever has.
SendOnce ==
    \A r, s \in Requests :
        /\ Len(delivered[r]) <= 1
        /\ delivered[r] # <<>> /\ delivered[s] # <<>> /\ turnOf[r] = turnOf[s] => r = s

\* A prompt is sent to the target its member is bound to.
RightTarget ==
    \A r \in Requests : \A i \in DOMAIN delivered[r] : delivered[r][i] = turnOf[r].member

\* A turn's reply is committed at most once, by whichever way it comes.
ReplyOnce ==
    \A r, s \in Requests :
        /\ replies[r] <= 1
        /\ replies[r] = 1 /\ replies[s] = 1 /\ turnOf[r] = turnOf[s] => r = s

\* One turn at a time, over all rooms: only one room's turn is live, and while a
\* turn runs no live recovery waits.
OneTurn ==
    /\ Cardinality({room \in Rooms : Live(room)}) <= 1
    /\ current # Null => /\ worker # Null => ~Live(worker.room)
                         /\ Live(current.room)
                         /\ journal[current.room].request = current.request

\* No relay takes more turns than its budget, however often it is interrupted.
BudgetKept == turns <= starts * Budget

\* A stopped room queues no turn until it is started again, and a turn whose
\* recovery ran out of time is not followed by another, however late the reply
\* comes and whatever failed in between.
StopSticks ==
    [][\A room \in Rooms :
          pending'[room] # Null =>
              /\ room \notin halted'
              /\ ~(journal[room] # Null /\ journal[room].stop)]_vars

\* What Stop cancels before its dispatch is never sent.
StoppedNeverSent == [][\A r \in cancelled : delivered'[r] = delivered[r]]_vars

Open(t) == \E room \in Rooms :
              \/ pending[room] # Null /\ pending[room].turn = t
              \/ Live(room) /\ journal[room].turn = t

\* Every turn ends: its reply is committed, or the room stops, or its recovery
\* becomes passive; none stays queued, sent or in recovery for ever.
TurnEnds == \A t \in 1 .. MaxStarts * Budget : Open(t) ~> ~Open(t)

Interrupted(room) == Live(room) /\ journal[room].interrupted

\* An interrupted turn does not stay in recovery for ever, with the extension
\* connected or not.
RecoveryEnds == \A room \in Rooms : Interrupted(room) ~> ~Interrupted(room)
=============================================================================
