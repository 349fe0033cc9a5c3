----------------------------- MODULE RoomInbox -----------------------------
(***************************************************************************)
(* The durable inbox of a Dex room (dex/recovery-mailbox.js).  A member's  *)
(* own SEND is a message of the room and an entry of a FIFO; the scheduler *)
(* (dex/server-scheduler.js) takes entries at the boundary of a turn, into *)
(* the prompt of the turn about to run or as the source of a new relay.    *)
(*                                                                         *)
(* A report is the number of its message, in the order of admission.  The  *)
(* rest of the transcript is kept only as its last message, which is what  *)
(* a continued relay starts from.  Abstracted: texts, digests, a repeated  *)
(* request id (answered without a change), several rooms, the extension of *)
(* a budget by a reply, the trimming of receipts beyond 128.  Members are  *)
(* the same all along: a room with work refuses to change them.            *)
(***************************************************************************)
EXTENDS Integers, Sequences, FiniteSets

CONSTANTS
    MemberCount,    \* members of the room, numbered round the ring
    User,           \* the author of a message no member wrote
    Null,           \* no turn
    MaxQueued,      \* MAX_QUEUED (8)
    MaxTries,       \* attempts of the failure policy at a turn not yet sent
    Budgets,        \* bound: turns a relay may be given (1..500)
    MaxMessages,    \* bound: reports admitted
    MaxStarts,      \* bound: relays started from outside the inbox
    MaxInterrupts   \* bound: turns parked, and restarts

ASSUME MemberAssumption == MemberCount \in Nat \ {0}
ASSUME UserAssumption == User \notin 0..(MemberCount - 1)
ASSUME BoundAssumption == /\ {MaxQueued} \cup Budgets \subseteq Nat \ {0}
                          /\ {MaxTries, MaxMessages, MaxStarts, MaxInterrupts} \subseteq Nat

VARIABLES
    enabled,    \* members with relayEnabled
    messages,   \* the reports, with the phase of their receipts
    queue,      \* deferredRelays
    relay,      \* room.relay; stopped: a person's stop awaits the turn under way
    turn,       \* room.pendingTurn, or the turn under way and its journal
    last,       \* the last message of the room
    prompts,    \* history: prompts a report was addressed in
    chosen,     \* history: reports a relay was continued from by hand
    starts,
    interrupts

vars == <<enabled, messages, queue, relay, turn, last, prompts, chosen, starts, interrupts>>

Members == 0..(MemberCount - 1)
Reports == 1..MaxMessages
Sources == [from : Members \cup {User}, report : 0..MaxMessages]
Phases == {"queued", "batched", "dispatched", "cancelled"}
Report == [from : Members, to : Members, phase : Phases]
Turn == [at : {"pending", "running", "parked", "passive"},
         member : Members, source : Sources, inbox : SUBSET Reports,
         tries : 0..MaxTries, dispatched : BOOLEAN,
         stop : {"no", "user", "expired"}, live : BOOLEAN, left : Nat]

ASSUME NullAssumption == Null \notin Turn \cup Sources

Untold == [from |-> User, report |-> 0]
Idle == [active |-> FALSE, remaining |-> 0, stopped |-> FALSE]

Init ==
    /\ enabled = Members
    /\ messages = <<>>
    /\ queue = <<>>
    /\ relay = Idle
    /\ turn = Null
    /\ last = Null
    /\ prompts = [i \in Reports |-> 0]
    /\ chosen = {}
    /\ starts = 0
    /\ interrupts = 0

At(place) == turn # Null /\ turn.at = place

(***************************************************************************)
(* Whose turn it is                                                        *)
(***************************************************************************)

\* The member steps places round the ring from where the author leaves off.
Seat(from, steps) ==
    IF from = User THEN (steps - 1) % MemberCount ELSE (from + steps) % MemberCount

\* nextMemberIndex: the first member after the author that takes part.
NextMember(from) ==
    LET near == CHOOSE k \in 1..MemberCount :
                    /\ Seat(from, k) \in enabled
                    /\ \A j \in 1..(k - 1) : Seat(from, j) \notin enabled
    IN Seat(from, near)

\* The recipient an admission chooses: never the author while there is another.
Recipient(from) ==
    IF enabled \subseteq {from} THEN Seat(from, 1) ELSE NextMember(from)

(***************************************************************************)
(* The head of the queue                                                   *)
(***************************************************************************)

First(n) == {queue[k] : k \in 1..n}
Rest(n) == SubSeq(queue, n + 1, Len(queue))

\* The first n entries may share a prompt to this member.
Shares(n, member) ==
    member \in enabled /\ \A k \in 1..n : messages[queue[k]].to = member

\* takeBatch: how many entries it takes.  It stops at the first entry for
\* another member, or for one that does not take part.
Taken(member, count) ==
    CHOOSE n \in 0..Len(queue) :
        /\ n = 0 \/ (n <= count /\ Shares(n, member))
        /\ n = Len(queue) \/ n >= count \/ ~Shares(n + 1, member)

\* updateReceipts.
Phased(reports, phase) ==
    [i \in DOMAIN messages |->
        IF i \in reports THEN [messages[i] EXCEPT !.phase = phase] ELSE messages[i]]

Pending(member, source, inbox, tries) ==
    [at |-> "pending", member |-> member, source |-> source, inbox |-> inbox,
     tries |-> tries, dispatched |-> FALSE, stop |-> "no", live |-> FALSE, left |-> 0]

\* The reports a turn's prompt is about.
Addressed(t) == t.inbox \cup ({t.source.report} \cap Reports)

\* stageForPending: the entries for the turn's member that still fit.
RoomWhole(t) == MaxQueued  \* mutant: the earlier batch is not counted
Room(t) == MaxQueued - Cardinality(t.inbox)

StageForPending(t) ==
    LET n == Taken(t.member, Room(t)) IN
    /\ turn' = [t EXCEPT !.inbox = @ \cup First(n)]
    /\ queue' = Rest(n)
    /\ messages' = Phased(First(n), "batched")

\* setStopped: a person's stop cancels the queue, any other stop keeps it.
EmptiedSilently == messages  \* mutant: the receipts keep their phase
Emptied == Phased({queue[k] : k \in 1..Len(queue)}, "cancelled")

SetStopped(byPerson) ==
    /\ relay' = Idle
    /\ turn' = Null
    /\ queue' = IF byPerson THEN <<>> ELSE queue
    /\ messages' = IF byPerson THEN Emptied ELSE messages

\* enqueueNext, of the scheduler: the next turn of a relay with turns left.
EnqueueNext(source, budget) ==
    /\ relay' = [active |-> TRUE, remaining |-> budget - 1, stopped |-> FALSE]
    /\ StageForPending(Pending(NextMember(source.from), source, {}, 0))

\* A reply settles the turn: the author ends the relay, a stop or the budget
\* does, or the relay goes on from the reply.
Settle(ends, live) ==
    LET reply == [from |-> turn.member, report |-> 0] IN
    /\ last' = reply
    /\ IF ends \/ ~live.active \/ live.remaining = 0
       THEN SetStopped(~ends /\ ~live.active /\ live.stopped)
       ELSE EnqueueNext(reply, live.remaining)

(***************************************************************************)
(* Admission                                                               *)
(***************************************************************************)

\* The queue has a limit; a report joins it at the end.
SpaceOver == Len(queue) <= MaxQueued  \* mutant: off by one
Space == Len(queue) < MaxQueued

JoinedFirst(i) == <<i>> \o queue  \* mutant: the newest goes first
Joined(i) == Append(queue, i)

\* queueSend.
Admit(from) ==
    /\ Len(messages) < MaxMessages
    /\ Space
    /\ messages' = Append(messages,
                          [from |-> from, to |-> Recipient(from), phase |-> "queued"])
    /\ queue' = Joined(Len(messages'))
    /\ last' = [from |-> from, report |-> Len(messages')]
    /\ UNCHANGED <<enabled, relay, turn, prompts, chosen, starts, interrupts>>

\* set_agent_relay, set_self_relay: the merge refuses them while the room has work.
Toggle(m) ==
    /\ turn = Null /\ queue = <<>> /\ ~relay.active
    /\ enabled' = IF m \in enabled THEN enabled \ {m} ELSE enabled \cup {m}
    /\ UNCHANGED <<messages, queue, relay, turn, last, prompts, chosen, starts, interrupts>>

(***************************************************************************)
(* The scheduler's turns                                                   *)
(***************************************************************************)

\* activateNext: the last report of the batch is the source of the new relay.
Ready == /\ turn = Null /\ ~relay.active
         /\ queue # <<>> /\ messages[Head(queue)].to \in enabled

\* mutant: the queue is looked at only when a report has just joined it.
ReadyOnAdmission == Ready /\ last.report = queue[Len(queue)]
Runnable == Ready

\* mutant: a batch is cut by size alone.
HeadBatchMixed == IF Len(queue) < MaxQueued THEN Len(queue) ELSE MaxQueued
HeadBatch == Taken(messages[Head(queue)].to, MaxQueued)

ActivateNext(budget) ==
    /\ Runnable
    /\ LET n == HeadBatch
           source == [from |-> messages[queue[n]].from, report |-> queue[n]]
       IN /\ relay' = [active |-> TRUE, remaining |-> budget - 1, stopped |-> FALSE]
          /\ turn' = Pending(NextMember(source.from), source, First(n - 1), 0)
          /\ queue' = Rest(n)
          /\ messages' = Phased(First(n), "dispatched")
    /\ UNCHANGED <<enabled, last, prompts, chosen, starts, interrupts>>

\* process: the turn becomes current and its journal is written.
Begin ==
    /\ At("pending") /\ relay.active
    /\ StageForPending([turn EXCEPT !.at = "running", !.live = TRUE,
                                    !.left = relay.remaining])
    /\ UNCHANGED <<enabled, relay, last, prompts, chosen, starts, interrupts>>

Free == turn = Null /\ queue = <<>> /\ ~relay.active /\ enabled # {}

\* startRelay, from a new message of a person.
StartRelay(budget) ==
    /\ Free /\ starts < MaxStarts
    /\ last' = Untold
    /\ EnqueueNext(Untold, budget)
    /\ starts' = starts + 1
    /\ UNCHANGED <<enabled, prompts, chosen, interrupts>>

\* startMemberTurn: one turn for a member named by the caller.
StartMemberTurn(m) ==
    /\ Free /\ starts < MaxStarts /\ m \in enabled
    /\ relay' = [active |-> TRUE, remaining |-> 0, stopped |-> FALSE]
    /\ turn' = Pending(m, Untold, {}, 0)
    /\ last' = Untold
    /\ starts' = starts + 1
    /\ UNCHANGED <<enabled, messages, queue, prompts, chosen, interrupts>>

\* continueRelay: a new relay from the last message of the room, whichever it is.
ContinueRelay(budget) ==
    /\ Free /\ starts < MaxStarts /\ last # Null
    /\ EnqueueNext(last, budget)
    /\ chosen' = chosen \cup ({last.report} \cap Reports)
    /\ starts' = starts + 1
    /\ UNCHANGED <<enabled, last, prompts, interrupts>>

\* beforeDispatch and markDispatched: the prompt goes out.
Prompt ==
    /\ At("running") /\ ~turn.dispatched
    /\ turn' = [turn EXCEPT !.dispatched = TRUE]
    /\ prompts' = [i \in Reports |->
                      IF i \in Addressed(turn) /\ prompts[i] < 2 THEN prompts[i] + 1 ELSE prompts[i]]
    /\ UNCHANGED <<enabled, messages, queue, relay, last, chosen, starts, interrupts>>

\* handleTurnError, when the policy tries a turn again that was not sent: the
\* new turn has the old one's source and no inbox.
Retry ==
    /\ At("running") /\ ~turn.dispatched /\ turn.tries < MaxTries
    /\ turn' = Pending(turn.member, turn.source, {}, turn.tries + 1)
    /\ UNCHANGED <<enabled, messages, queue, relay, last, prompts, chosen, starts, interrupts>>

\* completeTurn; ends: the reply stops the relay for a reason of its own.
CompleteTurn(ends) ==
    /\ At("running") /\ turn.dispatched
    /\ Settle(ends, relay)
    /\ UNCHANGED <<enabled, prompts, chosen, starts, interrupts>>

\* failCurrent: a notice is the last message of the room.
FailCurrent ==
    /\ At("running")
    /\ last' = Untold
    /\ SetStopped(FALSE)
    /\ UNCHANGED <<enabled, prompts, chosen, starts, interrupts>>

\* stopRelay.
InFlight == At("running") /\ turn.dispatched

StopRelay ==
    /\ \/ /\ InFlight
          /\ turn' = [turn EXCEPT !.stop = "user", !.live = FALSE, !.left = 0]
          /\ relay' = [Idle EXCEPT !.stopped = TRUE]
          /\ UNCHANGED <<messages, queue>>
       \/ /\ ~InFlight
          /\ SetStopped(TRUE)
    /\ UNCHANGED <<enabled, last, prompts, chosen, starts, interrupts>>

(***************************************************************************)
(* Interrupted turns                                                       *)
(***************************************************************************)

\* parkCurrent.
ParkCurrent ==
    /\ At("running") /\ interrupts < MaxInterrupts
    /\ turn' = [turn EXCEPT !.at = "parked"]
    /\ relay' = Idle
    /\ interrupts' = interrupts + 1
    /\ UNCHANGED <<enabled, messages, queue, last, prompts, chosen, starts>>

\* The server stops: current is lost, the journal is on disk.
Crash ==
    /\ At("running") /\ interrupts < MaxInterrupts
    /\ turn' = [turn EXCEPT !.at = "parked"]
    /\ interrupts' = interrupts + 1
    /\ UNCHANGED <<enabled, messages, queue, relay, last, prompts, chosen, starts>>

\* resume, of the recovery: the ledger knows no dispatch, so the turn is
\* queued again with its inbox.
ReplayableAnyway == At("parked")  \* mutant: whatever the ledger says
Replayable == At("parked") /\ ~turn.dispatched

Replay ==
    /\ Replayable
    /\ turn' = Pending(turn.member, turn.source, turn.inbox, turn.tries)
    /\ relay' = [active |-> turn.live, remaining |-> turn.left, stopped |-> FALSE]
    /\ UNCHANGED <<enabled, messages, queue, last, prompts, chosen, starts, interrupts>>

\* resume: the ledger cannot say.
LedgerUncertain ==
    /\ At("parked")
    /\ SetStopped(FALSE)
    /\ UNCHANGED <<enabled, last, prompts, chosen, starts, interrupts>>

\* finish: the reply of a dispatched turn is captured, or arrives after all.
Recovered(ends) ==
    /\ At("parked") \/ At("passive")
    /\ turn.dispatched
    /\ Settle(ends /\ turn.stop = "no",
              [active |-> turn.live, remaining |-> turn.left, stopped |-> turn.stop = "user"])
    /\ UNCHANGED <<enabled, prompts, chosen, starts, interrupts>>

\* expire.
Expire ==
    /\ At("parked")
    /\ turn' = [turn EXCEPT !.at = "passive", !.stop = "expired", !.live = FALSE, !.left = 0]
    /\ relay' = Idle
    /\ UNCHANGED <<enabled, messages, queue, last, prompts, chosen, starts, interrupts>>

\* maintain, or resolvePassive: the journal is archived.
Archive ==
    /\ At("passive")
    /\ turn' = Null
    /\ UNCHANGED <<enabled, messages, queue, relay, last, prompts, chosen, starts, interrupts>>

(***************************************************************************)
(* The specification                                                       *)
(***************************************************************************)

Running == \/ Prompt \/ Retry \/ FailCurrent \/ ParkCurrent
           \/ \E ends \in BOOLEAN : CompleteTurn(ends)

Recovery == \/ Replay \/ LedgerUncertain \/ Expire
            \/ \E ends \in BOOLEAN : Recovered(ends)

Activate == \E budget \in Budgets : ActivateNext(budget)

Outside == \/ \E m \in Members : Admit(m) \/ Toggle(m) \/ StartMemberTurn(m)
           \/ \E budget \in Budgets : StartRelay(budget) \/ ContinueRelay(budget)
           \/ StopRelay
           \/ Crash

Next == Activate \/ Begin \/ Running \/ Recovery \/ Archive \/ Outside

\* The scheduler wakes itself after every change; a turn under way ends by its
\* lease or by its transport, a recovery by its deadline.
Fairness == WF_vars(Activate) /\ WF_vars(Begin) /\ WF_vars(Running)
            /\ WF_vars(Recovery) /\ WF_vars(Archive)

Spec == Init /\ [][Next]_vars /\ Fairness

(***************************************************************************)
(* Properties                                                              *)
(***************************************************************************)

TypeOK ==
    /\ enabled \subseteq Members
    /\ messages \in Seq(Report) /\ Len(messages) <= MaxMessages
    /\ queue \in Seq(DOMAIN messages) /\ Len(queue) <= MaxQueued
    /\ relay \in [active : BOOLEAN, remaining : Nat, stopped : BOOLEAN]
    /\ turn \in Turn \cup {Null}
    /\ last \in Sources \cup {Null}
    /\ prompts \in [Reports -> 0..2]
    /\ chosen \subseteq Reports
    /\ starts \in 0..MaxStarts /\ interrupts \in 0..MaxInterrupts

Queued(i) == i \in DOMAIN messages /\ messages[i].phase = "queued"

\* The receipts a sender asks after (deferredSendReceipts) agree with the
\* queue: exactly the queued reports are in it, once and in the order of
\* admission, and none of them is in the turn as well.
ReceiptsAgree ==
    /\ {queue[k] : k \in 1..Len(queue)} = {i \in DOMAIN messages : Queued(i)}
    /\ \A j, k \in 1..Len(queue) : j < k => queue[j] < queue[k]
    /\ turn # Null => \A i \in Addressed(turn) : ~Queued(i)

\* Reports go in the order of admission, whoever they are for: when one has
\* been taken from the queue, so has every earlier one (takeBatch, the FIFO
\* of DEX-DURABLE-INBOX.md).
InOrder ==
    \A i, j \in DOMAIN messages :
        i < j /\ messages[j].phase \in {"batched", "dispatched"} => ~Queued(i)

\* A report is addressed only to the member its admission chose, through
\* batching, activation, retry and replay (DEX-DURABLE-INBOX.md: it "retains
\* its admission-time recipient"); continueRelay starts from any message and
\* chooses again.
RecipientKept ==
    turn # Null => \A i \in Addressed(turn) \ chosen : messages[i].to = turn.member

\* A report is in one prompt, whatever is retried, parked, replayed or
\* recovered; only a relay continued from it by hand sends it again.
PromptedOnce == \A i \in Reports \ chosen : prompts[i] <= 1

\* The journal has room for the whole inbox of a turn: writing it (slice(0, 8)
\* in createRecoveryJournal) never drops a report, so a replay has them all.
NothingTrimmed == turn # Null => Cardinality(turn.inbox) <= MaxQueued

\* No report waits for ever while everyone the queue is for takes part: again
\* and again the queue is empty, its reports taken or cancelled, or holds one
\* whose recipient only observes.
Blocked == \E k \in 1..Len(queue) : messages[queue[k]].to \notin enabled
Drains == []<>(queue = <<>> \/ Blocked)

=============================================================================
