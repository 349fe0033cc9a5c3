# EveOS in TLA+

Specifications, model checks and proofs for the concurrent core of EveOS: the
**Nexus Browser** server (`src/tools/Nexus-Browser`), which lets several AI
agents hold a conversation ("Dex") by typing prompts into browser tabs and local
programs on a user's behalf, and which must never send a prompt twice, lose an
answer without saying so, or let two hosts speak for the same agent.

Paths below are relative to `src/tools/Nexus-Browser/` unless they start with
`src/`. `PROJECT.json` holds the same inventory in machine-readable form: the
components, the runs, the source lines behind every definition (`map`), the
hazards with the properties that cover them, and the theorems.

    tlc -workers 2 -config DexOneRoom.cfg MCDexScheduler     model-check
    tlc -workers 2 -config TloDeployment.cfg MCTloDeployment
    tlapm TloOwnershipStore_proofs.tla                       check proofs

## 1. Inventory

EveOS is a static front end, a small Python server with a file store, and a set
of tools. Most of its files are page code, assets or independent applications.
The part with a protocol of its own, state on disk, several actors and failures
is the Dex runtime of the Nexus Browser.

### How the parts interact

    page (rooms, Start, Stop)                     extension (one selected tab)
        | room snapshot                              ^ select / prompt / capture
        v                                            | selected / error / final
    server.js ---> DexTurnScheduler --- dispatch ----+
                    |      |     ^                   +---> local target (terminal,
       recovery ----+      |     | late finals             desktop app, TLO backend)
       (journal, capture,  v
        passive, watches)  turn ledger (append-only file)

    TLO fence ---> record file + lock directory, shared by server processes

       owner (stages) ---> TLO deployment ---> ownership record, conversation,
                             |        ^        activation record, runner journal
       Search Monitor page --+        +--- TLO backend turn ---> model server
       (history, own turns)                (capability, stream)  (reads the files)

All server code is one Node process per host. A handler runs without being
interrupted up to an `await`; everything hard is in what other handlers do
during those awaits, in what a crash leaves on disk, and in messages that are
late. Only the TLO record is shared by *several* Nexus processes, with file
operations as the steps; the model server, in Python, reads the TLO files too.

### Components

| Component | State | Operations | Hard part | Correct when |
|---|---|---|---|---|
| **TLO ownership fence** `dex/tlo-ownership-fence.js` | one record: owner, kind, generation, handoff, turn | claim, prepare / acknowledge / complete / cancel a handoff, reserve / dispatch / settle a turn, fence a restart | any order of calls by two hosts; expiry; restart with a turn out | one owner per generation; no handoff over an open turn; a turn ends only by its own receipt |
| **TLO durable store** `dex/tlo-ownership-durable-store.js` | record file with revision, lock directory | read, compare-and-swap | processes interleaving at file operations, crash between rename and rmdir | the file behaves like the atomic record; an orphaned lock freezes it |
| **Dex turn scheduler** `dex/server-scheduler.js`, `server-scheduler-state.js` | relay, pending turn and journal of each room; the current turn | start, stop, process, select, dispatch, complete, fail, retry, park, restore the tab | continuations after an await; Stop during a turn; errors of old turns | sent once, after the ledger knows; one turn at a time; budget; Stop holds |
| **Interrupted-turn recovery** `dex/server-scheduler-recovery.js`, `recovery-liveness.js`, `passive-recovery-lifecycle.js` | the journal, the capture worker, passive recoveries, watches | capture, replay, give up, expire, archive, take a late final | crash before or after the send; a final, a capture and a deadline racing | a turn is replayed only if it was certainly not sent; one reply; it ends |
| **Dispatch gate, turn ledger** `dex/server-durability.js`, `turn-ledger.js` | append-only file, entries by request, `reliable` | reserve, observe, load, compact | torn last line, failed append, compaction | the dispatch is durable before the prompt leaves |
| **Failure policy, turn lease** `public/dex-failure-policy.js`, `dex/server-turn-lease.js` | attempts, lease of the current turn | classify, arm, renew, expire | retries after a dispatch | a dispatched turn is never retried |
| **Server wiring, extension, local relay** `server.js`, `extension/service-worker.js`, `dex/server-local-relay.js` | sockets, selected tab, outbox of finals, open calls | events, reconnects, receipts | commands overlap in the extension; finals are offered again | a final is dropped only when nobody wants it |
| **Room inbox** `dex/recovery-mailbox.js` | bounded FIFO of reports per room, their receipts, the batch of a turn | queue, stage, activate, cancel | bound; recipients fixed at admission; stop, retry, replay and recovery between stage and prompt | in order, to the member chosen, in one prompt, receipts true |
| **TLO backend turn** `dex/tlo-backend-ownership-seam.js`, `tlo-dex-ledger-gate.js`, `tlo-backend-runtime.js`, `tlo-conversation-store.js`, `local-targets/tlo-backend-chat.js` | one-use capability, reserved turn, conversation journal | reserve, consume, send, stream, settle, deliver | failure between any two of the stores; a model that works on for a dead process | no inference the records do not pin; no answer forgotten by one and owed by another |
| **TLO deployment** `dex/tlo-production-assembly.js`, `tlo-production-activation.js`, `tlo-activation-runner-gate.js` | activation record with expiry, runner journal, the page's history | preflight, hand off, activate, first inference, roll back, renew | a stage that stops between two files; expiry; the page changing meanwhile | the files agree unless a stage is unresolved; no answer of the page is lost |
| **Session arbiter** `dex/extension-session-arbiter.js` | sockets, authority, standby | claim, promote, drop | two browsers at once | one authority |
| **Room state store** `dex/state-store.js`, `server-state-merge.js`, `state-repair.js` | room snapshot and its mirrors | merge, save, repair | a stale mirror of a page that reconnects | server-owned fields survive |
| **Task completion, tool results** `dex/task-completion-journal.js`, `local-tool-result-journal.js` | journals with acknowledgements | append, deliver, acknowledge | crash between delivery and acknowledgement | at least once, acknowledged once |

Left out, with the reason of each in `PROJECT.json`: provider control and agent
commands (parsing and routing), local and app target adapters (I/O), machine
spaces, pages and dashboards, the Python state store and the front-end storage
(mostly sequential), local control, media, and the bundled applications
(World-Book, Bookmark-Intel, WatchFusion and others), which are programs of
their own.

### What is hard to test here

`PROJECT.json` "hazards" lists 40, each at its line. The ones that shaped the
model: a continuation that reads `current` again after awaiting the ledger
(`server-scheduler.js:75`); a crash between the ledger append, the journal save
and the send (`:80`); a Stop while the target is being selected (`:261`); a
reselection of the user's tab that overtakes the next relay (`:406`); a capture,
a live final and the deadline finishing the same recovery
(`server-scheduler-recovery.js:378`); a reply that arrives after its room gave
up (`passive-recovery-lifecycle.js:50`); a recovery nobody wakes up (`:412`);
two processes between the read and the rename of the record
(`tlo-ownership-durable-store.js:105`); a handoff that stops between the fence
and the conversation (`tlo-production-assembly.js:217`); a torn ledger line and
the compaction that removes the trace of it (`turn-ledger.js:44`); a report
batched into a turn that is then retried, stopped or replayed
(`recovery-mailbox.js:150`).

## 2. Plan

Order: what can send a prompt twice or speak for the wrong owner comes first.

1. **TloFence, TloOwnership, TloOwnershipStore** and their proofs: the atomic
   contract, the file implementation, the refinement. *Done.*
2. **DexScheduler**: scheduler, recovery, gate, extension and local targets in
   one module, because the properties span them. *Done, with its proofs.*
3. **TurnLedger**: the gate and the file behind `ledger` and `reliable` of
   DexScheduler, line by line: torn appends, failures, starts, compaction. *Done,
   with its proofs.*
4. **TloConversation**: the conversation store as guards and results, as TloFence
   is for the ownership record. *Done.*
5. **TloDeployment**: composes TloFence and TloConversation with the activation
   record, the runner journal, a backend turn from the dispatch to the delivery,
   the model server and the page. *Done, with its proofs.* (Planned as two
   modules; they share so much state that one is shorter.)
6. **RoomInbox**: the queue of reports and every turn, stop, retry and recovery
   that touches it. *Done, with its proofs.*
7. Left: the **session arbiter**, the merge of a stale mirror, the two delivery
   journals; after them machine spaces.

Bounds of the plan: two rooms or two processes, two or three requests, one or two
failures per run; each module in one safety run and, where the code has a timer,
one liveness run.

## 3. The modules

### TloFence

The record (`owner`, `generation`, `handoff`, `turn`) and, for each method of
`tlo-ownership-fence.js`, a guard `Can...` from its checks and an operator that
builds the record it returns. Both TloOwnership and TloOwnershipStore use them,
so a guard is written once. `TurnPinned` and `HandoffOwned` are the two
invariants of a record. Owner secrets and their digests, name syntax and scope
names are abstracted: a host is a model value of kind browser or backend.

### TloOwnership

What the fence promises: one variable `fence`, changed atomically by one action
per method, with `clock` (for the expiry of handoffs) and `receipts` (requests
the Dex ledger has a confirmed final of). A method may carry a timestamp from a
little before its effect, because the code takes `Date.now()` before it commits;
hence `\E t \in 0 .. clock`.

### TloOwnershipStore

How it is done. `file` is the record with its revision, `lock` the directory that
`mkdir` creates, `pc` and `attempt` say where each process is in
`change()` -> `compareAndSwap()`: read, decide, mkdir, read and compare, rename,
rmdir. Any process may crash between two file operations and boots through
`fenceRestart` (two reads, as in the code); the write and the rmdir may fail.
`Atomic == INSTANCE TloOwnership WITH fence <- file.state` is the refinement.
Merged into one step: writing and syncing the private temporary file, and the
rename that publishes it, since nobody sees the former.

### DexScheduler

| Variable | Code |
|---|---|
| `relay`, `pending`, `journal`, `restoreTo` | `room.relay`, `pendingTurn`, `turnJournal`, `restoreTabId` of the snapshot |
| `watches`, `receipts` | late-final watches, committed final receipts of the room |
| `ledger`, `reliable` | entries of the turn ledger; whether an append failed |
| `current`, `worker` | `scheduler.current`; the recovery that waits for its answer |
| `gates`, `locates` | dispatches waiting for their append; turns waiting for the local targets |
| `view`, `awake` | the selected tab as last heard; a `processSoon` timer |
| `extUp`, `extTab`, `toExt`, `fromExt`, `outbox` | the socket, the tab the next prompt goes to, messages, the extension's final outbox |
| `toLocal`, `fromLocal` | open calls of local targets and their results |
| `delivered`, `answered`, `turnOf`, `cancelled`, `halted`, `replies` | what the targets were given and answered (they alone read it), and history for the properties |

An action is a handler up to its first slow `await` or a continuation after one:

- *user*: `StartRelay`, `StopInFlight` (the turn is out: note the stop in the
  journal), `StopRelay` (it is not: cancel it);
- *process()*: `Archive` and `WatchExpires` (passive recoveries), `Expire`,
  `WorkerStale`, `ResumeCapture`, `ResumeReplay`, `ResumeUncertain`,
  `ResumeUnsupported` (live ones),
  `StartLocal`, `StartSelected`, `StartSelecting`, `StartOffline`,
  `StartRefused` (queued turns), `Rest` (nothing to do: restore the user's tab);
- *continuations*: `LocateDone`, `LocateFails`, `AppendDone`, `AppendFails`,
  `Timeout`;
- *extension and targets*: `ExtSelect`, `ExtPrompt`, `ExtCapture`, `ExtFails`,
  `ExtPublishes`, `ExtDrops`, `ProviderAnswers`, `ProviderFails`,
  `LocalReceives`, `LocalFails`, `LocalAnswers`. Commands overlap: `toExt` is a
  set, since each runs in a handler of its own;
- *events at the server*: `Selected`, `Errored`, `Captured`, `LocalCaptured`,
  and `OnlineFinal` / `LocalFinal`, which share `Final`: a late final, a
  recovered one, the current turn's, or nobody's; and `RefusedFinal`: the reply
  names another request or says nothing, and is not committed. A refused final of a
  passive recovery leaves that recovery waiting while another room's turn runs, which
  is why `OneTurn` speaks of live recoveries;
- `Crash`: memory is lost, the snapshot is kept, the appends under way are in
  the file up to some point.

Abstractions, each of which can only add behaviour or leaves out a feature named
here: what a reply says (it ends the relay or goes on, either way); time (a
deadline may pass whenever its timer is armed); budget extensions; the inbox,
member turns and continued relays (RoomInbox); app targets (as local ones); reopening a closed
tab (as selecting it); `prompt_accepted` and activity events, which only renew
the lease. The selection of a tab for a capture and the capture are one command, so
a capture that reads a tab somebody else selected in between is only a capture that
finds nothing. A reply that a capture of a local target finds is not refused. The
branch of `passive-recovery-lifecycle.js:24-27` that clears a journal whose reply is
already committed is not an action: in the runs no journal is ever of a committed
request, so the branch is never taken.

### TurnLedger

| Variable | Code |
|---|---|
| `file`, `open` | the lines of `dex-turn-ledger.jsonl`; whether the last one lacks its newline |
| `latest`, `reliable`, `writes` | the map, the flag and the counter of `createTurnLedger` |
| `chain`, `compacting` | the promise chain of `record()`; its head has been appended and compacts |
| `pendingDispatches` | the reservations of `beforeDispatch` |
| `sends`, `finished`, `trusted`, `past` | history for the properties |

Callers: `BeforeDispatch`, `Observe`. The chain, one record at a time:
`RecordSuperseded` (an event not newer than the committed one), `RecordAppend`,
`AppendFails`, `Compact`, `CompactFails`. `Crash` and `AppendFails` leave of the
append under way nothing, a part, all, or all but the newline (`CutShort`); the
next append is then glued to the tail and the line is `Damaged`. A start reads the
file (`ParseLines`) or cannot (`ReadFails`). `past` is `clean` while every start
found the file in order, `doubted` after one that did not, `laundered` once a
compaction has rewritten the file of such a start.

### TloConversation

The record of `tlo-conversation-store.js` (generation, history, the pending turn
with its phase) and its methods, in the style of TloFence. A message is what
matters of it: the request it belongs to, or that it was typed into the page.

### TloDeployment

| Variable | Code |
|---|---|
| `fence`, `conv`, `act` | the ownership record, the conversation record, the activation record |
| `journal` | the runner gate's file: is a stage unresolved, has the first inference been granted |
| `dex` | the scheduler's turn, and what the ledger and the room confirm of earlier ones |
| `server`, `used` | memory of the process: session, startup error, the runtime's generation, the permit, a stage waiting for the page; the sessions there have been |
| `forwards`, `relay` | whether the capability reaches the adapter (`local-targets/manager.js:139` drops it, a direct call does not); how far each request is |
| `wire` | the model server's side of a request |
| `page` | the Search Monitor page: workspace, history, turn, hydration |

*Stages* (`Preflight`, `Prepare`, `Handoff`, `Activate`,
`AuthorizeFirstInference`, `Rollback`, `RollbackOffers`, `RollbackCompletes`,
`StageFails`): the gate saves the stage as pending, performs it and saves its
result, so a stage that stops anywhere stays unresolved and no later one runs.
`Performs(writes, ...)` is a synchronous stage that writes several files in turn
and may stop after any of them. A stage that waits for the page is cut there.
*Turns* go through the awaits of `sendLocalPrompt` one at a time: the target is
found with the transport of its owner then (`Find`), the seam is asked
(`StandAside`, `Admit`), and the prompt goes to whoever owns TLO by then
(`RelayToPage`, `Send`); `RefuseTurn` and `SendRefused` end it at any of these
points. A call that writes twice may stop half-way, because the second write
throws or the process dies: `AdmitBreaks` (reserved, not dispatched), `SendBreaks`
(begun, not dispatched), and `Settle` (the fence settled, the conversation not
delivered). A refusal is always possible, since the capability expires in 15 s
and a listing is remembered for 600 ms. Then `StreamBreaks`, `StreamEnds`,
`Commit`, `SettleRefused`, `GiveUp`; the *model* (`Arrive`, `EndUnheard`); the
*page* (`Page...`, of which `PageClears` is a new conversation: it cancels the turn
but no hydration, unlike `PageReloads`, and `PageHydrates` clears in the same way);
and *time and crashes* (`Lapse`, `LeaseLost`, `Crash`, `Start`).

### RoomInbox

| Variable | Code |
|---|---|
| `enabled` | the members with `relayEnabled` |
| `messages`, `queue` | the reports with their recipients and receipts (`deferredSendReceipts`); `deferredRelays` |
| `relay`, `turn` | `room.relay`; the turn of the room, pending, running, parked or passive: `pendingTurn` and the recovery journal, of which there is one at a time |
| `last` | the last message of the room, from which a relay is continued |
| `prompts`, `chosen` | history: how often a report was in a prompt; reports a person continued from |

`Admit` is `queueSend`; `ActivateNext` starts a relay from the queue; `Begin`,
`Prompt`, `Retry`, `CompleteTurn`, `FailCurrent`, `StopRelay`, `ParkCurrent`,
`Replay`, `LedgerUncertain`, `Recovered`, `Expire`, `Archive` are what the
scheduler and its recovery do to the room, `StageForPending` and `SetStopped`
being the parts of them that touch the queue. When a turn may be sent, what the
ledger says and who waits for whom is DexScheduler's subject; here a turn may
fail, be parked or come back at any point the code allows, once per bound.

## 4. The runs

| Run | Configuration | Shows |
|---|---|---|
| `ownership` | 3 hosts, 2 requests, generations to 4, clock to 3, a handoff that can expire | `TurnPinsOwnership`, `HandoffFromOwner`, `OwnershipMoves`, `TurnsEndByReceipt` over every order of calls |
| `ownership_store` | 2 processes, one browser and one backend host, one request, 7 revisions, one crash each | `ImplementsFence` (refinement), `AmbiguousLockFreezes`, `RestartFencesTurn` |
| `dex_one_room` | one room, one online and one local member, a relay of 2 turns, 2 failures of any kind | `LedgerBeforeSend`, `SendOnce`, `ReplyOnce`, `BudgetKept`, `StopSticks` |
| `dex_two_rooms` | two rooms with one member each, 2 starts, one crash, disconnect or refused reply | `OneTurn`, `StoppedNeverSent` |
| `dex_liveness` | one room, two members, 2 turns, one failure | `TurnEnds` under fairness |
| `dex_stale_turn` | two rooms, `InterruptAwaits` | finding 1 |
| `dex_restore` | two rooms, no failures | finding 2 |
| `dex_offline` | one room, a disconnect, no reconnection assumed | finding 3 |
| `turn_ledger` | 2 requests, 4 calls, 3 starts, compaction every 2 writes, unreadable files | `KnownUnlessLaundered`, `SendOnce`, `FinishedStands`, and `GateAnswers` under fairness |
| `turn_ledger_compaction` | the same, every start can read the file | finding 4 |
| `tlo_deployment` | one page workspace, 2 server sessions, 2 requests, a message typed into the page, generations to 3, with and without the capability | `InferencePinned`, `DeliveryReconcilable`, `StoresAgree`, `TurnAttended`, `AnswersKept` |
| `room_inbox` | 2 members, 3 reports, a queue of 2, budgets of 2, one relay from outside, one interruption, one retry | `ReceiptsAgree`, `InOrder`, `RecipientKept`, `PromptedOnce`, `NothingTrimmed`, and `Drains` under fairness |

**Bounds and why they are enough.** Every counter of a module that could grow has
a bound constant, marked `bound` at its declaration.

- *Fence.* A generation changes only by a handoff, and the code compares
  generations for equality; four of them let a stale host come back two
  generations later, and reach the refusal at `MaxSafeGeneration`. Two requests
  tell a turn's own receipt from another's. The theorems have no bounds on the
  sets of hosts and requests, and hold for every value of the others.
- *Store.* Two processes are the least that race; seven revisions allow a claim,
  a turn, a handoff and a boot fence; one crash each covers a stale lock and a
  restarted process beside a live one. Again the theorems drop these.
- *DexScheduler.* `MaxFaults` bounds failures of the kinds in `FaultKinds`
  together: with two, a crash during the recovery of a disconnect or a failed
  command after a failed append happens. `MaxRequests` counts prompts, replays
  included: four for a relay of two turns, so each can be replayed or retried
  once. `MaxRetries = 1` reaches both sides of the attempt limit. One room is
  enough for what a room does to itself; what rooms do to each other needs two,
  and those runs allow one start each.
- `NothingArchived`, the CONSTRAINT of `dex_two_rooms`, stops a behaviour once a
  passive recovery has been archived. What a late final then does is the business
  of one room, which `dex_one_room` follows to the end.

- *TurnLedger.* `CompactEvery = 2` and `MaxLines = 1` stand for 64 appends and two
  megabytes, so that compactions happen; three starts are what damage, its
  discovery and its laundering take. The theorems have none of these bounds.
- *TloDeployment.* Two sessions allow one restart, after which an activation
  record is another session's. Generation 3 is a handoff and the rollback of it,
  and the refusal to go further. Two requests are one under way and one that is
  settled or refused. One typed message tells a page that has changed from one that
  has not. Requests are only compared with each other, and so are the sessions of
  the server, which is why both are symmetric (`MCTloDeployment`); no liveness is
  checked there. `TurnAttended` is about turns whose room still shows the request
  (`Sourced`): for another `markUncertain` throws, and the turn stays dispatched
  until a restart fences it.
- *RoomInbox.* Two members are the least with a recipient other than the sender;
  three reports overfill a queue of two, and let a batch, a relay's source and a
  waiting report exist together. One interruption each way reaches every phase of a
  turn with any queue; a relay of two turns has a turn after the first reply.

**InterruptAwaits.** When FALSE, a Stop or a disconnect does not fall into the
one file append (or target refresh) a dispatch waits for. With TRUE,
`LedgerBeforeSend` is violated (finding 1). The passing runs set FALSE so that
they say what holds beside that finding; they do *not* show those properties with
such an interruption. A crash may fall into an append in every run.

**Deadlock** is not checked where a server may rightly be idle with nothing to do
(the Dex, ledger, deployment and inbox runs) or refuse to serve, or freeze on an orphaned lock (the store).

**Fairness.** `ServerFair` is weak fairness of the server's own steps: timers
fire (`Process`, `Expire`, `Timeout`), promises settle (`Continue`), messages
that can arrive do (`Deliver`, `Reach`). A Node event loop gives that. `FairSpec`
adds that an extension without a connection gets one again: it retries every
1.2 s (`extension/service-worker.js:349-381`). Nothing is assumed of the user, of
agents, who may never answer, or of failures. `dex_offline` uses `OfflineSpec`,
without the reconnection. The liveness run leaves out failing appends: when the
one a selected target waits for throws, nobody catches it and the turn stays
`selecting` (`server-scheduler.js:379`, a hazard without a property), and page
edits, which only wake the scheduler more often.

TurnLedger assumes that the event loop runs what is queued and that a file
operation returns or throws. RoomInbox assumes that the scheduler, which wakes
itself after every change of a room, starts what can start; that a turn under way
ends by its lease or its transport; and that a recovery ends by its deadline. The
last is finding 3's subject: it holds while an extension or a page is connected
now and then. `Drains` assumes nothing of senders, stops and failures.
TloDeployment states no fairness and has no liveness property: an unresolved
stage, an unknown turn and an expired activation are meant to wait for the owner.

## 5. What the violations show

1. **`dex_stale_turn`, `LedgerBeforeSend`.** `dispatchOnline` awaits the append of
   one request and then sends the prompt of whatever turn is `current`
   (`dex/server-scheduler.js:75-88`). Stop, during that await, does not see a turn
   in flight, clears it and lets the next room start; the append returns and that
   room's prompt goes to the selected tab, under an id the ledger does not know.
   `README.md:433` and `DEX-MODE.md:298` say the ledger records the boundary first.
2. **`dex_restore`, `RightTarget`.** The reselection of the user's tab is sent
   outside of every turn and not remembered (`:406-409`). A relay that starts
   before it is done sees its member's tab still selected, sends its prompt without
   a tab id, and the prompt lands in the user's tab. `DEX-MODE.md:150` says that
   targets do not fight over the selected tab.
3. **`dex_offline`, `RecoveryEnds`.** A turn parked by a disconnect arms no timer
   (`:412`, `:427`), so its deadline is not looked at while the extension stays
   away, and its journal blocks the other rooms. `DEX-MODE.md:17` says an
   independent deadline wake prevents that.
4. **`turn_ledger_compaction`, `KnownOrUnreliable`.** An append fails half-way and
   the dispatch that follows is glued to its torn line. The next start sees the
   damage and is unreliable, but a compaction in that life rewrites the file from
   memory, without the damaged line (`dex/turn-ledger.js:44`), and the start after
   it trusts a ledger that does not know a prompt that left. `DEX-MODE.md:300` says
   that no entry in a reliable ledger makes a replay safe.

Met while modelling, each a hazard in `PROJECT.json`, and not run as violations:
a report whose recipient only observes cannot be freed by letting it take part,
since the room counts as busy (`Drains` excepts it: `Blocked`); a retry drops the
batch a replay would keep; a relay continued by hand after an expired recovery may
send a report again (`PromptedOnce` excepts it); a handoff does not ask whether
the page has a turn under way. In the deployment, a message typed into the page
between the comparison and the replacement of a hydration is lost, an answer is
not (`AnswersKept`); an activation record that has expired or belongs to an
earlier session can be neither renewed nor replaced; and after a crash between the
settlement and the delivery the inferred answer stays pending, since nothing calls
`reconcileInferred` (`DeliveryReconcilable` says that it could be called).

## 6. What is proved

Assumptions: the named `ASSUME`s of the modules, that is, `Null` is none of the
hosts, rooms, members' targets, requests, runs, turns, journals, histories or
other records, browsers and backends are disjoint, a room has a member, and the
bounds are naturals. Sets of hosts, requests and processes are arbitrary, also
infinite.

- **TloFence_proofs.** One lemma per operator of the fence: from a sound record
  (`Sound`: well formed, `TurnPinned`, `HandoffOwned`) and its guard, the result is
  sound.
- **TloOwnership_proofs.** `IInv` = soundness of `fence` with the types of the clock
  and the receipts. The type of the record is needed because the target of a
  handoff becomes the owner; given that, `TurnPinned` and `HandoffOwned` are each
  inductive, since every method of the fence checks for an open turn and an open
  handoff itself and relies on no other. From `IInv`: `TypeCorrect`,
  `TurnAlwaysPinsOwnership`, `HandoffAlwaysFromOwner`, and the action properties
  `OwnershipMovesByHandoff` and `TurnsEndOnlyByReceipt`.
- **TloOwnershipStore_proofs.** The invariant is the argument of optimistic
  concurrency. `LockHeld`: a process between mkdir and rmdir owns the directory,
  hence mutual exclusion. `DecisionsValid`: a pending change was decided on a
  revision not in the future and, if that revision is still in the file, is allowed
  on the record *now* (`Allowed` stays true while a process waits, because clock
  and receipts only grow). `Compared`: nobody writes between a successful
  comparison and the rename. So every rename is an allowed atomic change:
  `StoreImplementsFence`, the refinement. The same invariant gives
  `AmbiguousLockIsFinal`. `RestartAlwaysFences` needs a second one, `FencedInv`,
  that follows a crashed process through its boot: the turn it reserved is
  unknown, or the process has not finished booting.

- **TurnLedger_proofs.** The inductive invariant relates the file, the map and the
  chain of records. `Verdict`: a life that read an unreliable file says so.
  `Durable`: what the process remembers, and what went out unless a compaction
  laundered it, is in the file, or the file shows damage. `Remembered`: a life that
  read a reliable file knows what went out. `GateOnce`: while nothing was damaged, a
  request was sent at most once, and a gate record in the chain holds its only
  reservation, unsent. `Done`: while nothing was damaged, the last event of a
  finished request, in the file and in memory, is its completion. The step that
  needs care is an append glued to a torn line: it destroys a line, and with it the
  file is no longer readable, which is what the next start reports. From it:
  `TypeCorrect`, `ReplayIsSafe` (`KnownUnlessLaundered`), `DispatchedOnce`
  (`SendOnce`) and `CompletionIsFinal` (`FinishedStands`), for any requests, calls,
  starts and compaction interval.
- **RoomInbox_proofs.** For any number of members and any bounds. The invariant has
  two halves. `Books` is about the reports: the queue is exactly the queued ones in
  the order of admission (`Fifo`), each aimed at the recipient its admission chose
  (`Aimed`, which is why the members taking part may change only while nothing is
  queued), and none of them has been in a prompt (`Fresh`). `SoundTurn` is about a
  turn, the room's or one about to replace it: its inbox fits, its reports have left
  the queue, are for its member, and have been in no prompt unless it was sent. Each
  operation on the queue keeps the books once and for all (`PrefixLeaves`,
  `StagingKeeps`, `StoppingKeeps`); each action is then shown to use it on a sound
  turn. A batch started as a relay needs one fact of its own: the next member after
  the author of its last report is the recipient (`RecipientIsNext`), since the
  recipient takes part. From it all six invariants of the run.
- **DexScheduler_proofs.** For any rooms, members, targets, bounds and fault kinds,
  and whether or not open awaits are interrupted. Besides the types, the invariant
  says: `RoomSound`, a room has a queued turn or a journal but not both, its journal
  allows at least the turns its relay has left, and a passive journal has stopped;
  `Turning`, at most one journal is live, it is that of the current turn if there is
  one, no recovery of the current turn's room waits, and that turn is not
  interrupted; `WithinBudget`, the turns begun and the
  cardinality of `Places` - the turns that the rooms may still begin, one element
  each - are together at most `Budget` per start. A step then need only be shown to
  use up a place when it begins a turn, and to create none when it parks, retries,
  recovers, resumes or restores one; each of these moves the remaining turns between
  the relay and the journal. From it: `TypeCorrect`, `OneTurnAtATime`,
  `BudgetIsKept`.
- **DexDispatch_proofs.** What the ledger, the journals, the open awaits and the
  messages say of a request, for any constants with `~InterruptAwaits`. Without
  that hypothesis `LedgerBeforeSend` is false: a Stop that hits an open await is
  what finding 1 is about, and `dex_stale_turn` shows it. The parts of the
  invariant, each of which another needs: `Known` and `Heard`, every request
  belongs to a turn that was begun, and nothing mentions a later one;
  `Awaiting`, an open await of the gate or of the page search is the current
  turn's, and nothing of that turn is out; `Out`, a prompt under way, a
  delivery, an answer or an entry of the outbox is of a request the ledger
  holds, and there is one of them at most; `Marked`, the journal agrees with the
  ledger about the dispatch, and a stop in it is final; `Single`, a turn has at
  most one request in the ledger, and only the room it belongs to can begin it
  again; `Replied`, a request is replied to once, and its receipt tells a
  repeated final; `Halting`, a stopped room only runs out what was sent;
  `Unsent`, a cancelled request is never in the ledger. `Single` is why a replay
  is safe: a turn is queued again only from a live journal whose request is not
  in the ledger, and no other place remembers the turn. From it:
  `LedgerComesFirst`, `SentOnce`, `RepliedOnce`, and the action properties
  `StopIsFinal` and `CancelledIsUnsent`.
- **TloDeployment_proofs.** For any browsers, backends and requests, whichever
  way the dispatch capability travels. The stages are long lists of writes of
  which any prefix may be all that happens, so the proof asks two things of
  them: after each single write no turn is open and the conversation says what
  it said (`Wrote`), and either the stage is left unresolved and forgotten
  (`Broken`) or its last write leaves the files in agreement (`WritesIs`). Every
  other step is one of a few kinds (`Kind`): it puts what is under way in doubt,
  which disturbs nothing (`Doubting`), offers the conversation to the page, or
  is one of the four steps of a served turn. The invariant: `Process`, a stage
  that waits for the page belongs to a living process and is in the journal, and
  no call survives its process; `Asked`, a request is dispatched once, and what
  the fence, the relay and the page know of one comes from that; `Served`, the
  turn a process works on is the one in the fence, and after the stream the one
  whose answer the conversation holds; `Pinned`, the fence and the conversation
  both remember a request already on its way to the model (and not only one the
  model works on, which is what `InferencePinned` says); `Remembered`, a turn in
  the history is over, so it cannot come a second time; `Blank`, while there is
  no conversation the page has none of its turns, which is why the first export
  may found it; `Staged`, the files agree (`Agreed`) also while a stage waits
  for the page, and from the offer to the page until its answer nobody but the
  stage can move the fence, the conversation or the activation's base;
  `Hydration`, a page about to replace its history is about to get no fewer
  answers than it holds, and since the server owns TLO meanwhile it cannot be
  admitted to a turn that would bring another. `Agreed` holds more than
  `StoresAgree`: for which generation a record was prepared, and that the
  conversation has lost no answer since. From it: `DeploymentTyped`,
  `InferenceAlwaysPinned`, `AlwaysReconcilable`, `StoresAlwaysAgree`,
  `TurnAlwaysAttended`, and the action property `AnswersAlwaysKept`.

Only model-checked: the liveness properties `TurnEnds`, `GateAnswers` and
`Drains`, since liveness under fairness is out of the prover's reach. Not
established at all: that the lock directory is exclusive (the semantics of
`mkdir`), and that a rename is atomic and durable; both are taken from the file
system, as the code does.

## 7. Not modelled

The components marked `not_modelled` and the parts named in the notes of the
`partly` ones in `PROJECT.json`; within the modelled ones, the abstractions of
section 3. Most notable for a reader of the properties: the manual resolution of
a passive recovery; the rule that a captured candidate must be stable for some
time, which the model replaces by a choice; what a page edit does to a room, of
which RoomInbox uses only that a busy room keeps its members; and the runner that
signs the owner's stages, which the deployment takes as calls that may come at any
time. Rotation and integrity of secrets are outside of every module.

The bundled applications, the front end and the Python file stores make up most of
the repository's lines. They are sequential programs or programs of their own, and
the share of the repository the models cover is small for that reason: the models
follow the one part in which several actors, failures and durable state meet.
