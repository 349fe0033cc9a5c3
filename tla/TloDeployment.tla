---------------------------- MODULE TloDeployment ----------------------------
(***************************************************************************)
(* Who runs TLO: the owner's stages that move its conversation from the    *)
(* browser page to the server and back, the turns Dex sends it meanwhile,  *)
(* and the files that have to agree about it.  It composes                 *)
(*                                                                         *)
(*   fence    the ownership record (TloFence),                             *)
(*   conv     the durable conversation (TloConversation),                  *)
(*   act      the activation record (tlo-production-activation.js),        *)
(*   journal  the owner's stages (tlo-activation-runner-gate.js),          *)
(*   dex      the scheduler's turn, its ledger and its receipts, as far as *)
(*            the ledger gate looks at them,                               *)
(*   server   what a Nexus process keeps in memory                         *)
(*            (tlo-production-assembly.js, tlo-backend-ownership-seam.js), *)
(*   relay    how far the process is with each request                     *)
(*            (server-local-relay.js, tlo-backend-chat.js),                *)
(*   wire     the model's side of it (tlo_backend_runtime_config.py),      *)
(*   page     the Search Monitor page (tloChat.js).                        *)
(*                                                                         *)
(* A step is what JavaScript does between two awaits.  Where such a step   *)
(* writes several files it may stop after any of them, because a write     *)
(* throws or because the process dies.                                     *)
(*                                                                         *)
(* Abstracted: the age of a record (Lapse may come at any time), secrets   *)
(* and signatures, the 40 messages a history may have, the command ids of  *)
(* the stages, the identity of the build, whether the page's composer is   *)
(* enabled (a page may always try), and the queueing of file locks.        *)
(***************************************************************************)
EXTENDS TloConversation, FiniteSets, SequencesExt

CONSTANTS
    Forwarding,   \* whether the dispatch capability reaches the adapter: it
                  \* does where the adapter is called directly, it does not
                  \* through the target manager
    MaxChats      \* bound: messages the page holds that were typed into it

ASSUME ForwardingAssumption == Forwarding \subseteq BOOLEAN
ASSUME ChatsAssumption == MaxChats \in Nat

VARIABLES fence, conv, act, journal, dex, server, used, forwards, relay, wire, page

files == <<fence, conv, act>>
vars == <<files, journal, dex, server, used, forwards, relay, wire, page>>

-----------------------------------------------------------------------------
(* State *)

Modes == {"prepared", "handed_off", "active"}

\* `base` is the page's history the handoff was prepared with.
Activations ==
    [mode : Modes, session : Backends, generation : Nat, workspace : Browsers,
     base : Histories, expired : BOOLEAN]

\* A stage of the owner that waits for the page.
Controls ==
    [stage : {"preflight", "rollback"}, at : {"export", "exported", "hydrate", "hydrated"},
     host : Browsers, seen : Histories]

\* null is none of the values a variable or a field can hold besides it.
ASSUME NullDeploymentAssumption ==
    /\ Null \notin Requests \cup {Chat} \cup Nat
    /\ Null \notin Activations \cup Controls
    /\ Null \notin Histories

RelayPhases ==
    {"idle", "called", "page_found", "server_found", "unclaimed", "page",
     "admitted", "streaming", "final", "committed", "over"}

TypeOK ==
    /\ Sound(fence)
    /\ conv \in Conversations \cup {Null}
    /\ act \in Activations \cup {Null}
    /\ journal \in [unresolved : BOOLEAN, granted : BOOLEAN]
    /\ dex \in [current : Requests \cup {Null}, asked : SUBSET Requests,
                completed : SUBSET Requests, receipts : SUBSET Requests]
    /\ server \in [session : Backends \cup {Null}, broken : BOOLEAN,
                   runtime : Nat \cup {Null}, permit : Requests \cup {Null},
                   firstDone : BOOLEAN, control : Controls \cup {Null}]
    /\ used \subseteq Backends
    /\ forwards \in BOOLEAN
    /\ relay \in [Requests -> RelayPhases]
    /\ wire \in [Requests -> {"none", "sent", "inferring"}]
    /\ page \in [workspace : Browsers, history : Histories,
                 turn : Requests \cup {Chat, Null}, admitted : BOOLEAN,
                 hydrating : Histories \cup {Null}]

Down ==
    [session |-> Null, broken |-> FALSE, runtime |-> Null, permit |-> Null,
     firstDone |-> FALSE, control |-> Null]

Up == server.session # Null

Init ==
    /\ fence = Empty
    /\ conv = Null
    /\ act = Null
    /\ journal = [unresolved |-> FALSE, granted |-> FALSE]
    /\ dex = [current |-> Null, asked |-> {}, completed |-> {}, receipts |-> {}]
    /\ server = Down
    /\ used = {}
    /\ forwards \in Forwarding
    /\ relay = [r \in Requests |-> "idle"]
    /\ wire = [r \in Requests |-> "none"]
    /\ page \in [workspace : Browsers, history : {<<>>}, turn : {Null},
                 admitted : {FALSE}, hydrating : {Null}]

-----------------------------------------------------------------------------
(* What the process reads *)

\* The activation record as `read` accepts it.
Usable == act # Null /\ ~act.expired /\ act.session = server.session

\* The deployment state the inventory reports.
Deployment ==
    IF act = Null THEN "disabled" ELSE IF Usable THEN act.mode ELSE "invalid"

BackendOwns == fence.owner \in Backends

\* `active()` of the runtime.
Active == Usable /\ act.mode = "active" /\ act.generation = server.runtime

\* `readiness` of the runtime, asked by request `r` (Null: by nobody).
Ready(r) ==
    /\ IsOwner(fence, server.session, server.runtime)
    /\ fence.handoff = Null
    /\ Active
    /\ fence.turn # Null => TurnIn(fence, r, {"admitted", "dispatched"})
    /\ Proof(conv, server.runtime)

\* The route lists the TLO target.
Listed ==
    /\ ~server.broken
    /\ Deployment # "invalid"
    /\ fence.handoff = Null
    /\ IF BackendOwns
         THEN server.runtime # Null /\ Ready(Null)
         ELSE fence.owner \in {Null, page.workspace}

\* The room state still shows request `r` as a turn of its own.
Sourced(r) == r = dex.current \/ r \in dex.receipts

\* The requests whose final receipt both the ledger and the room confirm.
Confirmed == dex.receipts \cap dex.completed

-----------------------------------------------------------------------------
(* The stages of the owner *)

\* Mutant of Opened: the journal is written when the stage has succeeded.
OpenedUnsaved(j) == j

\* The stage is saved as pending before its operation runs.
Opened(j) == [j EXCEPT !.unresolved = TRUE]

\* The inventory shows an idle Nexus and a deployment in one of `states`.
GateOpen(states) ==
    /\ Up
    /\ ~journal.unresolved
    /\ dex.current = Null
    /\ fence.handoff = Null
    /\ fence.turn # Null => fence.turn.phase # "unknown"
    /\ Deployment \in states

\* Calls and streams of a process that died are gone.
Lost == [r \in Requests |-> IF relay[r] = "idle" THEN "idle" ELSE "over"]

Dies ==
    /\ used # Backends
    /\ server' = Down
    /\ relay' = Lost

\* A synchronous stage performs `writes`, each the three files as it leaves
\* them.  It stops after the first n of them, unless it performs them all and
\* `finishes`: then the process goes on with the memory `after`.
Performs(writes, finishes, after) ==
    \E n \in 0..Len(writes) :
        /\ LET state == IF n = 0 THEN files ELSE writes[n]
           IN fence' = state[1] /\ conv' = state[2] /\ act' = state[3]
        /\ IF finishes /\ n = Len(writes)
             THEN /\ server' = [after EXCEPT !.control = Null]
                  /\ journal' = [journal EXCEPT !.unresolved = FALSE]
                  /\ UNCHANGED relay
             ELSE /\ \/ server' = [server EXCEPT !.control = Null] /\ UNCHANGED relay
                     \/ Dies
                  /\ journal' = Opened(journal)

Control(stage, at, seen) ==
    [stage |-> stage, at |-> at, host |-> page.workspace, seen |-> seen]

At(stage, at) ==
    /\ server.control # Null
    /\ server.control.stage = stage
    /\ server.control.at = at

\* Stage history-export, up to the export it asks of the page.
Preflight ==
    /\ GateOpen({"disabled"})
    /\ ~server.broken
    /\ journal' = Opened(journal)
    /\ server' = [server EXCEPT !.control = Control("preflight", "export", <<>>)]
    /\ UNCHANGED <<files, dex, used, forwards, relay, wire, page>>

PreparedFor(host, generation, seen) ==
    [mode |-> "prepared", session |-> server.session, generation |-> generation + 1,
     workspace |-> host, base |-> seen, expired |-> FALSE]

\* The export has come: the first one founds the journal of the conversation,
\* a later one must be what the journal holds.
Prepare ==
    /\ At("preflight", "exported")
    /\ act = Null
    /\ LET host == server.control.host
           seen == server.control.seen
           owned == Claimed(fence, host)
           founded == Initialized(1, seen)
       IN \/ /\ CanClaimInitialBrowser(fence)
             /\ conv = Null
             /\ Performs(<<<<owned, conv, act>>, <<owned, founded, act>>,
                           <<owned, founded, PreparedFor(host, 1, seen)>>>>, TRUE, server)
          \/ /\ fence.owner = host
             /\ Proof(conv, fence.generation)
             /\ conv.history = seen
             /\ Performs(<<<<fence, conv, PreparedFor(host, fence.generation, seen)>>>>,
                         TRUE, server)
    /\ UNCHANGED <<dex, used, forwards, wire, page>>

\* Stage handoff: to the server, without asking the page again.
Handoff ==
    /\ GateOpen({"prepared"})
    /\ fence.owner = act.workspace
    /\ CanPrepareHandoff(fence, fence.owner, fence.generation, act.session)
    /\ CanAdvanceGeneration(conv, fence.generation, act.base)
    /\ LET offered == Prepared(fence, act.session, 0)
           accepted == Acknowledged(offered)
           moved == Completed(accepted)
           advanced == Advanced(conv)
           writes == <<<<offered, conv, act>>, <<accepted, conv, act>>,
                       <<moved, conv, act>>, <<moved, advanced, act>>,
                       <<moved, advanced, [act EXCEPT !.mode = "handed_off"]>>>>
           last == IF CanCompleteHandoff(accepted, fence.owner, fence.generation)
                     THEN 5 ELSE 2
       IN Performs(SubSeq(writes, 1, last), last = 5,
                   [server EXCEPT !.runtime = moved.generation])
    /\ UNCHANGED <<dex, used, forwards, wire, page>>

\* Stage activation.
Activate ==
    /\ GateOpen({"handed_off"})
    /\ IsOwner(fence, act.session, act.generation)
    /\ fence.turn = Null
    /\ Proof(conv, fence.generation)
    /\ Performs(<<<<fence, conv, [act EXCEPT !.mode = "active", !.expired = FALSE]>>>>,
                TRUE, [server EXCEPT !.runtime = fence.generation])
    /\ UNCHANGED <<dex, used, forwards, wire, page>>

\* Stage first-inference: the one grant there will ever be, for request `r`.
AuthorizeFirstInference(r) ==
    /\ GateOpen({"active"})
    /\ ~journal.granted
    /\ BackendOwns
    /\ fence.turn = Null
    /\ ~server.firstDone /\ server.permit = Null
    /\ \/ /\ journal' = [journal EXCEPT !.granted = TRUE]
          /\ server' = [server EXCEPT !.permit = r]
       \/ /\ journal' = [unresolved |-> TRUE, granted |-> TRUE]
          /\ server' \in {server, [server EXCEPT !.permit = r]}
    /\ UNCHANGED <<files, dex, used, forwards, relay, wire, page>>

\* Stage rollback, up to the export it asks of the page.
Rollback ==
    /\ GateOpen({"handed_off", "active"})
    /\ BackendOwns
    /\ fence.turn = Null
    /\ conv # Null /\ conv.pending = Null
    /\ journal' = Opened(journal)
    /\ server' = [server EXCEPT !.control = Control("rollback", "export", <<>>)]
    /\ UNCHANGED <<files, dex, used, forwards, relay, wire, page>>

\* Mutant of Undiverged: takes the page as it is.
UndivergedAnyway(seen) == TRUE

\* The page holds nothing, or what it held when it gave TLO away.
Undiverged(seen) == seen = <<>> \/ seen = act.base

\* The page's history has come: offer it ownership and the conversation.
\* `act` is what the stage read when it began; it has not changed since.
RollbackOffers ==
    /\ At("rollback", "exported")
    /\ Undiverged(server.control.seen)
    /\ Proof(conv, fence.generation)
    /\ CanPrepareHandoff(fence, fence.owner, fence.generation, server.control.host)
    /\ fence' = Prepared(fence, server.control.host, 0)
    /\ server' = [server EXCEPT !.control.at = "hydrate"]
    /\ UNCHANGED <<conv, act, journal, dex, used, forwards, relay, wire, page>>

\* The page holds the conversation: complete the handoff.  A record that has
\* lapsed meanwhile cannot be disabled.
RollbackCompletes ==
    /\ At("rollback", "hydrated")
    /\ CanAcknowledgeHandoff(fence, server.control.host, 0)
    /\ LET accepted == Acknowledged(fence)
           moved == Completed(accepted)
           advanced == Advanced(conv)
           writes == <<<<accepted, conv, act>>, <<moved, conv, act>>,
                       <<moved, advanced, act>>, <<moved, advanced, Null>>>>
           last == IF ~CanCompleteHandoff(accepted, fence.owner, fence.generation) THEN 1
                   ELSE IF Usable THEN 4 ELSE 3
       IN Performs(SubSeq(writes, 1, last), last = 4, [server EXCEPT !.runtime = Null])
    /\ UNCHANGED <<dex, used, forwards, wire, page>>

\* A stage throws at its start, or while it waits for a page that answers
\* nothing in time or something else.  It stays unresolved for good.
StageFails ==
    /\ \/ GateOpen({"disabled", "handed_off", "active"})
       \/ server.control # Null
    /\ journal' = Opened(journal)
    /\ server' = [server EXCEPT !.control = Null]
    /\ UNCHANGED <<files, dex, used, forwards, relay, wire, page>>

-----------------------------------------------------------------------------
(* The turns Dex sends *)

\* The scheduler dispatches `r` to TLO; its ledger admits the dispatch.
Dispatch(r) ==
    /\ Up
    /\ dex.current = Null
    /\ r \notin dex.asked
    /\ dex' = [dex EXCEPT !.current = r, !.asked = @ \cup {r}]
    /\ relay' = [relay EXCEPT ![r] = "called"]
    /\ UNCHANGED <<files, journal, server, used, forwards, wire, page>>

\* The target manager finds TLO, with the transport of who runs it.
Find(r) ==
    /\ relay[r] = "called"
    /\ Listed
    /\ relay' = [relay EXCEPT ![r] = IF BackendOwns THEN "server_found" ELSE "page_found"]
    /\ UNCHANGED <<files, journal, dex, server, used, forwards, wire, page>>

\* The first turn of the server needs the owner's permit, and the seam uses it
\* up before it looks any further.
Permitted(r) == server.firstDone \/ server.permit = r

SeamAsked(r) == relay[r] \in {"page_found", "server_found"} /\ fence.handoff = Null

\* The seam stays out of the dispatch: the browser owns TLO by now, or the
\* activation of the server that owns it has lapsed.
StandAside(r) ==
    /\ SeamAsked(r)
    /\ \/ ~BackendOwns /\ relay[r] = "page_found" /\ UNCHANGED server
       \/ /\ BackendOwns /\ server.runtime # Null /\ ~Active
          /\ Permitted(r)
          /\ server' = [server EXCEPT !.permit = Null]
    /\ relay' = [relay EXCEPT ![r] = "unclaimed"]
    /\ UNCHANGED <<files, journal, dex, used, forwards, wire, page>>

\* The prompt nobody has claimed goes to the page, if it is still the page's.
RelayToPage(r) ==
    /\ relay[r] = "unclaimed"
    /\ Listed
    /\ ~BackendOwns
    /\ page.turn = Null
    /\ page' = [page EXCEPT !.turn = r]
    /\ relay' = [relay EXCEPT ![r] = "page"]
    /\ UNCHANGED <<files, journal, dex, server, used, forwards, wire>>

\* The seam claims the turn: the server owns TLO and is ready for it, and the
\* ledger and the room confirm the dispatch.
Claims(r) ==
    /\ SeamAsked(r) /\ relay[r] = "server_found"
    /\ BackendOwns /\ server.runtime # Null /\ Ready(Null)
    /\ Permitted(r)
    /\ Sourced(r) /\ r \notin dex.completed

\* The turn is reserved and marked dispatched before any transport, and the
\* capability for it is issued.
Admit(r) ==
    /\ Claims(r)
    /\ fence' = InPhase(Reserved(fence, r), "dispatched")
    /\ server' = [server EXCEPT !.permit = Null]
    /\ relay' = [relay EXCEPT ![r] = "admitted"]
    /\ UNCHANGED <<conv, act, journal, dex, used, forwards, wire, page>>

\* It is reserved and no more: the next write throws, and then the one that
\* puts the turn in doubt may throw too, or the process dies.
AdmitBreaks(r) ==
    /\ Claims(r)
    /\ \/ /\ fence' \in {Reserved(fence, r), InPhase(Reserved(fence, r), "unknown")}
          /\ server' = [server EXCEPT !.permit = Null]
          /\ relay' = [relay EXCEPT ![r] = "over"]
       \/ fence' = Reserved(fence, r) /\ Dies
    /\ UNCHANGED <<conv, act, journal, dex, used, forwards, wire, page>>

\* The dispatch is refused before anything durable happened: TLO is not
\* listed (any more), the page is busy or no owner, or the seam throws - for
\* the transport found, a permit that is missing, lapsed or another request's,
\* or what the ledger says.  A permit is then gone.
RefuseTurn(r) ==
    /\ \/ relay[r] \in {"called", "page_found", "server_found", "unclaimed"} /\ UNCHANGED server
       \/ /\ SeamAsked(r) /\ BackendOwns /\ server.runtime # Null
          /\ server' = [server EXCEPT !.permit = Null]
    /\ relay' = [relay EXCEPT ![r] = "over"]
    /\ UNCHANGED <<files, journal, dex, used, forwards, wire, page>>

\* The route and the adapter accept the prompt of the admitted turn.
CanSend(r) ==
    /\ forwards
    /\ ~server.broken
    /\ server.runtime # Null
    /\ Ready(r)

Sends(r) ==
    /\ relay[r] = "admitted"
    /\ CanSend(r)
    /\ CanBeginTurn(conv, server.runtime)

Send(r) ==
    /\ Sends(r)
    /\ conv' = Moved(Begun(conv, r), "dispatched")
    /\ wire' = [wire EXCEPT ![r] = "sent"]
    /\ relay' = [relay EXCEPT ![r] = "streaming"]
    /\ UNCHANGED <<fence, act, journal, dex, server, used, forwards, page>>

\* Mutant of Doubted: a failed turn stays as it is.
DoubtedNever(r) == fence

\* `markUncertain`, which throws for a request the room no longer shows.
Doubted(r) ==
    IF Sourced(r) /\ CanMarkUncertain(fence, r) THEN InPhase(fence, "unknown") ELSE fence

\* The conversation has begun the turn and no more: the next write throws, and
\* then the one that puts it in doubt may throw too, or the process dies.
SendBreaks(r) ==
    /\ Sends(r)
    /\ \/ /\ conv' \in {Begun(conv, r), Moved(Begun(conv, r), "unknown")}
          /\ fence' = Doubted(r)
          /\ relay' = [relay EXCEPT ![r] = "over"]
          /\ UNCHANGED server
       \/ conv' = Begun(conv, r) /\ UNCHANGED fence /\ Dies
    /\ UNCHANGED <<act, journal, dex, used, forwards, wire, page>>

\* The prompt of the admitted turn is refused: the target manager, which
\* remembers a listing for a moment, does not find TLO any more, the capability
\* is missing or has expired, or the adapter is not ready.
SendRefused(r) ==
    /\ relay[r] = "admitted"
    /\ fence' = Doubted(r)
    /\ relay' = [relay EXCEPT ![r] = "over"]
    /\ UNCHANGED <<conv, act, journal, dex, server, used, forwards, wire, page>>

\* The stream fails; whether the model goes on with it is another question.
StreamBreaks(r) ==
    /\ relay[r] = "streaming"
    /\ conv' = IF CanMove(conv, fence.generation, r, {"prepared", "dispatched"})
                THEN Moved(conv, "unknown") ELSE conv
    /\ fence' = Doubted(r)
    /\ relay' = [relay EXCEPT ![r] = "over"]
    /\ UNCHANGED <<act, journal, dex, server, used, forwards, wire, page>>

\* The answer is complete: the conversation remembers it before Dex hears it.
StreamEnds(r) ==
    /\ relay[r] = "streaming"
    /\ wire[r] = "inferring"
    /\ CanMove(conv, fence.generation, r, {"dispatched"})
    /\ conv' = Moved(conv, "inferred")
    /\ wire' = [wire EXCEPT ![r] = "none"]
    /\ relay' = [relay EXCEPT ![r] = "final"]
    /\ UNCHANGED <<fence, act, journal, dex, server, used, forwards, page>>

\* The scheduler's handling of the final answer to `r`; a turn it has given
\* up it ignores.  The entry of the ledger is not saved for sure.
Concluded(r) ==
    IF dex.current # r THEN {dex}
    ELSE {[dex EXCEPT !.current = Null, !.receipts = @ \cup {r},
                      !.completed = IF saved THEN @ \cup {r} ELSE @] : saved \in BOOLEAN}

Commit(r) ==
    /\ relay[r] = "final"
    /\ dex' \in Concluded(r)
    /\ relay' = [relay EXCEPT ![r] = "committed"]
    /\ UNCHANGED <<files, journal, server, used, forwards, wire, page>>

\* The seam settles the turn against the receipt and then delivers the
\* conversation; in between the process may die, or the delivery throws in one
\* that lives on, and the seam has nothing left to put in doubt.
Settle(r) ==
    /\ relay[r] = "committed"
    /\ Sourced(r)
    /\ CanSettle(fence, fence.owner, fence.generation, r, Confirmed)
    /\ fence' = Settled(fence)
    /\ \/ /\ conv' = Delivered(conv)
          /\ server' = [server EXCEPT !.firstDone = TRUE]
          /\ relay' = [relay EXCEPT ![r] = "over"]
       \/ relay' = [relay EXCEPT ![r] = "over"] /\ UNCHANGED <<conv, server>>
       \/ Dies /\ UNCHANGED conv
    /\ UNCHANGED <<act, journal, dex, used, forwards, wire, page>>

\* No receipt confirms the answer: the turn is in doubt, the answer is kept.
SettleRefused(r) ==
    /\ relay[r] = "committed"
    /\ ~(Sourced(r) /\ CanSettle(fence, fence.owner, fence.generation, r, Confirmed))
    /\ fence' = Doubted(r)
    /\ relay' = [relay EXCEPT ![r] = "over"]
    /\ UNCHANGED <<conv, act, journal, dex, server, used, forwards, wire, page>>

\* The scheduler ends its turn without a final answer: stopped, timed out,
\* failed, or found interrupted after a restart.
GiveUp(r) ==
    /\ Up
    /\ dex.current = r
    /\ dex' = [dex EXCEPT !.current = Null]
    /\ UNCHANGED <<files, journal, server, used, forwards, relay, wire, page>>

-----------------------------------------------------------------------------
(* The model's side *)

\* The runtime authority of the model's server, which reads the files itself.
Authorized(r) ==
    /\ act # Null /\ ~act.expired /\ act.mode = "active"
    /\ IsOwner(fence, act.session, act.generation)
    /\ fence.handoff = Null
    /\ TurnIn(fence, r, {"dispatched"})

BrowserOwnerAllowed ==
    /\ act # Null => ~act.expired /\ act.mode = "prepared"
    /\ fence.owner \in Browsers \cup {Null} /\ fence.handoff = Null

\* The request arrives.
Arrive(r) ==
    /\ wire[r] = "sent"
    /\ wire' = [wire EXCEPT ![r] = IF Authorized(r) THEN "inferring" ELSE "none"]
    /\ UNCHANGED <<files, journal, dex, server, used, forwards, relay, page>>

\* The model ends a turn nobody listens to any more.
EndUnheard(r) ==
    /\ wire[r] = "inferring"
    /\ relay[r] # "streaming"
    /\ wire' = [wire EXCEPT ![r] = "none"]
    /\ UNCHANGED <<files, journal, dex, server, used, forwards, relay, page>>

-----------------------------------------------------------------------------
(* The page *)

\* Somebody types a message.  The page shows it before it asks whether it may.
PageAsks ==
    /\ page.turn = Null
    /\ Cardinality({i \in DOMAIN page.history : page.history[i] = Chat}) < MaxChats
    /\ page' = [page EXCEPT !.history = Append(@, Chat), !.turn = Chat]
    /\ UNCHANGED <<files, journal, dex, server, used, forwards, relay, wire>>

PageAdmitted ==
    /\ page.turn # Null /\ ~page.admitted
    /\ BrowserOwnerAllowed
    /\ page' = [page EXCEPT !.admitted = TRUE]
    /\ UNCHANGED <<files, journal, dex, server, used, forwards, relay, wire>>

\* The request whose answer the process expects from the page is over.
PageTurnOver == [r \in Requests |-> IF r = page.turn THEN "over" ELSE relay[r]]

Quiet(p) == [p EXCEPT !.turn = Null, !.admitted = FALSE]

\* The turn is refused, stopped, or its stream breaks.
PageFails ==
    /\ page.turn # Null
    /\ page' = Quiet(page)
    /\ relay' = PageTurnOver
    /\ UNCHANGED <<files, journal, dex, server, used, forwards, wire>>

\* The answer to a message joins the history; that to a prompt of Dex goes to
\* the scheduler, if the process that sent it still waits.
PageAnswers ==
    /\ page.turn # Null /\ page.admitted
    /\ IF page.turn = Chat
         THEN /\ page' = Quiet([page EXCEPT !.history = Append(@, Reply)])
              /\ UNCHANGED dex
         ELSE /\ page' = Quiet(page)
              /\ dex' \in IF relay[page.turn] = "page" THEN Concluded(page.turn) ELSE {dex}
    /\ relay' = PageTurnOver
    /\ UNCHANGED <<files, journal, server, used, forwards, wire>>

\* The page is loaded anew, perhaps as another workspace, and is empty.
PageReloads ==
    /\ \E w \in Browsers :
          page' = [workspace |-> w, history |-> <<>>, turn |-> Null, admitted |-> FALSE,
                   hydrating |-> Null]
    /\ page' # page
    /\ relay' = PageTurnOver
    /\ UNCHANGED <<files, journal, dex, server, used, forwards, wire>>

\* 'New conversation': the page forgets its history and cancels its turn.  A
\* hydration that waits for a digest goes on.
PageClears ==
    /\ page' = Quiet([page EXCEPT !.history = <<>>])
    /\ page' # page
    /\ relay' = PageTurnOver
    /\ UNCHANGED <<files, journal, dex, server, used, forwards, wire>>

PageExports ==
    /\ server.control # Null /\ server.control.at = "export"
    /\ server.control.host = page.workspace
    /\ page.turn = Null
    /\ server' = [server EXCEPT !.control.at = "exported", !.control.seen = page.history]
    /\ UNCHANGED <<files, journal, dex, used, forwards, relay, wire, page>>

\* Hydration compares the history with the one exported, then waits for the
\* digest of the new one.
PageCompares ==
    /\ At("rollback", "hydrate")
    /\ server.control.host = page.workspace
    /\ page.turn = Null /\ page.hydrating = Null
    /\ page.history = server.control.seen
    /\ page' = [page EXCEPT !.hydrating = conv.history]
    /\ UNCHANGED <<files, journal, dex, server, used, forwards, relay, wire>>

\* It replaces what the page holds by then, cancels the turn the page may have
\* begun meanwhile, and answers.
PageHydrates ==
    /\ page.hydrating # Null
    /\ page' = Quiet([page EXCEPT !.history = page.hydrating, !.hydrating = Null])
    /\ relay' = PageTurnOver
    /\ server' = IF At("rollback", "hydrate")
                   THEN [server EXCEPT !.control.at = "hydrated"]
                   ELSE server
    /\ UNCHANGED <<files, journal, dex, used, forwards, wire>>

-----------------------------------------------------------------------------
(* Time, crashes and starts *)

\* The activation outlives its lease or its ten minutes.
Lapse ==
    /\ act # Null /\ ~act.expired
    /\ act' = [act EXCEPT !.expired = TRUE]
    /\ UNCHANGED <<fence, conv, journal, dex, server, used, forwards, relay, wire, page>>

\* The lease timer finds that it cannot renew.
LeaseLost ==
    /\ Up
    /\ server.runtime # Null /\ act # Null /\ act.mode = "active" /\ ~Usable
    /\ server' = [server EXCEPT !.broken = TRUE, !.runtime = Null]
    /\ UNCHANGED <<files, journal, dex, used, forwards, relay, wire, page>>

Crash ==
    /\ Up
    /\ Dies
    /\ UNCHANGED <<files, journal, dex, used, forwards, wire, page>>

\* Mutant of Fenced: the restart takes an unfinished turn for finished.
FencedAway(s) == IF NeedsFence(s) THEN Settled(s) ELSE s

Fenced(s) == IF NeedsFence(s) THEN InPhase(s, "unknown") ELSE s

\* A process starts as a new session: what was under way is in doubt, and an
\* activation record, which is another session's, is an error.
Start ==
    /\ ~Up
    /\ \E session \in Backends \ used :
          /\ server' = [Down EXCEPT !.session = session, !.broken = (act # Null)]
          /\ used' = used \cup {session}
    /\ fence' = Fenced(fence)
    /\ conv' = Restarted(conv)
    /\ UNCHANGED <<act, journal, dex, forwards, relay, wire, page>>

-----------------------------------------------------------------------------
Stages ==
    \/ Preflight \/ Prepare \/ Handoff \/ Activate
    \/ \E r \in Requests : AuthorizeFirstInference(r)
    \/ Rollback \/ RollbackOffers \/ RollbackCompletes \/ StageFails

\* What a process does with a turn it has begun.
Relaying(r) ==
    \/ Find(r) \/ StandAside(r) \/ RelayToPage(r)
    \/ Admit(r) \/ AdmitBreaks(r) \/ RefuseTurn(r)
    \/ Send(r) \/ SendBreaks(r) \/ SendRefused(r) \/ StreamBreaks(r)
    \/ StreamEnds(r) \/ Commit(r) \/ Settle(r) \/ SettleRefused(r)

Modelling(r) == Arrive(r) \/ EndUnheard(r)

Paging ==
    \/ PageAsks \/ PageAdmitted \/ PageFails \/ PageAnswers \/ PageReloads \/ PageClears
    \/ PageExports \/ PageCompares \/ PageHydrates

Next ==
    \/ Stages
    \/ \E r \in Requests : Dispatch(r) \/ Relaying(r) \/ GiveUp(r) \/ Modelling(r)
    \/ Paging
    \/ Lapse \/ LeaseLost \/ Crash \/ Start

Spec == Init /\ [][Next]_vars

-----------------------------------------------------------------------------
(* Properties *)

\* While the model works on a turn of the server - even for a process that
\* has died since - the records pin it: the server owns TLO in the generation
\* of the turn, and neither the fence nor the conversation has forgotten it.
InferencePinned ==
    \A r \in Requests : wire[r] = "inferring" =>
        /\ BackendOwns
        /\ TurnIn(fence, r, {"dispatched", "unknown"})
        /\ fence.turn.ownerGeneration = fence.generation
        /\ conv.generation = fence.generation
        /\ PendingIn(conv, r, {"dispatched", "unknown"})

Once(history, r) == Cardinality({i \in DOMAIN history : history[i] = r}) = 1

\* The fence lets go of a turn only with an answer that reached Dex: what the
\* conversation still owes is then an inferred answer with a confirmed
\* receipt, and every turn in its history is confirmed and stands there once.
DeliveryReconcilable ==
    conv # Null =>
        /\ conv.pending # Null /\ ~TurnIn(fence, conv.pending.request, Phases) =>
              conv.pending.phase = "inferred" /\ conv.pending.request \in Confirmed
        /\ \A r \in Requests : r \in ToSet(conv.history) =>
              r \in Confirmed /\ Once(conv.history, r)

\* As long as the owner's journal shows no unresolved stage, the files agree:
\* on the generation, on who runs TLO, and on the history that is to move.
StoresAgree ==
    ~journal.unresolved =>
        /\ fence.handoff = Null
        /\ fence.owner # Null => conv # Null /\ conv.generation = fence.generation
        /\ BackendOwns <=> act # Null /\ act.mode \in {"handed_off", "active"}
        /\ BackendOwns => IsOwner(fence, act.session, act.generation)
        /\ act # Null /\ act.mode = "prepared" =>
              fence.owner = act.workspace /\ conv.history = act.base
        /\ server.runtime # Null => server.runtime = fence.generation /\ BackendOwns

Replies(history) == Cardinality({i \in DOMAIN history : history[i] = Reply})

\* Giving TLO back to a page never costs an answer it holds.
AnswersKept ==
    [][page.hydrating # Null /\ page'.hydrating = Null /\ page'.history # <<>> =>
          Replies(page'.history) >= Replies(page.history)]_vars

\* Nobody leaves a dispatched turn behind: while the fence shows one that the
\* room still shows too, a process is at work on it or will start and fence it.
TurnAttended ==
    \A r \in Requests :
        Up /\ TurnIn(fence, r, {"dispatched"}) /\ Sourced(r) =>
            relay[r] \in {"admitted", "streaming", "final", "committed"}
=============================================================================
