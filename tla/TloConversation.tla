--------------------------- MODULE TloConversation ---------------------------
(***************************************************************************)
(* The durable conversation of the TLO scope and the methods of            *)
(* dex/tlo-conversation-store.js as pure functions of it, in the way of    *)
(* TloFence: a guard and the record that results.                          *)
(*                                                                         *)
(* Abstracted: a message typed into the page is Chat and the answer to it  *)
(* Reply, whatever they say; the two messages of a turn of the backend are *)
(* the request they belong to; the digest of a history is the history.     *)
(* Left out: the lock directory (that of the fence, checked in             *)
(* TloOwnershipStore), the bound of 40 messages, and the ids stored next   *)
(* to the request (a function of it).                                      *)
(***************************************************************************)
EXTENDS TloFence, Sequences

CONSTANTS
    Chat,   \* a message typed into the page
    Reply   \* the answer to one

ASSUME ChatAssumption == Chat # Reply /\ {Chat, Reply} \cap Requests = {}

Histories == Seq(Requests \cup {Chat, Reply})

PendingPhases == {"prepared", "dispatched", "unknown", "inferred"}

Pendings == [request : Requests, phase : PendingPhases]

Conversations ==
    [generation : Nat, history : Histories, pending : Pendings \cup {Null}]

ASSUME NullConversationAssumption == Null \notin Conversations \cup Pendings

\* The turn of request `r` is under way in one of `phases`.
PendingIn(c, r, phases) ==
    c.pending # Null /\ c.pending.request = r /\ c.pending.phase \in phases

\* Whether the store vouches for the history in generation `g`.
Proof(c, g) == c # Null /\ c.generation = g /\ c.pending = Null

Initialized(g, history) == [generation |-> g, history |-> history, pending |-> Null]

\* `digested` is the history the handoff was prepared with.
CanAdvanceGeneration(c, g, digested) == Proof(c, g) /\ c.history = digested

Advanced(c) == [c EXCEPT !.generation = c.generation + 1]

CanBeginTurn(c, g) == Proof(c, g)

Begun(c, r) == [c EXCEPT !.pending = [request |-> r, phase |-> "prepared"]]

CanMove(c, g, r, phases) == c # Null /\ c.generation = g /\ PendingIn(c, r, phases)

Moved(c, phase) == [c EXCEPT !.pending.phase = phase]

Delivered(c) ==
    [c EXCEPT !.history = Append(c.history, c.pending.request), !.pending = Null]

\* A restart keeps an inferred answer and doubts everything else.
Restarted(c) ==
    IF c # Null /\ c.pending # Null /\ c.pending.phase \in {"prepared", "dispatched"}
      THEN Moved(c, "unknown")
      ELSE c
=============================================================================
