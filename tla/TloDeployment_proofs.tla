------------------------ MODULE TloDeployment_proofs ------------------------
(***************************************************************************)
(* The owner's stages, the turns of the backend, the model and the page:   *)
(* every safety property of TloDeployment, for any hosts and requests.     *)
(***************************************************************************)
EXTENDS TloDeployment, TloFence_proofs, FiniteSetTheorems

-----------------------------------------------------------------------------
(* The inductive invariant.                                                *)

\* A stage waits for the page only in a living process and unresolved, and no
\* call outlives its process.
Process ==
    /\ server.control # Null => Up /\ journal.unresolved
    /\ ~Up => \A r \in Requests : relay[r] \in {"idle", "over"}

\* A request is asked once: what the fence, the relay and the page know of one
\* comes from that, and a turn of the page is none of the server.
Asked ==
    /\ dex.current # Null => dex.current \in dex.asked
    /\ dex.receipts \subseteq dex.asked
    /\ \A r \in Requests : relay[r] # "idle" => r \in dex.asked
    /\ fence.turn # Null => fence.turn.requestId \in dex.asked /\ BackendOwns
    /\ page.turn \in Requests => relay[page.turn] \in {"page", "over"}

Serving == {"admitted", "streaming", "final", "committed"}

\* The turn a process works on is the one in the fence, and its answer is the
\* one in the conversation.
Served ==
    \A r \in Requests :
        /\ relay[r] \in Serving => TurnIn(fence, r, {"dispatched"})
        /\ relay[r] \in {"final", "committed"} =>
              wire[r] = "none" /\ conv # Null /\ PendingIn(conv, r, {"inferred"})

\* What makes InferencePinned hold holds of a request on its way to the model.
Pinned ==
    \A r \in Requests : wire[r] # "none" =>
        /\ TurnIn(fence, r, {"dispatched", "unknown"})
        /\ conv # Null /\ conv.generation = fence.generation
        /\ PendingIn(conv, r, {"dispatched", "unknown"})

\* A turn enters the history when its call is over, and never again.
Remembered ==
    conv # Null =>
        /\ \A r \in Requests : r \in ToSet(conv.history) => relay[r] = "over"
        /\ conv.pending # Null => conv.pending.request \notin ToSet(conv.history)

Unasked(history) == \A r \in Requests : r \notin ToSet(history)

\* A page that has never been given a conversation holds no turn of Dex.
Blank ==
    conv = Null =>
        /\ Unasked(page.history)
        /\ server.control # Null => Unasked(server.control.seen)

\* StoresAgree but for the handoff, with what the next stages need: for which
\* generation a record was prepared, and that the conversation has lost no
\* answer since.
Agreed ==
    /\ fence.owner # Null => conv # Null /\ conv.generation = fence.generation
    /\ BackendOwns <=> act # Null /\ act.mode \in {"handed_off", "active"}
    /\ BackendOwns => /\ IsOwner(fence, act.session, act.generation)
                      /\ Replies(act.base) <= Replies(conv.history)
    /\ act # Null /\ act.mode = "prepared" =>
          /\ fence.owner = act.workspace /\ conv.history = act.base
          /\ act.generation = fence.generation + 1
    /\ server.runtime # Null => server.runtime = fence.generation /\ BackendOwns

\* The files agree also while a stage waits for the page, and from the offer
\* to the page on nothing but the stage can move them.
Staged ==
    /\ ~journal.unresolved \/ server.control # Null => Agreed
    /\ ~journal.unresolved => fence.handoff = Null
    /\ server.control # Null =>
          /\ server.control.stage = "rollback" => BackendOwns
          /\ server.control.at \in {"export", "exported"} => fence.handoff = Null
          /\ server.control.at \in {"hydrate", "hydrated"} =>
                /\ server.control.stage = "rollback"
                /\ fence.turn = Null /\ fence.handoff # Null
                /\ Proof(conv, fence.generation)
                /\ Undiverged(server.control.seen)

\* A page under hydration is about to get no fewer answers than it holds, and
\* since the server owns TLO it cannot come by another.
Hydration ==
    /\ page.admitted => page.turn # Null
    /\ page.hydrating # Null =>
          /\ BackendOwns /\ journal.unresolved /\ ~page.admitted /\ conv # Null
          /\ server.control # Null => At("rollback", "hydrate")
          /\ Replies(page.history) <= Replies(page.hydrating)

IInv ==
    /\ TypeOK /\ Process /\ Asked /\ Served /\ TurnAttended /\ Pinned
    /\ DeliveryReconcilable /\ Remembered /\ Blank /\ Staged /\ Hydration

-----------------------------------------------------------------------------
(* Constants, conversations and histories.                                 *)

LEMMA NullFacts ==
    /\ Null \notin Requests /\ Null # Chat /\ Null \notin Nat
    /\ Null \notin Activations /\ Null \notin Controls /\ Null \notin Histories
    /\ Null \notin Hosts /\ Null \notin Browsers /\ Null \notin Backends
    /\ Null \notin Conversations /\ Null \notin Pendings /\ Null \notin Turns
    /\ Null \notin Handoffs /\ Chat \notin Requests /\ Reply \notin Requests
    /\ Chat # Reply
BY NullAssumption, NullDeploymentAssumption, NullConversationAssumption, ChatAssumption
   DEF Hosts

LEMMA ConversationParts ==
    ASSUME NEW c \in Conversations
    PROVE  /\ c = [generation |-> c.generation, history |-> c.history, pending |-> c.pending]
           /\ c.generation \in Nat /\ c.history \in Histories
           /\ c.pending \in Pendings \cup {Null}
           /\ c.pending # Null => /\ c.pending.request \in Requests
                                  /\ c.pending.phase \in PendingPhases
BY DEF Conversations, Pendings

LEMMA ConversationTyped ==
    ASSUME NEW g \in Nat, NEW h \in Histories, NEW p \in Pendings \cup {Null}
    PROVE  [generation |-> g, history |-> h, pending |-> p] \in Conversations
BY DEF Conversations

\* A new generation of the same conversation.
LEMMA AdvancedIs ==
    ASSUME NEW c \in Conversations
    PROVE  /\ Advanced(c) \in Conversations
           /\ Advanced(c).generation = c.generation + 1
           /\ Advanced(c).history = c.history /\ Advanced(c).pending = c.pending
<1>1. Advanced(c) = [generation |-> c.generation + 1, history |-> c.history,
                     pending |-> c.pending]
    BY ConversationParts DEF Advanced, Conversations
<1> QED
    BY <1>1, ConversationParts, ConversationTyped

\* The phase of the turn under way.
LEMMA MovedIs ==
    ASSUME NEW c \in Conversations, c.pending # Null, NEW phase \in PendingPhases
    PROVE  /\ Moved(c, phase) \in Conversations
           /\ Moved(c, phase).generation = c.generation
           /\ Moved(c, phase).history = c.history
           /\ Moved(c, phase).pending # Null
           /\ Moved(c, phase).pending.request = c.pending.request
           /\ Moved(c, phase).pending.phase = phase
<1> DEFINE p == [c.pending EXCEPT !.phase = phase]
<1>1. /\ p \in Pendings /\ p.request = c.pending.request /\ p.phase = phase
    BY ConversationParts DEF Pendings
<1> HIDE DEF p
<1>2. Moved(c, phase) = [generation |-> c.generation, history |-> c.history, pending |-> p]
    <2>1. Moved(c, phase) = [c EXCEPT !.pending = p]
        BY DEF Moved, Conversations, p
    <2> QED
        BY <2>1, ConversationParts
<1> QED
    BY <1>1, <1>2, ConversationParts, ConversationTyped, NullFacts

\* A turn begun, and what becomes of it.
LEMMA BegunIs ==
    ASSUME NEW c \in Conversations, NEW r \in Requests
    PROVE  /\ Begun(c, r) \in Conversations
           /\ Begun(c, r).generation = c.generation /\ Begun(c, r).history = c.history
           /\ Begun(c, r).pending # Null /\ Begun(c, r).pending.request = r
           /\ Begun(c, r).pending.phase = "prepared"
<1> DEFINE p == [request |-> r, phase |-> "prepared"]
<1>1. p \in Pendings /\ p.request = r /\ p.phase = "prepared"
    BY DEF Pendings, PendingPhases
<1> HIDE DEF p
<1>2. Begun(c, r) = [generation |-> c.generation, history |-> c.history, pending |-> p]
    <2>1. Begun(c, r) = [c EXCEPT !.pending = p]
        BY DEF Begun, p
    <2> QED
        BY <2>1, ConversationParts
<1>3. /\ Begun(c, r) \in Conversations /\ Begun(c, r).pending = p
      /\ Begun(c, r).generation = c.generation /\ Begun(c, r).history = c.history
    BY <1>1, <1>2, ConversationParts, ConversationTyped
<1> QED
    BY <1>1, <1>3, NullFacts

LEMMA BegunMovedIs ==
    ASSUME NEW c \in Conversations, NEW r \in Requests, NEW phase \in PendingPhases
    PROVE  /\ Moved(Begun(c, r), phase) \in Conversations
           /\ Moved(Begun(c, r), phase).generation = c.generation
           /\ Moved(Begun(c, r), phase).history = c.history
           /\ Moved(Begun(c, r), phase).pending # Null
           /\ Moved(Begun(c, r), phase).pending.request = r
           /\ Moved(Begun(c, r), phase).pending.phase = phase
<1> DEFINE begun == Begun(c, r)
<1>1. /\ begun \in Conversations /\ begun.pending # Null /\ begun.pending.request = r
      /\ begun.generation = c.generation /\ begun.history = c.history
    BY BegunIs
<1> HIDE DEF begun
<1>2. /\ Moved(begun, phase) \in Conversations
      /\ Moved(begun, phase).generation = c.generation
      /\ Moved(begun, phase).history = c.history
      /\ Moved(begun, phase).pending # Null /\ Moved(begun, phase).pending.request = r
      /\ Moved(begun, phase).pending.phase = phase
    BY <1>1, MovedIs
<1> QED
    BY <1>2 DEF begun

\* The answer joins the history.
LEMMA DeliveredIs ==
    ASSUME NEW c \in Conversations, c.pending # Null
    PROVE  /\ Delivered(c) \in Conversations
           /\ Delivered(c).generation = c.generation
           /\ Delivered(c).history = Append(c.history, c.pending.request)
           /\ Delivered(c).pending = Null
<1> PICK h : h = Append(c.history, c.pending.request)
    OBVIOUS
<1>1. h \in Histories
    BY ConversationParts DEF Histories
<1>2. Delivered(c) = [generation |-> c.generation, history |-> h, pending |-> Null]
    <2>1. Delivered(c) = [c EXCEPT !.history = h, !.pending = Null]
        BY DEF Delivered
    <2> QED
        BY <2>1 DEF Conversations
<1>3. Delivered(c) \in Conversations
    BY <1>1, <1>2 DEF Conversations
<1> QED
    BY <1>2, <1>3

\* What a restart leaves of a conversation.
LEMMA RestartedIs ==
    ASSUME NEW c \in Conversations
    PROVE  /\ Restarted(c) \in Conversations
           /\ Restarted(c).generation = c.generation /\ Restarted(c).history = c.history
           /\ Restarted(c).pending = Null <=> c.pending = Null
           /\ c.pending # Null =>
                 /\ Restarted(c).pending.request = c.pending.request
                 /\ \/ Restarted(c).pending.phase = c.pending.phase
                    \/ /\ Restarted(c).pending.phase = "unknown"
                       /\ c.pending.phase \in {"prepared", "dispatched"}
<1>1. CASE c.pending # Null /\ c.pending.phase \in {"prepared", "dispatched"}
    <2>1. Restarted(c) = Moved(c, "unknown") /\ "unknown" \in PendingPhases
        BY <1>1, NullFacts DEF Restarted, PendingPhases
    <2> QED
        BY <1>1, <2>1, MovedIs
<1>2. CASE ~(c.pending # Null /\ c.pending.phase \in {"prepared", "dispatched"})
    BY <1>2 DEF Restarted
<1> QED
    BY <1>1, <1>2

-----------------------------------------------------------------------------
(* Histories.                                                              *)

Places(h, m) == {i \in DOMAIN h : h[i] = m}

LEMMA PlacesFinite ==
    ASSUME NEW h \in Histories, NEW m
    PROVE  IsFiniteSet(Places(h, m)) /\ Cardinality(Places(h, m)) \in Nat
<1>1. DOMAIN h = 1 .. Len(h) /\ Len(h) \in Nat
    BY DEF Histories
<1>2. IsFiniteSet(1 .. Len(h))
    BY <1>1, FS_Interval
<1>3. Places(h, m) \subseteq 1 .. Len(h)
    BY <1>1 DEF Places
<1> QED
    BY <1>2, <1>3, FS_Subset, FS_CardinalityType

LEMMA AppendPlaces ==
    ASSUME NEW h \in Histories, NEW m \in Requests \cup {Chat, Reply}
    PROVE  /\ Append(h, m) \in Histories
           /\ ToSet(Append(h, m)) = ToSet(h) \cup {m}
           /\ \A x : x # m => Places(Append(h, m), x) = Places(h, x)
           /\ m \notin ToSet(h) => Places(Append(h, m), m) = {Len(h) + 1}
<1> DEFINE k == Append(h, m)
<1>1. /\ Len(h) \in Nat /\ DOMAIN h = 1 .. Len(h)
      /\ k \in Histories /\ DOMAIN k = 1 .. Len(h) + 1
      /\ \A i \in 1 .. Len(h) : k[i] = h[i]
      /\ k[Len(h) + 1] = m
    BY DEF Histories
<1> HIDE DEF k
<1>2. ToSet(k) = ToSet(h) \cup {m}
    BY <1>1 DEF ToSet
<1>3. ASSUME NEW x, x # m PROVE Places(k, x) = Places(h, x)
    BY <1>1, <1>3 DEF Places
<1>4. ASSUME m \notin ToSet(h) PROVE Places(k, m) = {Len(h) + 1}
    BY <1>1, <1>4 DEF Places, ToSet
<1> QED
    BY <1>1, <1>2, <1>3, <1>4 DEF k

\* A message that is not an answer leaves the number of answers.
LEMMA AppendReplies ==
    ASSUME NEW h \in Histories, NEW m \in Requests \cup {Chat}
    PROVE  Replies(Append(h, m)) = Replies(h)
<1>1. Reply # m
    BY NullFacts
<1>2. Places(Append(h, m), Reply) = Places(h, Reply)
    BY <1>1, AppendPlaces
<1> QED
    BY <1>2 DEF Replies, Places

\* A turn that joins the history is there once, and so are the others.
LEMMA AppendOnce ==
    ASSUME NEW h \in Histories, NEW m \in Requests, m \notin ToSet(h)
    PROVE  /\ Once(Append(h, m), m)
           /\ \A r \in Requests : r # m /\ Once(h, r) => Once(Append(h, m), r)
<1>1. Cardinality(Places(Append(h, m), m)) = 1
    <2>1. Places(Append(h, m), m) = {Len(h) + 1}
        BY AppendPlaces
    <2> QED
        BY <2>1, FS_Singleton
<1>2. ASSUME NEW r \in Requests, r # m PROVE Places(Append(h, m), r) = Places(h, r)
    BY <1>2, AppendPlaces
<1> QED
    BY <1>1, <1>2 DEF Once, Places

LEMMA RepliesNat ==
    ASSUME NEW h \in Histories
    PROVE  Replies(h) \in Nat
BY PlacesFinite DEF Replies, Places

\* The empty history.
LEMMA EmptyHistory ==
    /\ <<>> \in Histories /\ ToSet(<<>>) = {} /\ Replies(<<>>) = 0
<1>1. \A m : Places(<<>>, m) = {}
    BY DEF Places
<1> QED
    BY <1>1, FS_EmptySet DEF Histories, ToSet, Replies, Places

-----------------------------------------------------------------------------
(* The kinds of steps.                                                     *)

\* The turn in the fence and the one in the conversation may only come into
\* doubt.
DoubtedFence(f) ==
    /\ Sound(f)
    /\ f.owner = fence.owner /\ f.generation = fence.generation /\ f.handoff = fence.handoff
    /\ f.turn = Null <=> fence.turn = Null
    /\ fence.turn # Null => /\ f.turn.requestId = fence.turn.requestId
                            /\ f.turn.phase \in {fence.turn.phase, "unknown"}

DoubtedConversation(c) ==
    /\ c \in Conversations \cup {Null}
    /\ c = Null <=> conv = Null
    /\ conv # Null =>
          /\ c.generation = conv.generation /\ c.history = conv.history
          /\ c.pending = Null <=> conv.pending = Null
          /\ conv.pending # Null =>
                /\ c.pending.request = conv.pending.request
                /\ \/ c.pending.phase = conv.pending.phase
                   \/ /\ c.pending.phase = "unknown"
                      /\ conv.pending.phase \in {"prepared", "dispatched"}

LEMMA PhaseIs ==
    ASSUME Sound(fence), fence.turn # Null
    PROVE  /\ DoubtedFence(InPhase(fence, "unknown"))
           /\ InPhase(fence, "unknown").turn.phase = "unknown"
<1> PICK f : f = InPhase(fence, "unknown")
    OBVIOUS
<1>1. /\ Sound(f) /\ f.owner = fence.owner /\ f.generation = fence.generation
      /\ f.turn # Null /\ f.turn.requestId = fence.turn.requestId
      /\ f.turn.phase = "unknown"
    BY PhaseSound DEF Phases
<1>2. f.handoff = fence.handoff
    BY <1>1 DEF Sound, TurnPinned
<1> QED
    BY <1>1, <1>2 DEF DoubtedFence

LEMMA SameIsDoubted ==
    ASSUME TypeOK
    PROVE  DoubtedFence(fence) /\ DoubtedConversation(conv)
BY DEF TypeOK, DoubtedFence, DoubtedConversation

LEMMA DoubtedIs ==
    ASSUME TypeOK, NEW r \in Requests
    PROVE  /\ DoubtedFence(Doubted(r))
           /\ Sourced(r) => ~TurnIn(Doubted(r), r, {"dispatched"})
<1>1. CASE Sourced(r) /\ CanMarkUncertain(fence, r)
    <2>1. Doubted(r) = InPhase(fence, "unknown") /\ fence.turn # Null
        BY <1>1 DEF Doubted, CanMarkUncertain, TurnIn
    <2> QED
        BY <2>1, PhaseIs DEF TypeOK, TurnIn
<1>2. CASE ~(Sourced(r) /\ CanMarkUncertain(fence, r))
    <2>1. Doubted(r) = fence
        BY <1>2 DEF Doubted
    <2> QED
        BY <1>2, <2>1, SameIsDoubted DEF CanMarkUncertain, TurnIn
<1> QED
    BY <1>1, <1>2

LEMMA FencedIs ==
    ASSUME TypeOK
    PROVE  /\ DoubtedFence(Fenced(fence))
           /\ Fenced(fence).turn # Null => Fenced(fence).turn.phase = "unknown"
<1>1. CASE NeedsFence(fence)
    <2>1. Fenced(fence) = InPhase(fence, "unknown") /\ fence.turn # Null
        BY <1>1 DEF Fenced, NeedsFence
    <2> QED
        BY <2>1, PhaseIs DEF TypeOK
<1>2. CASE ~NeedsFence(fence)
    <2>1. Fenced(fence) = fence
        BY <1>2 DEF Fenced
    <2> QED
        BY <1>2, <2>1, SameIsDoubted DEF NeedsFence
<1> QED
    BY <1>1, <1>2

LEMMA RestartedIsDoubted ==
    ASSUME TypeOK
    PROVE  DoubtedConversation(Restarted(conv))
<1>1. CASE conv = Null
    BY <1>1 DEF Restarted, DoubtedConversation
<1>2. CASE conv # Null
    <2>1. conv \in Conversations
        BY <1>2 DEF TypeOK
    <2>2. Restarted(conv) \in Conversations /\ Restarted(conv) # Null
        BY <2>1, RestartedIs, NullFacts
    <2> QED
        BY <1>2, <2>1, <2>2, RestartedIs DEF DoubtedConversation
<1> QED
    BY <1>1, <1>2

LEMMA BrokenIsDoubted ==
    ASSUME TypeOK, NEW r, CanMove(conv, fence.generation, r, {"prepared", "dispatched"})
    PROVE  DoubtedConversation(Moved(conv, "unknown"))
<1>1. /\ conv \in Conversations /\ conv # Null /\ conv.pending # Null
      /\ conv.pending.phase \in {"prepared", "dispatched"}
    BY DEF TypeOK, CanMove, PendingIn
<1>2. "unknown" \in PendingPhases
    BY DEF PendingPhases
<1>3. Moved(conv, "unknown") # Null
    BY <1>1, <1>2, MovedIs, NullFacts
<1> QED
    BY <1>1, <1>2, <1>3, MovedIs DEF DoubtedConversation

\* The steps that leave the files alone or put what is under way in doubt.
Doubting ==
    /\ DoubtedFence(fence') /\ DoubtedConversation(conv')
    /\ \A r \in Requests : wire'[r] # "none" => wire[r] # "none"

LEMMA LostIs ==
    ASSUME TypeOK, relay' = Lost
    PROVE  /\ relay' \in [Requests -> RelayPhases]
           /\ \A r \in Requests : relay'[r] = IF relay[r] = "idle" THEN "idle" ELSE "over"
BY DEF TypeOK, Lost, RelayPhases

LEMMA PageOverIs ==
    ASSUME TypeOK, relay' = PageTurnOver
    PROVE  /\ relay' \in [Requests -> RelayPhases]
           /\ \A r \in Requests : relay'[r] = IF r = page.turn THEN "over" ELSE relay[r]
BY DEF TypeOK, PageTurnOver, RelayPhases

-----------------------------------------------------------------------------
(* Types.                                                                  *)

Servers ==
    [session : Backends \cup {Null}, broken : BOOLEAN, runtime : Nat \cup {Null},
     permit : Requests \cup {Null}, firstDone : BOOLEAN, control : Controls \cup {Null}]

Dexes ==
    [current : Requests \cup {Null}, asked : SUBSET Requests,
     completed : SUBSET Requests, receipts : SUBSET Requests]

Pages ==
    [workspace : Browsers, history : Histories, turn : Requests \cup {Chat, Null},
     admitted : BOOLEAN, hydrating : Histories \cup {Null}]

\* A new stage of the owner, and one that goes on.
LEMMA ControlIs ==
    ASSUME TypeOK, NEW stage \in {"preflight", "rollback"},
           NEW at \in {"export", "exported", "hydrate", "hydrated"}
    PROVE  /\ Control(stage, at, <<>>) \in Controls
           /\ Control(stage, at, <<>>).stage = stage /\ Control(stage, at, <<>>).at = at
           /\ Control(stage, at, <<>>).seen = <<>>
BY EmptyHistory DEF TypeOK, Controls, Control

LEMMA ServerIs ==
    ASSUME TypeOK, NEW c \in Controls \cup {Null}, NEW s, s = [server EXCEPT !.control = c]
    PROVE  /\ s \in Servers /\ s.control = c /\ s.session = server.session
           /\ s.runtime = server.runtime /\ s.broken = server.broken
BY DEF TypeOK, Servers

LEMMA StageTypes ==
    ASSUME TypeOK,
           \/ Preflight \/ Rollback \/ StageFails
           \/ \E r \in Requests : AuthorizeFirstInference(r)
    PROVE  TypeOK'
<1>1. UNCHANGED <<files, dex, used, forwards, relay, wire, page>>
    BY DEF Preflight, Rollback, StageFails, AuthorizeFirstInference
<1>2. journal' \in [unresolved : BOOLEAN, granted : BOOLEAN]
    <2>1. Opened(journal) \in [unresolved : BOOLEAN, granted : BOOLEAN]
        BY DEF TypeOK, Opened
    <2>2. [journal EXCEPT !.granted = TRUE] \in [unresolved : BOOLEAN, granted : BOOLEAN]
        BY DEF TypeOK
    <2>3. [unresolved |-> TRUE, granted |-> TRUE] \in [unresolved : BOOLEAN, granted : BOOLEAN]
        OBVIOUS
    <2>4. CASE \E r \in Requests : AuthorizeFirstInference(r)
        BY <2>2, <2>3, <2>4 DEF AuthorizeFirstInference
    <2>5. CASE Preflight \/ Rollback \/ StageFails
        BY <2>1, <2>5 DEF Preflight, Rollback, StageFails
    <2> QED
        BY <2>4, <2>5
<1>3. server' \in Servers
    <2>1. CASE Preflight
        BY <2>1, ControlIs DEF Preflight, TypeOK, Servers
    <2>2. CASE Rollback
        BY <2>2, ControlIs DEF Rollback, TypeOK, Servers
    <2>3. CASE StageFails
        BY <2>3 DEF StageFails, TypeOK, Servers
    <2>4. CASE \E r \in Requests : AuthorizeFirstInference(r)
        BY <2>4 DEF AuthorizeFirstInference, TypeOK, Servers
    <2> QED
        BY <2>1, <2>2, <2>3, <2>4
<1> QED
    BY <1>1, <1>2, <1>3 DEF TypeOK, Servers, Dexes, files

\* The scheduler takes the final answer, or has given the turn up.
LEMMA ConcludedIs ==
    ASSUME TypeOK, NEW r \in Requests, dex' \in Concluded(r)
    PROVE  /\ dex' \in Dexes
           /\ \/ dex' = dex
              \/ /\ dex.current = r /\ dex'.current = Null /\ dex'.asked = dex.asked
                 /\ dex'.receipts = dex.receipts \cup {r}
                 /\ dex.completed \subseteq dex'.completed
<1>1. dex \in Dexes
    BY DEF TypeOK, Dexes
<1>2. CASE dex.current # r
    BY <1>1, <1>2 DEF Concluded
<1>3. CASE dex.current = r
    <2>1. PICK saved \in BOOLEAN :
            dex' = [dex EXCEPT !.current = Null, !.receipts = @ \cup {r},
                               !.completed = IF saved THEN @ \cup {r} ELSE @]
        BY <1>3 DEF Concluded
    <2> PICK done : done = IF saved THEN dex.completed \cup {r} ELSE dex.completed
        OBVIOUS
    <2>2. done \in SUBSET Requests /\ dex.completed \subseteq done
        BY <1>1 DEF Dexes
    <2>3. dex' = [current |-> Null, asked |-> dex.asked, completed |-> done,
                  receipts |-> dex.receipts \cup {r}]
        BY <1>1, <2>1 DEF Dexes
    <2> QED
        BY <1>1, <1>3, <2>2, <2>3 DEF Dexes
<1> QED
    BY <1>2, <1>3

LEMMA DexTypes ==
    ASSUME TypeOK, NEW r \in Requests,
           \/ Dispatch(r) \/ Find(r) \/ StandAside(r) \/ RelayToPage(r) \/ RefuseTurn(r)
           \/ Commit(r) \/ GiveUp(r) \/ Arrive(r) \/ EndUnheard(r)
    PROVE  TypeOK'
<1>1. UNCHANGED <<files, journal, used, forwards>>
    BY DEF Dispatch, Find, StandAside, RelayToPage, RefuseTurn, Commit, GiveUp, Arrive,
           EndUnheard
<1>2. dex' \in Dexes
    <2>1. CASE Commit(r)
        BY <2>1, ConcludedIs DEF Commit
    <2>2. CASE Dispatch(r)
        BY <2>2 DEF TypeOK, Dexes, Dispatch
    <2>3. CASE GiveUp(r)
        BY <2>3 DEF TypeOK, Dexes, GiveUp
    <2>4. CASE \/ Find(r) \/ StandAside(r) \/ RelayToPage(r) \/ RefuseTurn(r)
               \/ Arrive(r) \/ EndUnheard(r)
        BY <2>4 DEF TypeOK, Dexes, Find, StandAside, RelayToPage, RefuseTurn, Arrive, EndUnheard
    <2> QED
        BY <2>1, <2>2, <2>3, <2>4
<1>3. relay' \in [Requests -> RelayPhases] /\ wire' \in [Requests -> {"none", "sent", "inferring"}]
    BY DEF TypeOK, RelayPhases, Dispatch, Find, StandAside, RelayToPage, RefuseTurn, Commit,
           GiveUp, Arrive, EndUnheard
<1>4. server' \in Servers
    BY DEF TypeOK, Servers, Dispatch, Find, StandAside, RelayToPage, RefuseTurn, Commit,
           GiveUp, Arrive, EndUnheard
<1>5. page' \in [workspace : Browsers, history : Histories,
                 turn : Requests \cup {Chat, Null}, admitted : BOOLEAN,
                 hydrating : Histories \cup {Null}]
    BY DEF TypeOK, Dispatch, Find, StandAside, RelayToPage, RefuseTurn, Commit, GiveUp,
           Arrive, EndUnheard
<1> QED
    BY <1>1, <1>2, <1>3, <1>4, <1>5 DEF TypeOK, Servers, Dexes, files

LEMMA QuietIs ==
    ASSUME NEW p \in Pages
    PROVE  /\ Quiet(p) \in Pages /\ Quiet(p).history = p.history /\ Quiet(p).turn = Null
           /\ Quiet(p).admitted = FALSE /\ Quiet(p).hydrating = p.hydrating
           /\ Quiet(p).workspace = p.workspace
BY DEF Pages, Quiet

LEMMA ClearedIs ==
    ASSUME TypeOK, PageClears
    PROVE  /\ page' \in Pages /\ page'.history = <<>> /\ page'.turn = Null
           /\ page'.admitted = FALSE /\ page'.hydrating = page.hydrating
<1>1. [page EXCEPT !.history = <<>>] \in Pages
    BY EmptyHistory DEF TypeOK, Pages
<1> QED
    BY <1>1, QuietIs DEF PageClears, TypeOK, Pages

LEMMA HydratedIs ==
    ASSUME TypeOK, PageHydrates
    PROVE  /\ page' \in Pages /\ page'.history = page.hydrating /\ page'.turn = Null
           /\ page'.admitted = FALSE /\ page'.hydrating = Null
<1> PICK h : h = page.hydrating
    OBVIOUS
<1> PICK p : p = [page EXCEPT !.history = h, !.hydrating = Null]
    OBVIOUS
<1>1. h \in Histories
    BY DEF PageHydrates, TypeOK
<1>2. p \in Pages /\ p.history = h /\ p.hydrating = Null
    BY <1>1 DEF TypeOK, Pages
<1>3. page' = Quiet(p)
    BY DEF PageHydrates
<1> QED
    BY <1>2, <1>3, QuietIs

LEMMA SaysIs ==
    ASSUME TypeOK, NEW m \in {Chat, Reply}
    PROVE  /\ [page EXCEPT !.history = Append(@, m)] \in Pages
           /\ [page EXCEPT !.history = Append(@, m)].history = Append(page.history, m)
           /\ [page EXCEPT !.history = Append(@, m)].hydrating = page.hydrating
<1> PICK h : h = Append(page.history, m)
    OBVIOUS
<1>1. h \in Histories
    BY AppendPlaces DEF TypeOK
<1> QED
    BY <1>1 DEF TypeOK, Pages

LEMMA PageTypes ==
    ASSUME TypeOK, Paging, PageCompares => conv # Null
    PROVE  TypeOK'
<1>1. UNCHANGED <<files, journal, used, forwards, wire>>
    BY DEF Paging, PageAsks, PageAdmitted, PageFails, PageAnswers, PageReloads, PageClears,
           PageExports, PageCompares, PageHydrates
<1>2. dex' \in Dexes
    <2>1. CASE PageAnswers /\ page.turn # Chat
        <3>1. page.turn \in Requests
            BY <2>1 DEF PageAnswers, TypeOK
        <3>2. dex' = dex \/ dex' \in Concluded(page.turn)
            BY <2>1 DEF PageAnswers
        <3> QED
            BY <3>1, <3>2, ConcludedIs DEF TypeOK, Dexes
    <2>2. CASE ~(PageAnswers /\ page.turn # Chat)
        BY <2>2 DEF TypeOK, Dexes, Paging, PageAsks, PageAdmitted, PageFails, PageAnswers,
                    PageReloads, PageClears, PageExports, PageCompares, PageHydrates
    <2> QED
        BY <2>1, <2>2
<1>3. relay' \in [Requests -> RelayPhases]
    BY PageOverIs DEF TypeOK, Paging, PageAsks, PageAdmitted, PageFails, PageAnswers,
                      PageReloads, PageClears, PageExports, PageCompares, PageHydrates
<1>4. server' \in Servers
    <2>1. CASE PageExports
        BY <2>1, NullFacts DEF PageExports, TypeOK, Servers, Controls
    <2>2. CASE PageHydrates
        BY <2>2, NullFacts DEF PageHydrates, TypeOK, Servers, Controls, At
    <2>3. CASE ~PageExports /\ ~PageHydrates
        BY <2>3 DEF TypeOK, Servers, Paging, PageAsks, PageAdmitted, PageFails, PageAnswers,
                    PageReloads, PageClears, PageCompares
    <2> QED
        BY <2>1, <2>2, <2>3
<1>5. page' \in Pages
    <2>1. CASE PageAsks
        <3>1. Append(page.history, Chat) \in Histories
            BY AppendPlaces DEF TypeOK
        <3> QED
            BY <2>1, <3>1 DEF PageAsks, TypeOK, Pages
    <2>2. CASE PageAnswers
        <3>1. page \in Pages /\ [page EXCEPT !.history = Append(@, Reply)] \in Pages
            BY SaysIs DEF TypeOK, Pages
        <3> QED
            BY <2>2, <3>1, QuietIs DEF PageAnswers
    <2>3. CASE PageReloads
        BY <2>3, EmptyHistory DEF PageReloads, TypeOK, Pages
    <2>4. CASE PageCompares
        BY <2>4 DEF PageCompares, TypeOK, Pages, Conversations
    <2>5. CASE PageClears \/ PageHydrates
        BY <2>5, ClearedIs, HydratedIs
    <2>6. CASE PageFails
        <3>1. page \in Pages
            BY DEF TypeOK, Pages
        <3> QED
            BY <2>6, <3>1, QuietIs DEF PageFails
    <2>7. CASE PageAdmitted \/ PageExports
        <3>1. page \in Pages
            BY DEF TypeOK, Pages
        <3>2. page' = page \/ page' = [page EXCEPT !.admitted = TRUE]
            BY <2>7 DEF PageAdmitted, PageExports
        <3> QED
            BY <3>1, <3>2 DEF Pages
    <2> QED
        BY <2>1, <2>2, <2>3, <2>4, <2>5, <2>6, <2>7 DEF Paging
<1> QED
    BY <1>1, <1>2, <1>3, <1>4, <1>5 DEF TypeOK, Servers, Dexes, Pages, files

LEMMA DownIs ==
    /\ Down \in Servers /\ Down.session = Null /\ Down.control = Null
    /\ Down.runtime = Null
BY DEF Down, Servers

LEMMA TimeTypes ==
    ASSUME TypeOK, Lapse \/ LeaseLost \/ Crash
    PROVE  TypeOK'
<1>1. CASE Lapse
    <2>1. act' \in Activations
        BY <1>1 DEF Lapse, TypeOK, Activations
    <2> QED
        BY <1>1, <2>1 DEF Lapse, TypeOK
<1>2. CASE LeaseLost
    <2>1. server' \in Servers
        BY <1>2 DEF LeaseLost, TypeOK, Servers
    <2> QED
        BY <1>2, <2>1 DEF LeaseLost, TypeOK, Servers, files
<1>3. CASE Crash
    BY <1>3, DownIs, LostIs DEF Crash, Dies, TypeOK, Servers, files
<1> QED
    BY <1>1, <1>2, <1>3

LEMMA StartTypes ==
    ASSUME TypeOK, Start
    PROVE  TypeOK'
<1>1. Sound(fence') /\ conv' \in Conversations \cup {Null}
    BY FencedIs, RestartedIsDoubted DEF Start, DoubtedFence, DoubtedConversation
<1>2. PICK session \in Backends :
        /\ server' = [Down EXCEPT !.session = session, !.broken = (act # Null)]
        /\ used' = used \cup {session}
    BY DEF Start
<1>3. server' \in Servers /\ used' \subseteq Backends
    <2>1. PICK broken \in BOOLEAN : broken = (act # Null)
        OBVIOUS
    <2>2. server' = [Down EXCEPT !.session = session, !.broken = broken]
        BY <1>2, <2>1
    <2>3. server' \in Servers
        BY <2>2, DownIs DEF Servers
    <2> QED
        BY <1>2, <2>3 DEF TypeOK
<1> QED
    BY <1>1, <1>3 DEF Start, TypeOK, Servers

-----------------------------------------------------------------------------
(* The steps of a turn of the server.                                      *)

\* Whatever becomes of the turn, ownership stays.
Held(f) ==
    /\ Sound(f) /\ f.owner = fence.owner /\ f.generation = fence.generation
    /\ f.handoff = fence.handoff

\* What the seam may write for a turn it claims.
LEMMA ClaimsIs ==
    ASSUME TypeOK, NEW r \in Requests, Claims(r)
    PROVE  /\ fence.turn = Null /\ BackendOwns
           /\ Held(Reserved(fence, r)) /\ TurnIn(Reserved(fence, r), r, {"admitted"})
           /\ \A phase \in {"dispatched", "unknown"} :
                 /\ Held(InPhase(Reserved(fence, r), phase))
                 /\ TurnIn(InPhase(Reserved(fence, r), phase), r, {phase})
           /\ [server EXCEPT !.permit = Null] \in Servers
<1>1. Ready(Null) /\ BackendOwns
    BY DEF Claims
<1>2. fence \in Records /\ Sound(fence)
    BY DEF TypeOK, Sound
<1>3. fence.turn = Null /\ fence.handoff = Null
    <2>1. ASSUME fence.turn # Null PROVE FALSE
        <3>1. fence.turn.requestId = Null
            BY <1>1, <2>1 DEF Ready, TurnIn
        <3>2. fence.turn.requestId \in Requests
            BY <1>2, <2>1, RecordParts DEF Turns
        <3> QED
            BY <3>1, <3>2, NullFacts
    <2> QED
        BY <1>1, <2>1 DEF Ready
<1>4. fence.owner \in Hosts /\ fence.generation \in Nat
    BY <1>1, <1>2, RecordParts DEF BackendOwns, Hosts
<1> DEFINE reserved == Reserved(fence, r)
<1>5. Sound(reserved)
    BY <1>2, <1>3, <1>4, ReserveSound DEF CanReserveTurn, IsOwner
<1>6. /\ reserved.owner = fence.owner /\ reserved.generation = fence.generation
      /\ reserved.turn.requestId = r /\ reserved.turn # Null
      /\ reserved.turn.phase = "admitted"
    <2>1. reserved.turn = [requestId |-> r, ownerGeneration |-> fence.generation,
                           phase |-> "admitted"]
        BY <1>2 DEF Reserved, Records
    <2>2. reserved.turn \in Turns
        BY <1>4, <2>1 DEF Turns, Phases
    <2> QED
        BY <1>2, <2>1, <2>2, NullFacts DEF Reserved, Records
<1>7. ASSUME NEW phase \in {"dispatched", "unknown"}
      PROVE  /\ Held(InPhase(reserved, phase))
             /\ TurnIn(InPhase(reserved, phase), r, {phase})
    <2> DEFINE marked == InPhase(reserved, phase)
    <2>1. /\ Sound(marked) /\ marked.owner = reserved.owner
          /\ marked.generation = reserved.generation
          /\ marked.turn # Null /\ marked.turn.requestId = reserved.turn.requestId
          /\ marked.turn.phase = phase
        BY <1>5, <1>6, PhaseSound DEF Phases
    <2>2. marked.handoff = Null
        BY <2>1 DEF Sound, TurnPinned
    <2> QED
        BY <1>3, <1>6, <2>1, <2>2 DEF Held, TurnIn
<1>8. reserved.handoff = Null
    BY <1>5, <1>6 DEF Sound, TurnPinned
<1>9. [server EXCEPT !.permit = Null] \in Servers
    BY DEF TypeOK, Servers
<1> QED
    BY <1>1, <1>3, <1>5, <1>6, <1>7, <1>8, <1>9 DEF Held, TurnIn

LEMMA AdmitIs ==
    ASSUME TypeOK, NEW r \in Requests, Admit(r)
    PROVE  /\ fence.turn = Null /\ BackendOwns
           /\ Held(fence') /\ TurnIn(fence', r, {"dispatched"})
           /\ relay' = [relay EXCEPT ![r] = "admitted"] /\ TypeOK'
<1>1. /\ Claims(r) /\ fence' = InPhase(Reserved(fence, r), "dispatched")
      /\ server' = [server EXCEPT !.permit = Null]
      /\ relay' = [relay EXCEPT ![r] = "admitted"]
    BY DEF Admit
<1>2. /\ fence.turn = Null /\ BackendOwns
      /\ Held(fence') /\ TurnIn(fence', r, {"dispatched"}) /\ server' \in Servers
    BY <1>1, ClaimsIs
<1>3. TypeOK'
    BY <1>1, <1>2 DEF Admit, Held, TypeOK, Servers, RelayPhases
<1> QED
    BY <1>1, <1>2, <1>3

LEMMA AdmitBreaksIs ==
    ASSUME TypeOK, NEW r \in Requests, AdmitBreaks(r)
    PROVE  /\ fence.turn = Null /\ BackendOwns
           /\ Held(fence') /\ TurnIn(fence', r, {"admitted", "unknown"})
           /\ \/ /\ relay' = [relay EXCEPT ![r] = "over"]
                 /\ server' = [server EXCEPT !.permit = Null]
              \/ Dies
           /\ TypeOK'
<1>1. /\ Claims(r)
      /\ fence' \in {Reserved(fence, r), InPhase(Reserved(fence, r), "unknown")}
      /\ \/ /\ relay' = [relay EXCEPT ![r] = "over"]
            /\ server' = [server EXCEPT !.permit = Null]
         \/ Dies
    BY DEF AdmitBreaks
<1>2. /\ fence.turn = Null /\ BackendOwns
      /\ Held(fence') /\ TurnIn(fence', r, {"admitted", "unknown"})
    BY <1>1, ClaimsIs DEF TurnIn
<1>3. server' \in Servers /\ relay' \in [Requests -> RelayPhases]
    BY <1>1, ClaimsIs, DownIs, LostIs DEF Dies, TypeOK, RelayPhases
<1>4. TypeOK'
    BY <1>2, <1>3 DEF AdmitBreaks, Held, TypeOK, Servers
<1> QED
    BY <1>1, <1>2, <1>4

\* The turn the conversation may begin when the prompt is sent.
LEMMA SendsIs ==
    ASSUME TypeOK, NEW r \in Requests, Sends(r)
    PROVE  /\ BackendOwns
           /\ conv # Null /\ conv.pending = Null /\ conv.generation = fence.generation
           /\ conv \in Conversations
<1>1. /\ conv # Null /\ conv.pending = Null /\ conv.generation = fence.generation
      /\ fence.owner = server.session
    BY DEF Sends, CanSend, Ready, CanBeginTurn, Proof, IsOwner
<1>2. conv \in Conversations
    BY <1>1 DEF TypeOK
<1>3. BackendOwns
    BY DEF Sends, CanSend, Ready, Active, Usable, IsOwner, TypeOK, Activations, BackendOwns
<1> QED
    BY <1>1, <1>2, <1>3

LEMMA SendIs ==
    ASSUME TypeOK, NEW r \in Requests, Send(r)
    PROVE  /\ BackendOwns /\ UNCHANGED fence
           /\ conv # Null /\ conv.pending = Null /\ conv.generation = fence.generation
           /\ conv' \in Conversations /\ conv' # Null
           /\ conv'.generation = conv.generation /\ conv'.history = conv.history
           /\ PendingIn(conv', r, {"dispatched"}) /\ conv'.pending.request = r
           /\ TypeOK'
<1>1. /\ BackendOwns
      /\ conv # Null /\ conv.pending = Null /\ conv.generation = fence.generation
      /\ conv \in Conversations
    BY SendsIs DEF Send
<1>2. /\ conv' \in Conversations /\ conv'.generation = conv.generation
      /\ conv'.history = conv.history /\ conv'.pending # Null /\ conv'.pending.request = r
      /\ conv'.pending.phase = "dispatched"
    <2>1. conv' = Moved(Begun(conv, r), "dispatched") /\ "dispatched" \in PendingPhases
        BY DEF Send, PendingPhases
    <2> QED
        BY <1>1, <2>1, BegunMovedIs
<1>3. conv' # Null
    BY <1>2, NullFacts
<1>4. TypeOK'
    BY <1>2 DEF Send, TypeOK, RelayPhases
<1> QED
    BY <1>1, <1>2, <1>3, <1>4 DEF PendingIn, Send

LEMMA SendBreaksIs ==
    ASSUME TypeOK, NEW r \in Requests, SendBreaks(r)
    PROVE  /\ BackendOwns /\ relay[r] = "admitted"
           /\ conv # Null /\ conv.pending = Null /\ conv.generation = fence.generation
           /\ conv' \in Conversations /\ conv' # Null
           /\ conv'.generation = conv.generation /\ conv'.history = conv.history
           /\ PendingIn(conv', r, {"prepared", "unknown"}) /\ conv'.pending.request = r
           /\ DoubtedFence(fence')
           /\ \/ /\ relay' = [relay EXCEPT ![r] = "over"] /\ UNCHANGED server
                 /\ Sourced(r) => ~TurnIn(fence', r, {"dispatched"})
              \/ Dies
           /\ TypeOK'
<1>1. /\ BackendOwns /\ relay[r] = "admitted"
      /\ conv # Null /\ conv.pending = Null /\ conv.generation = fence.generation
      /\ conv \in Conversations
    BY SendsIs DEF SendBreaks, Sends
<1>2. \/ conv' = Begun(conv, r)
      \/ conv' = Moved(Begun(conv, r), "unknown")
    BY DEF SendBreaks
<1>3. /\ conv' \in Conversations /\ conv'.generation = conv.generation
      /\ conv'.history = conv.history /\ conv'.pending # Null /\ conv'.pending.request = r
      /\ conv'.pending.phase \in {"prepared", "unknown"}
    <2>1. CASE conv' = Begun(conv, r)
        BY <1>1, <2>1, BegunIs
    <2>2. CASE conv' = Moved(Begun(conv, r), "unknown")
        <3>1. "unknown" \in PendingPhases
            BY DEF PendingPhases
        <3> QED
            BY <1>1, <2>2, <3>1, BegunMovedIs
    <2> QED
        BY <1>2, <2>1, <2>2
<1>4. conv' # Null
    BY <1>3, NullFacts
<1>5. \/ /\ fence' = Doubted(r) /\ relay' = [relay EXCEPT ![r] = "over"]
         /\ UNCHANGED server
      \/ Dies /\ UNCHANGED fence
    BY DEF SendBreaks
<1>6. DoubtedFence(fence')
    BY <1>5, DoubtedIs, SameIsDoubted
<1>7. server' \in Servers /\ relay' \in [Requests -> RelayPhases]
    BY <1>5, DownIs, LostIs DEF Dies, TypeOK, Servers, RelayPhases
<1>8. TypeOK'
    BY <1>3, <1>6, <1>7 DEF SendBreaks, TypeOK, Servers, DoubtedFence
<1> QED
    BY <1>1, <1>3, <1>4, <1>5, <1>6, <1>8, DoubtedIs DEF PendingIn

LEMMA EndsIs ==
    ASSUME TypeOK, NEW r \in Requests, StreamEnds(r)
    PROVE  /\ conv # Null /\ conv.pending # Null /\ conv.pending.request = r
           /\ conv' # Null /\ conv'.generation = conv.generation
           /\ conv'.history = conv.history
           /\ PendingIn(conv', r, {"inferred"}) /\ TypeOK'
<1>1. conv # Null /\ conv.pending # Null /\ conv.pending.request = r
    BY DEF StreamEnds, CanMove, PendingIn
<1>2. conv \in Conversations /\ "inferred" \in PendingPhases
    BY <1>1 DEF TypeOK, PendingPhases
<1>3. /\ conv' \in Conversations /\ conv'.generation = conv.generation
      /\ conv'.history = conv.history /\ conv'.pending # Null /\ conv'.pending.request = r
      /\ conv'.pending.phase = "inferred"
    BY <1>1, <1>2, MovedIs DEF StreamEnds
<1>4. TypeOK'
    BY <1>3 DEF StreamEnds, TypeOK, RelayPhases
<1> QED
    BY <1>1, <1>3, <1>4, NullFacts DEF PendingIn

\* A settlement with the delivery, and one that the process dies after or that
\* the delivery throws after.
LEMMA SettleIs ==
    ASSUME TypeOK, Served, NEW r \in Requests, Settle(r)
    PROVE  /\ Held(fence') /\ fence'.turn = Null /\ TurnIn(fence, r, {"dispatched"})
           /\ conv # Null /\ PendingIn(conv, r, {"inferred"}) /\ conv.pending.request = r
           /\ r \in Confirmed
           /\ \/ /\ conv' # Null /\ conv'.generation = conv.generation
                 /\ conv'.history = Append(conv.history, r) /\ conv'.pending = Null
                 /\ relay' = [relay EXCEPT ![r] = "over"]
                 /\ server' = [server EXCEPT !.firstDone = TRUE]
              \/ /\ UNCHANGED conv
                 /\ \/ relay' = [relay EXCEPT ![r] = "over"] /\ UNCHANGED server
                    \/ Dies
           /\ TypeOK'
<1>1. /\ TurnIn(fence, r, {"dispatched"}) /\ r \in Confirmed
      /\ fence' = Settled(fence)
    BY DEF Settle, CanSettle
<1>2. conv # Null /\ PendingIn(conv, r, {"inferred"}) /\ conv.pending.request = r
    BY DEF Settle, Served, PendingIn
<1>3. Sound(fence) /\ fence \in Records /\ conv \in Conversations
    BY <1>2 DEF TypeOK, Sound
<1>4. /\ Sound(fence') /\ fence'.turn = Null /\ fence'.owner = fence.owner
      /\ fence'.generation = fence.generation /\ fence'.handoff = fence.handoff
    BY <1>1, <1>3, SettleSound DEF Settled, Records
<1>5. CASE /\ conv' = Delivered(conv)
           /\ server' = [server EXCEPT !.firstDone = TRUE]
           /\ relay' = [relay EXCEPT ![r] = "over"]
    <2>1. /\ conv' \in Conversations /\ conv'.generation = conv.generation
          /\ conv'.history = Append(conv.history, r) /\ conv'.pending = Null
        BY <1>2, <1>3, <1>5, DeliveredIs DEF PendingIn
    <2>2. server' \in Servers
        BY <1>5 DEF TypeOK, Servers
    <2>3. TypeOK'
        BY <1>4, <1>5, <2>1, <2>2 DEF Settle, TypeOK, Servers, RelayPhases
    <2> QED
        BY <1>1, <1>2, <1>4, <1>5, <2>1, <2>3, NullFacts DEF Held
<1>6. CASE /\ UNCHANGED conv
           /\ \/ relay' = [relay EXCEPT ![r] = "over"] /\ UNCHANGED server
              \/ Dies
    <2>1. server' \in Servers /\ relay' \in [Requests -> RelayPhases]
        BY <1>6, DownIs, LostIs DEF Dies, TypeOK, Servers, RelayPhases
    <2>2. TypeOK'
        BY <1>4, <1>6, <2>1 DEF Settle, TypeOK, Servers
    <2> QED
        BY <1>1, <1>2, <1>4, <1>6, <2>2 DEF Held
<1> QED
    BY <1>5, <1>6 DEF Settle

LEMMA OffersIs ==
    ASSUME TypeOK, Staged, RollbackOffers
    PROVE  /\ Sound(fence') /\ fence'.owner = fence.owner
           /\ fence'.generation = fence.generation
           /\ fence'.handoff # Null /\ fence'.turn = Null /\ fence.turn = Null
           /\ server.control \in Controls /\ server' \in Servers
           /\ server'.control \in Controls
           /\ server'.control.stage = "rollback" /\ server'.control.at = "hydrate"
           /\ server'.control.seen = server.control.seen
           /\ server'.session = server.session /\ server'.runtime = server.runtime
           /\ TypeOK'
<1>1. /\ server.control \in Controls /\ server.control.stage = "rollback" /\ BackendOwns
      /\ fence.turn = Null /\ Sound(fence) /\ fence \in Records
    BY DEF RollbackOffers, At, Staged, TypeOK, CanPrepareHandoff, Sound
<1>2. fence.owner \in Hosts /\ fence.generation \in Nat /\ server.control.host \in Hosts
    BY <1>1, RecordParts DEF BackendOwns, Hosts, Controls
<1>3. Sound(fence')
    BY <1>1, <1>2, PrepareSound DEF RollbackOffers
<1>4. /\ fence'.owner = fence.owner /\ fence'.generation = fence.generation
      /\ fence'.turn = Null
      /\ fence'.handoff = [status |-> "prepared", from |-> fence.owner,
                           generation |-> fence.generation, to |-> server.control.host,
                           at |-> 0]
    BY <1>1 DEF RollbackOffers, Prepared, Records
<1>5. fence'.handoff \in Handoffs
    BY <1>2, <1>4 DEF Handoffs
<1>6. /\ server' = [server EXCEPT !.control = [server.control EXCEPT !.at = "hydrate"]]
      /\ [server.control EXCEPT !.at = "hydrate"] \in Controls
      /\ [server.control EXCEPT !.at = "hydrate"].at = "hydrate"
      /\ [server.control EXCEPT !.at = "hydrate"].stage = "rollback"
      /\ [server.control EXCEPT !.at = "hydrate"].seen = server.control.seen
    BY <1>1 DEF RollbackOffers, Controls
<1>7. /\ server' \in Servers /\ server'.session = server.session
      /\ server'.runtime = server.runtime
      /\ server'.control = [server.control EXCEPT !.at = "hydrate"]
    BY <1>6 DEF TypeOK, Servers
<1>8. TypeOK'
    BY <1>3, <1>7 DEF RollbackOffers, TypeOK, Servers
<1> QED
    BY <1>1, <1>3, <1>4, <1>5, <1>6, <1>7, <1>8, NullFacts

\* The calls that fail.
LEMMA FailureTypes ==
    ASSUME TypeOK, NEW r \in Requests, SendRefused(r) \/ StreamBreaks(r) \/ SettleRefused(r)
    PROVE  TypeOK' /\ Doubting
<1>1. DoubtedFence(fence')
    BY DoubtedIs DEF SendRefused, StreamBreaks, SettleRefused
<1>2. DoubtedConversation(conv')
    BY SameIsDoubted, BrokenIsDoubted DEF SendRefused, StreamBreaks, SettleRefused
<1>3. relay' \in [Requests -> RelayPhases]
    BY DEF TypeOK, RelayPhases, SendRefused, StreamBreaks, SettleRefused
<1>4. TypeOK'
    BY <1>1, <1>2, <1>3
       DEF TypeOK, DoubtedFence, DoubtedConversation, SendRefused, StreamBreaks, SettleRefused
<1> QED
    BY <1>1, <1>2, <1>4 DEF Doubting, SendRefused, StreamBreaks, SettleRefused

-----------------------------------------------------------------------------
(* The stages that write files.                                            *)

\* What holds of the files after each write of a stage: no turn is under way,
\* and a conversation keeps what it says.
Wrote(f, c, a) ==
    /\ Sound(f) /\ f.turn = Null
    /\ c \in Conversations \cup {Null} /\ a \in Activations \cup {Null}
    /\ conv # Null => c # Null /\ c.history = conv.history /\ c.pending = conv.pending
    /\ conv = Null /\ c # Null =>
          /\ c.pending = Null
          /\ server.control # Null /\ c.history = server.control.seen

\* The stage has stopped half way.
Broken ==
    /\ server'.control = Null /\ journal'.unresolved = TRUE
    /\ \/ server' = [server EXCEPT !.control = Null] /\ UNCHANGED relay
       \/ Dies

\* The stage has finished: its last write, and the memory it leaves.
Finished(write, after) ==
    /\ fence' = write[1] /\ conv' = write[2] /\ act' = write[3]
    /\ server' = [after EXCEPT !.control = Null]
    /\ UNCHANGED relay

LEMMA PerformsIs ==
    ASSUME TypeOK, fence.turn = Null, NEW writes, Len(writes) \in Nat, NEW finishes,
           NEW after \in Servers, Performs(writes, finishes, after),
           \A n \in 1 .. Len(writes) : Wrote(writes[n][1], writes[n][2], writes[n][3]),
           Len(writes) # 0
    PROVE  /\ Wrote(fence', conv', act')
           /\ Broken \/ (finishes /\ Finished(writes[Len(writes)], after))
           /\ server' \in Servers /\ relay' \in [Requests -> RelayPhases]
           /\ journal' \in [unresolved : BOOLEAN, granted : BOOLEAN]
<1>1. PICK n \in 0 .. Len(writes) :
        /\ LET state == IF n = 0 THEN files ELSE writes[n]
           IN fence' = state[1] /\ conv' = state[2] /\ act' = state[3]
        /\ IF finishes /\ n = Len(writes)
             THEN /\ server' = [after EXCEPT !.control = Null]
                  /\ journal' = [journal EXCEPT !.unresolved = FALSE]
                  /\ UNCHANGED relay
             ELSE /\ \/ server' = [server EXCEPT !.control = Null] /\ UNCHANGED relay
                     \/ Dies
                  /\ journal' = Opened(journal)
    BY DEF Performs
<1>2. Wrote(fence', conv', act')
    <2>1. CASE n = 0
        BY <1>1, <2>1 DEF Wrote, files, TypeOK
    <2>2. CASE n # 0
        BY <1>1, <2>2
    <2> QED
        BY <2>1, <2>2
<1>3. CASE finishes /\ n = Len(writes)
    <2>1. /\ server' = [after EXCEPT !.control = Null] /\ UNCHANGED relay
          /\ journal' = [journal EXCEPT !.unresolved = FALSE]
        BY <1>1, <1>3
    <2>2. server' \in Servers /\ journal' \in [unresolved : BOOLEAN, granted : BOOLEAN]
        BY <2>1 DEF Servers, TypeOK
    <2>3. fence' = writes[n][1] /\ conv' = writes[n][2] /\ act' = writes[n][3]
        BY <1>1, <1>3
    <2> QED
        BY <1>2, <1>3, <2>1, <2>2, <2>3 DEF Finished, TypeOK
<1>4. CASE ~(finishes /\ n = Len(writes))
    <2>1. /\ \/ server' = [server EXCEPT !.control = Null] /\ UNCHANGED relay
             \/ Dies
          /\ journal' = Opened(journal)
        BY <1>1, <1>4
    <2>2. journal' \in [unresolved : BOOLEAN, granted : BOOLEAN] /\ journal'.unresolved = TRUE
        BY <2>1 DEF Opened, TypeOK
    <2>3. server' \in Servers /\ server'.control = Null /\ relay' \in [Requests -> RelayPhases]
        <3>1. CASE Dies
            BY <3>1, DownIs, LostIs DEF Dies
        <3>2. CASE server' = [server EXCEPT !.control = Null] /\ UNCHANGED relay
            BY <3>2 DEF Servers, TypeOK
        <3> QED
            BY <2>1, <3>1, <3>2
    <2> QED
        BY <1>2, <2>1, <2>2, <2>3 DEF Broken
<1> QED
    BY <1>3, <1>4

\* What a writing stage does: it finishes in the same session, or breaks off.
Writing ==
    /\ fence.turn = Null /\ page.hydrating = Null
    /\ Wrote(fence', conv', act')
    /\ UNCHANGED <<dex, used, forwards, wire, page>>
    /\ \/ server'.session = server.session /\ server'.control = Null /\ UNCHANGED relay
       \/ Broken

LEMMA WritingTypes ==
    ASSUME TypeOK, Wrote(fence', conv', act'), UNCHANGED <<dex, used, forwards, wire, page>>,
           server' \in Servers, relay' \in [Requests -> RelayPhases],
           journal' \in [unresolved : BOOLEAN, granted : BOOLEAN]
    PROVE  TypeOK'
BY DEF TypeOK, Wrote, Servers

LEMMA PrepareIs ==
    ASSUME IInv, Prepare
    PROVE  Writing /\ TypeOK' /\ (Broken \/ (Agreed' /\ fence'.handoff = Null))
<1> PICK control \in Controls : control = server.control
    BY DEF Prepare, At, IInv, TypeOK
<1> PICK host \in Browsers, seen \in Histories : host = control.host /\ seen = control.seen
    BY DEF Controls
<1>1. /\ act = Null /\ TypeOK /\ Staged /\ server.control = control /\ control # Null
      /\ control.stage = "preflight" /\ control.at = "exported"
      /\ Agreed /\ fence.handoff = Null /\ Up
    BY DEF Prepare, At, IInv, Staged, Process
<1>2. ~BackendOwns /\ fence.turn = Null
    BY <1>1 DEF IInv, Asked, Agreed
<1>3. page.hydrating = Null
    BY <1>1 DEF IInv, Hydration, At
<1>4. Sound(fence) /\ fence \in Records /\ server \in Servers
    BY <1>1 DEF TypeOK, Sound, Servers
<1>5. ASSUME NEW g \in Nat
      PROVE  /\ PreparedFor(host, g, seen) \in Activations
             /\ PreparedFor(host, g, seen).mode = "prepared"
             /\ PreparedFor(host, g, seen).workspace = host
             /\ PreparedFor(host, g, seen).base = seen
             /\ PreparedFor(host, g, seen).generation = g + 1
    BY <1>1 DEF PreparedFor, Activations, Modes, Up, TypeOK
<1>6. host \notin Backends /\ host # Null
    BY HostAssumption, NullFacts
<1>7. CASE /\ CanClaimInitialBrowser(fence) /\ conv = Null
           /\ Performs(<<<<Claimed(fence, host), conv, act>>,
                         <<Claimed(fence, host), Initialized(1, seen), act>>,
                         <<Claimed(fence, host), Initialized(1, seen),
                           PreparedFor(host, 1, seen)>>>>, TRUE, server)
    <2>o. PICK owned : owned = Claimed(fence, host)
        OBVIOUS
    <2>f. PICK founded : founded = Initialized(1, seen)
        OBVIOUS
    <2>m. PICK made : made = PreparedFor(host, 1, seen)
        OBVIOUS
    <2>w. PICK writes : writes = <<<<owned, conv, act>>, <<owned, founded, act>>,
                                   <<owned, founded, made>>>>
        OBVIOUS
    <2>1. /\ Sound(owned) /\ owned.turn = Null /\ owned.handoff = Null
          /\ owned.owner = host /\ owned.generation = 1
        BY <2>o, <1>4, <1>7, ClaimSound DEF Claimed, CanClaimInitialBrowser
    <2>2. /\ founded \in Conversations /\ founded.pending = Null /\ founded.generation = 1
          /\ founded.history = seen /\ founded # Null
        BY <2>f, ConversationTyped, NullFacts DEF Initialized
    <2>3. /\ made \in Activations /\ made # Null /\ made.mode = "prepared"
          /\ made.workspace = host /\ made.base = seen /\ made.generation = 2
        BY <2>m, <1>5, NullFacts
    <2>4. /\ Wrote(owned, conv, act) /\ Wrote(owned, founded, act)
          /\ Wrote(owned, founded, made)
        BY <1>1, <1>7, <2>1, <2>2, <2>3 DEF Wrote
    <2>5. Len(writes) = 3 /\ writes[3] = <<owned, founded, made>>
        BY <2>w
    <2>6. \A n \in 1 .. Len(writes) : Wrote(writes[n][1], writes[n][2], writes[n][3])
        BY <2>w, <2>4, <2>5
    <2>7. /\ Wrote(fence', conv', act')
          /\ Broken \/ Finished(<<owned, founded, made>>, server)
          /\ server' \in Servers /\ relay' \in [Requests -> RelayPhases]
          /\ journal' \in [unresolved : BOOLEAN, granted : BOOLEAN]
        <3>1. Performs(writes, TRUE, server)
            BY <2>o, <2>f, <2>m, <2>w, <1>7
        <3>2. Len(writes) \in Nat /\ Len(writes) # 0
            BY <2>5
        <3>3. TypeOK /\ fence.turn = Null /\ server \in Servers
            BY <1>1, <1>2, <1>4
        <3>4. /\ Wrote(fence', conv', act')
              /\ Broken \/ Finished(writes[Len(writes)], server)
              /\ server' \in Servers /\ relay' \in [Requests -> RelayPhases]
              /\ journal' \in [unresolved : BOOLEAN, granted : BOOLEAN]
            BY <2>6, <3>1, <3>2, <3>3, PerformsIs
        <3> QED
            BY <2>5, <3>4
    <2>8. TypeOK'
        BY <1>1, <2>7, WritingTypes DEF Prepare
    <2>9. CASE Finished(<<owned, founded, made>>, server)
        <3>1. /\ fence' = owned /\ conv' = founded /\ act' = made /\ UNCHANGED relay
              /\ server'.session = server.session /\ server'.runtime = server.runtime
              /\ server'.control = Null
            BY <1>4, <2>9 DEF Finished, Servers
        <3>2. server.runtime = Null
            BY <1>1, <1>2 DEF Agreed
        <3>3. Agreed'
            BY <1>6, <2>1, <2>2, <2>3, <3>1, <3>2 DEF Agreed, BackendOwns
        <3> QED
            BY <1>2, <1>3, <2>1, <2>7, <2>8, <3>1, <3>3 DEF Writing, Prepare
    <2> QED
        BY <1>2, <1>3, <2>7, <2>8, <2>9 DEF Writing, Prepare
<1>8. CASE /\ fence.owner = host /\ Proof(conv, fence.generation) /\ conv.history = seen
           /\ Performs(<<<<fence, conv, PreparedFor(host, fence.generation, seen)>>>>,
                       TRUE, server)
    <2> PICK made : made = PreparedFor(host, fence.generation, seen)
        OBVIOUS
    <2> PICK writes : writes = <<<<fence, conv, made>>>>
        OBVIOUS
    <2>1. fence.generation \in Nat
        BY <1>4, RecordParts
    <2>2. /\ made \in Activations /\ made # Null /\ made.mode = "prepared"
          /\ made.workspace = host /\ made.base = seen
          /\ made.generation = fence.generation + 1
        BY <1>5, <2>1, NullFacts
    <2>3. Wrote(fence, conv, made)
        BY <1>1, <1>2, <1>4, <1>8, <2>2 DEF Wrote, TypeOK, Proof
    <2>5. Len(writes) = 1 /\ writes[1] = <<fence, conv, made>>
        OBVIOUS
    <2>6. \A n \in 1 .. Len(writes) : Wrote(writes[n][1], writes[n][2], writes[n][3])
        BY <2>3, <2>5
    <2>7. /\ Wrote(fence', conv', act')
          /\ Broken \/ Finished(<<fence, conv, made>>, server)
          /\ server' \in Servers /\ relay' \in [Requests -> RelayPhases]
          /\ journal' \in [unresolved : BOOLEAN, granted : BOOLEAN]
        <3>1. Performs(writes, TRUE, server)
            BY <1>8
        <3>2. Len(writes) \in Nat /\ Len(writes) # 0
            BY <2>5
        <3> QED
            BY <1>1, <1>2, <1>4, <2>5, <2>6, <3>1, <3>2, PerformsIs
    <2>8. TypeOK'
        BY <1>1, <2>7, WritingTypes DEF Prepare
    <2>9. CASE Finished(<<fence, conv, made>>, server)
        <3>1. /\ UNCHANGED <<fence, conv, relay>> /\ act' = made
              /\ server'.session = server.session /\ server'.runtime = server.runtime
              /\ server'.control = Null
            BY <1>4, <2>9 DEF Finished, Servers
        <3>2. Agreed'
            BY <1>1, <1>2, <1>8, <2>2, <3>1 DEF Agreed, BackendOwns
        <3> QED
            BY <1>1, <1>2, <1>3, <2>7, <2>8, <3>1, <3>2 DEF Writing, Prepare
    <2> QED
        BY <1>2, <1>3, <2>7, <2>8, <2>9 DEF Writing, Prepare
<1> QED
    BY <1>1, <1>7, <1>8 DEF Prepare

\* A handoff offered, and one accepted.
LEMMA OfferedIs ==
    ASSUME NEW s, Sound(s), s.owner \in Hosts, NEW to \in Hosts,
           CanPrepareHandoff(s, s.owner, s.generation, to)
    PROVE  /\ Sound(Prepared(s, to, 0)) /\ Prepared(s, to, 0).owner = s.owner
           /\ Prepared(s, to, 0).generation = s.generation /\ Prepared(s, to, 0).turn = Null
           /\ Prepared(s, to, 0).handoff # Null /\ Prepared(s, to, 0).handoff.to = to
           /\ CanAcknowledgeHandoff(Prepared(s, to, 0), to, 0)
<1>1. s \in Records /\ s.generation \in Nat /\ s.turn = Null
    BY RecordParts DEF Sound, CanPrepareHandoff
<1>2. Sound(Prepared(s, to, 0))
    BY <1>1, PrepareSound
<1>3. /\ Prepared(s, to, 0).owner = s.owner
      /\ Prepared(s, to, 0).generation = s.generation /\ Prepared(s, to, 0).turn = Null
      /\ Prepared(s, to, 0).handoff = [status |-> "prepared", from |-> s.owner,
            generation |-> s.generation, to |-> to, at |-> 0]
    BY <1>1 DEF Prepared, Records
<1>4. Prepared(s, to, 0).handoff \in Handoffs
    BY <1>1, <1>3 DEF Handoffs
<1>5. Prepared(s, to, 0).handoff # Null
    BY <1>4, NullFacts
<1> QED
    BY <1>2, <1>3, <1>5, TtlAssumption DEF CanAcknowledgeHandoff

LEMMA AcceptedIs ==
    ASSUME NEW s, Sound(s), NEW to, CanAcknowledgeHandoff(s, to, 0)
    PROVE  /\ Sound(Acknowledged(s)) /\ Acknowledged(s).owner = s.owner
           /\ Acknowledged(s).generation = s.generation /\ Acknowledged(s).turn = Null
           /\ Acknowledged(s).handoff.to = to
<1>1. s \in Records /\ s.turn = Null /\ s.handoff \in Handoffs /\ s.handoff.to = to
    BY RecordParts DEF Sound, CanAcknowledgeHandoff
<1> PICK h : h = [s.handoff EXCEPT !.status = "acknowledged"]
    OBVIOUS
<1>2. h.to = to
    BY <1>1 DEF Handoffs
<1>3. Acknowledged(s) = [s EXCEPT !.handoff = h]
    BY <1>1 DEF Acknowledged, Records
<1> QED
    BY <1>1, <1>2, <1>3, AcknowledgeSound DEF Records

LEMMA MovedOwnerIs ==
    ASSUME NEW s, Sound(s), CanCompleteHandoff(s, s.owner, s.generation)
    PROVE  /\ Sound(Completed(s)) /\ Completed(s).owner = s.handoff.to
           /\ Completed(s).generation = s.generation + 1
           /\ Completed(s).turn = Null /\ Completed(s).handoff = Null
BY CompleteSound DEF Completed, CanCompleteHandoff

LEMMA ActivateIs ==
    ASSUME IInv, Activate
    PROVE  Writing /\ TypeOK' /\ (Broken \/ (Agreed' /\ fence'.handoff = Null))
<1>1. /\ TypeOK /\ Staged /\ ~journal.unresolved /\ Agreed /\ fence.handoff = Null
      /\ fence.turn = Null /\ Up
      /\ IsOwner(fence, act.session, act.generation) /\ Proof(conv, fence.generation)
    BY DEF Activate, GateOpen, IInv, Staged
<1>2. act # Null /\ act.mode = "handed_off" /\ act \in Activations
    BY <1>1 DEF Activate, GateOpen, Deployment, TypeOK
<1>3. page.hydrating = Null
    BY <1>1 DEF IInv, Hydration
<1> PICK made : made = [act EXCEPT !.mode = "active", !.expired = FALSE]
    OBVIOUS
<1> PICK after : after = [server EXCEPT !.runtime = fence.generation]
    OBVIOUS
<1> PICK writes : writes = <<<<fence, conv, made>>>>
    OBVIOUS
<1>4. /\ made \in Activations /\ made.mode = "active" /\ made.session = act.session
      /\ made.generation = act.generation /\ made.base = act.base
    BY <1>2 DEF Activations, Modes
<1>5. made # Null
    BY <1>4, NullFacts
<1>6. fence \in Records /\ fence.generation \in Nat
    BY <1>1, RecordParts DEF TypeOK, Sound
<1>7. /\ after \in Servers /\ after.runtime = fence.generation
      /\ after.session = server.session
    BY <1>1, <1>6 DEF Servers, TypeOK
<1>8. Wrote(fence, conv, made)
    BY <1>1, <1>4 DEF Wrote, TypeOK
<1>9. Len(writes) = 1 /\ writes[1] = <<fence, conv, made>>
    OBVIOUS
<1>10. \A n \in 1 .. Len(writes) : Wrote(writes[n][1], writes[n][2], writes[n][3])
    BY <1>8, <1>9
<1>11. Performs(writes, TRUE, after)
    BY DEF Activate
<1>12. Len(writes) \in Nat /\ Len(writes) # 0
    BY <1>9
<1>13. /\ Wrote(fence', conv', act')
       /\ Broken \/ Finished(<<fence, conv, made>>, after)
       /\ server' \in Servers /\ relay' \in [Requests -> RelayPhases]
       /\ journal' \in [unresolved : BOOLEAN, granted : BOOLEAN]
    BY <1>1, <1>7, <1>9, <1>10, <1>11, <1>12, PerformsIs
<1>14. TypeOK'
    BY <1>1, <1>13, WritingTypes DEF Activate
<1>15. CASE Finished(<<fence, conv, made>>, after)
    <2>1. /\ UNCHANGED <<fence, conv, relay>> /\ act' = made
          /\ server'.session = server.session /\ server'.runtime = fence.generation
          /\ server'.control = Null
        BY <1>7, <1>15 DEF Finished, Servers
    <2>2. act.session \in Backends /\ fence.owner = act.session
        BY <1>1, <1>2 DEF IsOwner, Activations
    <2>3. Agreed'
        BY <1>1, <1>2, <1>4, <1>5, <2>1, <2>2 DEF Agreed, BackendOwns
    <2> QED
        BY <1>1, <1>3, <1>13, <1>14, <2>1, <2>3 DEF Writing, Activate
<1> QED
    BY <1>1, <1>3, <1>13, <1>14, <1>15 DEF Writing, Activate

LEMMA PrefixIs ==
    ASSUME NEW S, NEW s \in Seq(S), NEW m \in 0 .. Len(s)
    PROVE  Len(SubSeq(s, 1, m)) = m /\ \A i \in 1 .. m : SubSeq(s, 1, m)[i] = s[i]
OBVIOUS

LEMMA HandoffIs ==
    ASSUME IInv, Handoff
    PROVE  Writing /\ TypeOK' /\ (Broken \/ (Agreed' /\ fence'.handoff = Null))
<1>1. /\ TypeOK /\ Staged /\ ~journal.unresolved /\ Agreed /\ Up
      /\ CanPrepareHandoff(fence, fence.owner, fence.generation, act.session)
      /\ fence.turn = Null
      /\ conv # Null /\ conv.generation = fence.generation
    BY DEF Handoff, GateOpen, IInv, Staged, CanPrepareHandoff, CanAdvanceGeneration, Proof
<1>2. /\ act # Null /\ act.mode = "prepared" /\ act \in Activations
      /\ fence.owner = act.workspace
    BY <1>1 DEF Handoff, GateOpen, Deployment, TypeOK
<1>3. page.hydrating = Null
    BY <1>1 DEF IInv, Hydration
<1>4. /\ fence \in Records /\ fence.generation \in Nat /\ fence.owner \in Hosts
      /\ act.session \in Hosts /\ act.session \in Backends /\ Sound(fence)
    BY <1>1, <1>2, RecordParts DEF TypeOK, Sound, Activations, Hosts
<1>o. PICK offered : offered = Prepared(fence, act.session, 0)
    OBVIOUS
<1>a. PICK accepted : accepted = Acknowledged(offered)
    OBVIOUS
<1>m. PICK moved : moved = Completed(accepted)
    OBVIOUS
<1>c. PICK advanced : advanced = Advanced(conv)
    OBVIOUS
<1>d. PICK made : made = [act EXCEPT !.mode = "handed_off"]
    OBVIOUS
<1>f. PICK after : after = [server EXCEPT !.runtime = moved.generation]
    OBVIOUS
<1>l. PICK all : all = <<<<offered, conv, act>>, <<accepted, conv, act>>, <<moved, conv, act>>,
                       <<moved, advanced, act>>, <<moved, advanced, made>>>>
    OBVIOUS
<1>t. PICK last : last = IF CanCompleteHandoff(accepted, fence.owner, fence.generation)
                         THEN 5 ELSE 2
    OBVIOUS
<1>w. PICK writes : writes = SubSeq(all, 1, last)
    OBVIOUS
<1>5. Performs(writes, last = 5, after)
    BY <1>o, <1>a, <1>m, <1>c, <1>d, <1>f, <1>l, <1>t, <1>w DEF Handoff
<1>6. /\ Sound(offered) /\ offered.turn = Null /\ offered.owner = fence.owner
      /\ offered.generation = fence.generation
      /\ CanAcknowledgeHandoff(offered, act.session, 0)
    BY <1>o, <1>1, <1>4, OfferedIs
<1>7. /\ Sound(accepted) /\ accepted.turn = Null /\ accepted.owner = fence.owner
      /\ accepted.generation = fence.generation /\ accepted.handoff.to = act.session
    BY <1>a, <1>6, AcceptedIs
<1>8. /\ advanced \in Conversations /\ advanced # Null
      /\ advanced.generation = fence.generation + 1 /\ advanced.history = conv.history
      /\ advanced.pending = conv.pending
    BY <1>c, <1>1, AdvancedIs, NullFacts DEF TypeOK
<1>9. /\ made \in Activations /\ made.mode = "handed_off" /\ made.session = act.session
      /\ made.generation = act.generation /\ made.base = act.base
    BY <1>d, <1>2 DEF Activations, Modes
<1>10. made # Null
    BY <1>9, NullFacts
<1>11. Wrote(offered, conv, act) /\ Wrote(accepted, conv, act)
    BY <1>1, <1>2, <1>6, <1>7 DEF Wrote, TypeOK
<1>12. CASE last = 2
    <2>1. /\ Len(writes) = 2 /\ writes[1] = <<offered, conv, act>>
          /\ writes[2] = <<accepted, conv, act>>
        BY <1>l, <1>w, <1>12
    <2>2. \A n \in 1 .. Len(writes) : Wrote(writes[n][1], writes[n][2], writes[n][3])
        BY <1>11, <2>1
    <2>3. Len(writes) \in Nat /\ Len(writes) # 0 /\ ~(last = 5)
        BY <1>12, <2>1
    <2>4. moved.generation \in Nat \cup {Null} => after \in Servers
        BY <1>f, <1>1 DEF TypeOK, Servers
    <2>5. moved.generation \in Nat
        BY <1>m, <1>4, <1>7 DEF Completed
    <2>6. /\ Wrote(fence', conv', act') /\ Broken
          /\ server' \in Servers /\ relay' \in [Requests -> RelayPhases]
          /\ journal' \in [unresolved : BOOLEAN, granted : BOOLEAN]
        <3>1. Performs(writes, FALSE, after)
            BY <1>5, <2>3
        <3> QED
            BY <1>1, <2>2, <2>3, <2>4, <2>5, <3>1, PerformsIs
    <2>7. TypeOK'
        BY <1>1, <2>6, WritingTypes DEF Handoff
    <2> QED
        BY <1>1, <1>3, <2>6, <2>7 DEF Writing, Handoff
<1>13. CASE last # 2
    <2>1. last = 5 /\ CanCompleteHandoff(accepted, accepted.owner, accepted.generation)
        BY <1>t, <1>7, <1>13
    <2>2. /\ Sound(moved) /\ moved.owner = act.session /\ moved.turn = Null
          /\ moved.generation = fence.generation + 1 /\ moved.handoff = Null
        BY <1>m, <1>7, <2>1, MovedOwnerIs
    <2>3. /\ Wrote(moved, conv, act) /\ Wrote(moved, advanced, act)
          /\ Wrote(moved, advanced, made)
        BY <1>1, <1>2, <1>8, <1>9, <2>2 DEF Wrote, TypeOK
    <2>4. /\ Len(writes) = 5 /\ writes[1] = <<offered, conv, act>>
          /\ writes[2] = <<accepted, conv, act>> /\ writes[3] = <<moved, conv, act>>
          /\ writes[4] = <<moved, advanced, act>> /\ writes[5] = <<moved, advanced, made>>
        <3>1. /\ Len(all) = 5 /\ all[1] = <<offered, conv, act>>
              /\ all[2] = <<accepted, conv, act>> /\ all[3] = <<moved, conv, act>>
              /\ all[4] = <<moved, advanced, act>> /\ all[5] = <<moved, advanced, made>>
            BY <1>l
        <3>2. all \in Seq({<<offered, conv, act>>, <<accepted, conv, act>>,
                           <<moved, conv, act>>, <<moved, advanced, act>>,
                           <<moved, advanced, made>>})
            BY <1>l
        <3>3. writes = SubSeq(all, 1, 5)
            BY <1>w, <2>1
        <3>4. Len(writes) = 5 /\ \A i \in 1 .. 5 : writes[i] = all[i]
            BY <3>2, <3>3, <3>1, PrefixIs
        <3> QED
            BY <3>1, <3>4
    <2>5. \A n \in 1 .. Len(writes) : Wrote(writes[n][1], writes[n][2], writes[n][3])
        <3> SUFFICES ASSUME NEW n \in 1 .. 5
                     PROVE  Wrote(writes[n][1], writes[n][2], writes[n][3])
            BY <2>4
        <3>1. n = 1 \/ n = 2 \/ n = 3 \/ n = 4 \/ n = 5
            OBVIOUS
        <3> QED
            BY <1>11, <2>3, <2>4, <3>1
    <2>6. Len(writes) \in Nat /\ Len(writes) # 0
        BY <2>4
    <2>7. /\ after \in Servers /\ after.runtime = fence.generation + 1
          /\ after.session = server.session
        <3>1. moved.generation \in Nat /\ server \in Servers
            BY <1>1, <1>4, <2>2 DEF TypeOK, Servers
        <3> QED
            BY <1>f, <2>2, <3>1 DEF Servers
    <2>8. /\ Wrote(fence', conv', act')
          /\ Broken \/ Finished(<<moved, advanced, made>>, after)
          /\ server' \in Servers /\ relay' \in [Requests -> RelayPhases]
          /\ journal' \in [unresolved : BOOLEAN, granted : BOOLEAN]
        <3>1. Performs(writes, TRUE, after)
            BY <1>5, <2>1
        <3> QED
            BY <1>1, <2>4, <2>5, <2>6, <2>7, <3>1, PerformsIs
    <2>9. TypeOK'
        BY <1>1, <2>8, WritingTypes DEF Handoff
    <2>10. CASE Finished(<<moved, advanced, made>>, after)
        <3>1. /\ fence' = moved /\ conv' = advanced /\ act' = made /\ UNCHANGED relay
              /\ server'.session = server.session
              /\ server'.runtime = fence.generation + 1 /\ server'.control = Null
            BY <2>7, <2>10 DEF Finished, Servers
        <3>2. /\ act.generation = fence.generation + 1 /\ conv.history = act.base
              /\ Replies(act.base) \in Nat
            BY <1>1, <1>2, RepliesNat DEF Agreed, Activations
        <3>3. Agreed'
            <4>1. BackendOwns' /\ IsOwner(fence, act.session, act.generation)'
                BY <1>4, <1>9, <2>2, <3>1, <3>2 DEF BackendOwns, IsOwner
            <4>2. Replies(act'.base) <= Replies(conv'.history)
                BY <1>8, <1>9, <3>1, <3>2
            <4> QED
                BY <1>8, <1>9, <1>10, <2>2, <3>1, <4>1, <4>2 DEF Agreed
        <3> QED
            BY <1>1, <1>3, <2>2, <2>8, <2>9, <3>1, <3>3 DEF Writing, Handoff
    <2> QED
        BY <1>1, <1>3, <2>8, <2>9, <2>10 DEF Writing, Handoff
<1> QED
    BY <1>12, <1>13

LEMMA CompletesIs ==
    ASSUME IInv, RollbackCompletes
    PROVE  Writing /\ TypeOK' /\ (Broken \/ (Agreed' /\ fence'.handoff = Null))
<1>1. /\ TypeOK /\ Staged /\ Agreed /\ Up /\ fence.turn = Null /\ Sound(fence)
      /\ conv # Null /\ conv.generation = fence.generation
      /\ server.control \in Controls /\ server.control.at = "hydrated"
      /\ CanAcknowledgeHandoff(fence, server.control.host, 0)
    BY DEF RollbackCompletes, At, IInv, Staged, Process, Proof, TypeOK
<1>2. page.hydrating = Null
    BY <1>1, NullFacts DEF IInv, Hydration, At
<1>3. /\ fence.generation \in Nat /\ server.control.host \in Browsers
      /\ server.control.host \notin Backends /\ server.control.host # Null
    BY <1>1, RecordParts, HostAssumption, NullFacts DEF Sound, Controls
<1>o. PICK host : host = server.control.host
    OBVIOUS
<1>a. PICK accepted : accepted = Acknowledged(fence)
    OBVIOUS
<1>m. PICK moved : moved = Completed(accepted)
    OBVIOUS
<1>c. PICK advanced : advanced = Advanced(conv)
    OBVIOUS
<1>f. PICK after : after = [server EXCEPT !.runtime = Null]
    OBVIOUS
<1>l. PICK all : all = <<<<accepted, conv, act>>, <<moved, conv, act>>,
                        <<moved, advanced, act>>, <<moved, advanced, Null>>>>
    OBVIOUS
<1>t. PICK last : last = IF ~CanCompleteHandoff(accepted, fence.owner, fence.generation) THEN 1
                         ELSE IF Usable THEN 4 ELSE 3
    OBVIOUS
<1>w. PICK writes : writes = SubSeq(all, 1, last)
    OBVIOUS
<1>5. Performs(writes, last = 4, after)
    BY <1>a, <1>m, <1>c, <1>f, <1>l, <1>t, <1>w DEF RollbackCompletes
<1>6. /\ Sound(accepted) /\ accepted.turn = Null /\ accepted.owner = fence.owner
      /\ accepted.generation = fence.generation /\ accepted.handoff.to = host
    BY <1>1, <1>o, <1>a, AcceptedIs
<1>7. /\ advanced \in Conversations /\ advanced # Null
      /\ advanced.generation = fence.generation + 1 /\ advanced.history = conv.history
      /\ advanced.pending = conv.pending
    BY <1>c, <1>1, AdvancedIs, NullFacts DEF TypeOK
<1>8. after \in Servers /\ after.runtime = Null /\ after.session = server.session
    BY <1>f, <1>1 DEF TypeOK, Servers
<1>9. Wrote(accepted, conv, act)
    BY <1>1, <1>6 DEF Wrote, TypeOK
<1>10. /\ Len(all) = 4 /\ all[1] = <<accepted, conv, act>> /\ all[2] = <<moved, conv, act>>
       /\ all[3] = <<moved, advanced, act>> /\ all[4] = <<moved, advanced, Null>>
       /\ all \in Seq({<<accepted, conv, act>>, <<moved, conv, act>>,
                       <<moved, advanced, act>>, <<moved, advanced, Null>>})
    BY <1>l
<1>11. last \in {1, 3, 4}
    BY <1>t
<1>12. Len(writes) = last /\ \A i \in 1 .. last : writes[i] = all[i]
    BY <1>w, <1>10, <1>11, PrefixIs
<1>13. \A n \in 1 .. Len(writes) : Wrote(writes[n][1], writes[n][2], writes[n][3])
    <2> SUFFICES ASSUME NEW n \in 1 .. last
                 PROVE  Wrote(writes[n][1], writes[n][2], writes[n][3])
        BY <1>12
    <2>1. CASE n = 1
        BY <1>9, <1>10, <1>12, <2>1
    <2>2. CASE n # 1
        <3>1. /\ n \in {2, 3, 4}
              /\ CanCompleteHandoff(accepted, accepted.owner, accepted.generation)
            BY <1>t, <1>6, <1>11, <2>2
        <3>2. Sound(moved) /\ moved.turn = Null
            BY <1>m, <1>6, <3>1, MovedOwnerIs
        <3>3. /\ Wrote(moved, conv, act) /\ Wrote(moved, advanced, act)
              /\ Wrote(moved, advanced, Null)
            BY <1>1, <1>7, <3>2 DEF Wrote, TypeOK
        <3> QED
            BY <1>10, <1>12, <3>1, <3>3
    <2> QED
        BY <2>1, <2>2
<1>14. Len(writes) \in Nat /\ Len(writes) # 0
    BY <1>11, <1>12
<1>15. /\ Wrote(fence', conv', act')
       /\ Broken \/ (last = 4 /\ Finished(<<moved, advanced, Null>>, after))
       /\ server' \in Servers /\ relay' \in [Requests -> RelayPhases]
       /\ journal' \in [unresolved : BOOLEAN, granted : BOOLEAN]
    <2>1. CASE last = 4
        <3>1. Performs(writes, TRUE, after)
            BY <1>5, <2>1
        <3>2. writes[Len(writes)] = <<moved, advanced, Null>>
            BY <1>10, <1>12, <2>1
        <3> QED
            BY <1>1, <1>8, <1>13, <1>14, <2>1, <3>1, <3>2, PerformsIs
    <2>2. CASE ~(last = 4)
        <3>1. Performs(writes, FALSE, after)
            BY <1>5, <2>2
        <3> QED
            BY <1>1, <1>8, <1>13, <1>14, <3>1, PerformsIs
    <2> QED
        BY <2>1, <2>2
<1>16. TypeOK'
    BY <1>1, <1>15, WritingTypes DEF RollbackCompletes
<1>17. CASE last = 4 /\ Finished(<<moved, advanced, Null>>, after)
    <2>1. CanCompleteHandoff(accepted, accepted.owner, accepted.generation)
        BY <1>t, <1>6, <1>17
    <2>2. /\ moved.owner = host /\ moved.generation = fence.generation + 1
          /\ moved.handoff = Null
        BY <1>m, <1>6, <2>1, MovedOwnerIs
    <2>3. /\ fence' = moved /\ conv' = advanced /\ act' = Null /\ UNCHANGED relay
          /\ server'.session = server.session /\ server'.runtime = Null
          /\ server'.control = Null
        BY <1>8, <1>17 DEF Finished, Servers
    <2>4. Agreed'
        BY <1>o, <1>3, <1>7, <2>2, <2>3 DEF Agreed, BackendOwns
    <2> QED
        BY <1>1, <1>2, <1>15, <1>16, <2>2, <2>3, <2>4 DEF Writing, RollbackCompletes
<1> QED
    BY <1>1, <1>2, <1>15, <1>16, <1>17 DEF Writing, RollbackCompletes

\* All writing stages at once.
LEMMA WritesIs ==
    ASSUME IInv, Prepare \/ Handoff \/ Activate \/ RollbackCompletes
    PROVE  Writing /\ TypeOK' /\ (Broken \/ (Agreed' /\ fence'.handoff = Null))
BY PrepareIs, HandoffIs, ActivateIs, CompletesIs

-----------------------------------------------------------------------------
(* The call of one request in a step.                                      *)

Faltering(r) == SendRefused(r) \/ StreamBreaks(r) \/ SettleRefused(r)

\* It ends, or it goes on by a step of its own; a turn of the server is left
\* only in doubt, settled, or by a process that dies.
Moves(r) ==
    \/ relay'[r] = relay[r]
    \/ /\ relay'[r] = "over" /\ relay[r] # "idle"
       /\ relay[r] \in Serving => ~Up' \/ Faltering(r) \/ SendBreaks(r) \/ Settle(r)
    \/ Dispatch(r) /\ relay'[r] = "called"
    \/ relay[r] = "called" /\ relay'[r] \in {"page_found", "server_found"}
    \/ relay[r] \in {"page_found", "server_found"} /\ relay'[r] = "unclaimed"
    \/ RelayToPage(r) /\ relay[r] = "unclaimed" /\ relay'[r] = "page"
    \/ Admit(r) /\ relay[r] = "server_found" /\ relay'[r] = "admitted"
    \/ Send(r) /\ relay[r] = "admitted" /\ relay'[r] = "streaming"
    \/ StreamEnds(r) /\ relay[r] = "streaming" /\ relay'[r] = "final"
    \/ Commit(r) /\ relay[r] = "final" /\ relay'[r] = "committed"

LEMMA DyingMoves ==
    ASSUME TypeOK, Dies, NEW r \in Requests
    PROVE  Moves(r)
<1>1. server' = Down /\ relay' = Lost
    BY DEF Dies
<1>2. ~Up' /\ relay'[r] = IF relay[r] = "idle" THEN "idle" ELSE "over"
    BY <1>1, DownIs, LostIs DEF Up
<1> QED
    BY <1>2 DEF Moves

LEMMA WritingMoves ==
    ASSUME TypeOK, Writing, NEW r \in Requests
    PROVE  Moves(r)
BY DyingMoves DEF Writing, Broken, Moves

LEMMA PagingMoves ==
    ASSUME TypeOK, Asked, Paging, NEW r \in Requests
    PROVE  Moves(r)
<1>1. CASE UNCHANGED relay
    BY <1>1 DEF Moves
<1>2. CASE relay' = PageTurnOver
    <2>1. relay'[r] = IF r = page.turn THEN "over" ELSE relay[r]
        BY <1>2, PageOverIs
    <2>2. r = page.turn => relay[r] \in {"page", "over"}
        BY DEF Asked
    <2> QED
        BY <2>1, <2>2 DEF Moves, Serving
<1> QED
    BY <1>1, <1>2 DEF Paging, PageAsks, PageAdmitted, PageFails, PageAnswers, PageReloads,
                      PageClears, PageExports, PageCompares, PageHydrates

LEMMA RelayingMoves ==
    ASSUME TypeOK, NEW q \in Requests, NEW r \in Requests,
           Dispatch(q) \/ Relaying(q) \/ GiveUp(q) \/ Modelling(q)
    PROVE  Moves(r)
<1>0. relay \in [Requests -> RelayPhases]
    BY DEF TypeOK
<1>1. CASE Dispatch(q)
    BY <1>0, <1>1 DEF Dispatch, Moves
<1>2. CASE RelayToPage(q)
    BY <1>0, <1>2 DEF RelayToPage, Moves
<1>3. CASE Admit(q)
    BY <1>0, <1>3 DEF Admit, Claims, Moves
<1>4. CASE RefuseTurn(q)
    <2>1. /\ relay[q] \in {"called", "page_found", "server_found", "unclaimed"}
          /\ relay' = [relay EXCEPT ![q] = "over"]
        BY <1>4 DEF RefuseTurn, SeamAsked
    <2> QED
        BY <1>0, <2>1 DEF Moves, Serving
<1>5. CASE Send(q)
    BY <1>0, <1>5 DEF Send, Sends, Moves
<1>6. CASE Faltering(q)
    <2>1. relay[q] # "idle" /\ relay' = [relay EXCEPT ![q] = "over"]
        BY <1>6 DEF Faltering, SendRefused, StreamBreaks, SettleRefused
    <2> QED
        BY <1>0, <1>6, <2>1 DEF Moves
<1>7. CASE StreamEnds(q)
    BY <1>0, <1>7 DEF StreamEnds, Moves
<1>8. CASE Commit(q)
    BY <1>0, <1>8 DEF Commit, Moves
<1>9. CASE Settle(q)
    <2>1. relay[q] # "idle" /\ (relay' = [relay EXCEPT ![q] = "over"] \/ Dies)
        BY <1>9 DEF Settle
    <2> QED
        BY <1>0, <1>9, <2>1, DyingMoves DEF Moves
<1>10. CASE GiveUp(q) \/ Modelling(q)
    BY <1>10 DEF GiveUp, Modelling, Arrive, EndUnheard, Moves
<1>11. CASE Find(q)
    BY <1>0, <1>11 DEF Find, Moves
<1>12. CASE StandAside(q)
    BY <1>0, <1>12 DEF StandAside, SeamAsked, Moves
<1>13. CASE AdmitBreaks(q)
    <2>1. /\ relay[q] = "server_found"
          /\ relay' = [relay EXCEPT ![q] = "over"] \/ Dies
        BY <1>13 DEF AdmitBreaks, Claims
    <2> QED
        BY <1>0, <2>1, DyingMoves DEF Moves, Serving
<1>14. CASE SendBreaks(q)
    <2>1. relay[q] # "idle" /\ (relay' = [relay EXCEPT ![q] = "over"] \/ Dies)
        BY <1>14 DEF SendBreaks, Sends
    <2> QED
        BY <1>0, <1>14, <2>1, DyingMoves DEF Moves
<1> QED
    BY <1>1, <1>2, <1>3, <1>4, <1>5, <1>6, <1>7, <1>8, <1>9, <1>10, <1>11, <1>12, <1>13, <1>14
       DEF Relaying, Faltering

LEMMA AllMove ==
    ASSUME IInv, Next, NEW r \in Requests
    PROVE  Moves(r)
<1>1. TypeOK /\ Asked
    BY DEF IInv
<1>2. CASE Stages
    <2>1. CASE Prepare \/ Handoff \/ Activate \/ RollbackCompletes
        BY <1>1, <2>1, WritesIs, WritingMoves
    <2>2. CASE ~(Prepare \/ Handoff \/ Activate \/ RollbackCompletes)
        BY <1>2, <2>2 DEF Stages, Preflight, AuthorizeFirstInference, Rollback, RollbackOffers,
                          StageFails, Moves
    <2> QED
        BY <2>1, <2>2
<1>3. CASE \E q \in Requests : Dispatch(q) \/ Relaying(q) \/ GiveUp(q) \/ Modelling(q)
    BY <1>1, <1>3, RelayingMoves
<1>4. CASE Paging
    BY <1>1, <1>4, PagingMoves
<1>5. CASE Lapse \/ LeaseLost \/ Start
    BY <1>5 DEF Lapse, LeaseLost, Start, Moves
<1>6. CASE Crash
    BY <1>1, <1>6, DyingMoves DEF Crash
<1> QED
    BY <1>2, <1>3, <1>4, <1>5, <1>6 DEF Next

-----------------------------------------------------------------------------
(* The kinds of steps, all of them; and that each keeps the types.         *)

Kind ==
    \/ Writing
    \/ RollbackOffers
    \/ Doubting
    \/ \E r \in Requests :
          \/ Admit(r) \/ AdmitBreaks(r) \/ Send(r) \/ SendBreaks(r)
          \/ StreamEnds(r) \/ Settle(r)

LEMMA UntouchedIsDoubting ==
    ASSUME TypeOK, UNCHANGED <<fence, conv, wire>>
    PROVE  Doubting
<1>1. DoubtedFence(fence') /\ DoubtedConversation(conv')
    BY SameIsDoubted
<1> QED
    BY <1>1 DEF Doubting

LEMMA ModellingIsDoubting ==
    ASSUME TypeOK, NEW r \in Requests, Modelling(r)
    PROVE  Doubting
<1>1. UNCHANGED <<fence, conv>>
    BY DEF Modelling, Arrive, EndUnheard, files
<1>2. DoubtedFence(fence') /\ DoubtedConversation(conv')
    BY <1>1, SameIsDoubted
<1>3. wire[r] # "none" /\ \A q \in Requests : q # r => wire'[q] = wire[q]
    BY DEF Modelling, Arrive, EndUnheard, TypeOK
<1> QED
    BY <1>2, <1>3 DEF Doubting

LEMMA StartIsDoubting ==
    ASSUME TypeOK, Start
    PROVE  Doubting
BY FencedIs, RestartedIsDoubted DEF Start, Doubting

LEMMA AllKinds ==
    ASSUME IInv, Next
    PROVE  Kind /\ TypeOK'
<1>1. TypeOK /\ Served /\ Staged
    BY DEF IInv
<1>2. CASE Prepare \/ Handoff \/ Activate \/ RollbackCompletes
    BY <1>2, WritesIs DEF Kind
<1>3. CASE RollbackOffers
    BY <1>1, <1>3, OffersIs DEF Kind
<1>4. CASE Preflight \/ Rollback \/ StageFails
           \/ \E r \in Requests : AuthorizeFirstInference(r)
    <2>1. UNCHANGED <<fence, conv, wire>>
        BY <1>4 DEF Preflight, Rollback, StageFails, AuthorizeFirstInference, files
    <2> QED
        BY <1>1, <1>4, <2>1, StageTypes, UntouchedIsDoubting DEF Kind
<1>5. ASSUME NEW r \in Requests,
             \/ Dispatch(r) \/ Find(r) \/ StandAside(r) \/ RelayToPage(r) \/ RefuseTurn(r)
             \/ Commit(r) \/ GiveUp(r)
      PROVE  Kind /\ TypeOK'
    <2>1. UNCHANGED <<fence, conv, wire>>
        BY <1>5 DEF Dispatch, Find, StandAside, RelayToPage, RefuseTurn, Commit, GiveUp, files
    <2> QED
        BY <1>1, <1>5, <2>1, DexTypes, UntouchedIsDoubting DEF Kind
<1>6. ASSUME NEW r \in Requests, Modelling(r)
      PROVE  Kind /\ TypeOK'
    BY <1>1, <1>6, DexTypes, ModellingIsDoubting DEF Kind, Modelling
<1>7. ASSUME NEW r \in Requests, Faltering(r)
      PROVE  Kind /\ TypeOK'
    BY <1>1, <1>7, FailureTypes DEF Kind, Faltering
<1>8. ASSUME NEW r \in Requests,
             \/ Admit(r) \/ AdmitBreaks(r) \/ Send(r) \/ SendBreaks(r)
             \/ StreamEnds(r) \/ Settle(r)
      PROVE  Kind /\ TypeOK'
    BY <1>1, <1>8, AdmitIs, AdmitBreaksIs, SendIs, SendBreaksIs, EndsIs, SettleIs DEF Kind
<1>9. CASE Paging
    <2>1. UNCHANGED <<fence, conv, wire>>
        BY <1>9 DEF Paging, PageAsks, PageAdmitted, PageFails, PageAnswers, PageReloads,
                    PageClears, PageExports, PageCompares, PageHydrates, files
    <2>2. PageCompares => conv # Null
        BY <1>1, NullFacts DEF PageCompares, At, Staged, Proof, TypeOK
    <2> QED
        BY <1>1, <1>9, <2>1, <2>2, PageTypes, UntouchedIsDoubting DEF Kind
<1>10. CASE Lapse \/ LeaseLost \/ Crash
    <2>1. UNCHANGED <<fence, conv, wire>>
        BY <1>10 DEF Lapse, LeaseLost, Crash, files
    <2> QED
        BY <1>1, <1>10, <2>1, TimeTypes, UntouchedIsDoubting DEF Kind
<1>11. CASE Start
    BY <1>1, <1>11, StartTypes, StartIsDoubting DEF Kind
<1>12. ASSUME NEW r \in Requests, Dispatch(r) \/ Relaying(r) \/ GiveUp(r) \/ Modelling(r)
       PROVE  Kind /\ TypeOK'
    BY <1>5, <1>6, <1>7, <1>8, <1>12 DEF Relaying, Faltering
<1>13. CASE Stages
    BY <1>2, <1>3, <1>4, <1>13 DEF Stages
<1> QED
    BY <1>9, <1>10, <1>11, <1>12, <1>13 DEF Next

\* The turn in the fence: it may have been reserved or settled, but it is
\* never exchanged for another, and ownership moves only without one.
LEMMA TurnKept ==
    ASSUME IInv, Next
    PROVE  \/ fence'.turn = Null
           \/ \E r \in Requests :
                 /\ Admit(r) \/ AdmitBreaks(r)
                 /\ fence'.turn # Null /\ fence'.turn.requestId = r /\ Held(fence')
           \/ /\ fence.turn # Null /\ fence'.turn # Null /\ Held(fence')
              /\ fence'.turn.requestId = fence.turn.requestId
              /\ fence'.turn.phase \in {fence.turn.phase, "unknown"}
<1>1. TypeOK /\ Served /\ Staged
    BY DEF IInv
<1>2. CASE Writing
    BY <1>2 DEF Writing, Wrote
<1>3. CASE RollbackOffers
    BY <1>1, <1>3, OffersIs
<1>4. CASE Doubting
    BY <1>4 DEF Doubting, DoubtedFence, Held
<1>5. ASSUME NEW r \in Requests, Admit(r) \/ AdmitBreaks(r)
      PROVE  fence'.turn # Null /\ fence'.turn.requestId = r /\ Held(fence')
    BY <1>1, <1>5, AdmitIs, AdmitBreaksIs DEF TurnIn
<1>6. ASSUME NEW r \in Requests, Settle(r) PROVE fence'.turn = Null
    BY <1>1, <1>6, SettleIs
<1>7. ASSUME NEW r \in Requests, Send(r) \/ StreamEnds(r) PROVE UNCHANGED fence
    BY <1>7 DEF Send, StreamEnds
<1>8. UNCHANGED fence => Held(fence')
    BY <1>1 DEF Held, TypeOK
<1>9. ASSUME NEW r \in Requests, SendBreaks(r) PROVE DoubtedFence(fence')
    BY <1>1, <1>9, SendBreaksIs
<1>10. DoubtedFence(fence') /\ fence'.turn # Null =>
          /\ fence.turn # Null /\ Held(fence')
          /\ fence'.turn.requestId = fence.turn.requestId
          /\ fence'.turn.phase \in {fence.turn.phase, "unknown"}
    BY DEF DoubtedFence, Held
<1> QED
    BY <1>2, <1>3, <1>4, <1>5, <1>6, <1>7, <1>8, <1>9, <1>10, AllKinds DEF Kind

-----------------------------------------------------------------------------
(* The scheduler's books.                                                  *)

DexStep ==
    \/ UNCHANGED dex
    \/ \E r \in Requests : /\ Dispatch(r) /\ dex'.asked = dex.asked \cup {r}
                          /\ dex'.current = r /\ dex'.receipts = dex.receipts
                          /\ dex'.completed = dex.completed
    \/ /\ dex'.asked = dex.asked /\ dex'.current = Null /\ dex.current \in Requests
       /\ dex.receipts \subseteq dex'.receipts
       /\ dex'.receipts \subseteq dex.receipts \cup {dex.current}
       /\ dex.completed \subseteq dex'.completed

LEMMA ConcludedStep ==
    ASSUME TypeOK, NEW r \in Requests, dex' \in Concluded(r)
    PROVE  DexStep
<1>1. \/ dex' = dex
      \/ /\ dex.current = r /\ dex'.current = Null /\ dex'.asked = dex.asked
         /\ dex'.receipts = dex.receipts \cup {r}
         /\ dex.completed \subseteq dex'.completed
    BY ConcludedIs
<1> QED
    BY <1>1 DEF DexStep

LEMMA AllDexSteps ==
    ASSUME IInv, Next
    PROVE  DexStep
<1>0. TypeOK /\ dex \in Dexes
    BY DEF IInv, TypeOK, Dexes
<1>1. CASE Stages
    BY <1>1 DEF Stages, Preflight, Prepare, Handoff, Activate, AuthorizeFirstInference, Rollback,
                RollbackOffers, RollbackCompletes, StageFails, DexStep
<1>2. ASSUME NEW r \in Requests, Dispatch(r) \/ Relaying(r) \/ GiveUp(r) \/ Modelling(r)
      PROVE  DexStep
    <2>1. CASE Dispatch(r)
        BY <1>0, <2>1 DEF Dispatch, DexStep, Dexes
    <2>2. CASE Commit(r)
        BY <1>0, <2>2, ConcludedStep DEF Commit
    <2>3. CASE GiveUp(r)
        BY <1>0, <2>3 DEF GiveUp, DexStep, Dexes
    <2>4. CASE Relaying(r) /\ ~Commit(r)
        BY <2>4 DEF Relaying, Find, StandAside, RelayToPage, Admit, AdmitBreaks, RefuseTurn,
                    Send, SendBreaks, SendRefused, StreamBreaks, StreamEnds, Settle,
                    SettleRefused, DexStep
    <2>5. CASE Modelling(r)
        BY <2>5 DEF Modelling, Arrive, EndUnheard, DexStep
    <2> QED
        BY <1>2, <2>1, <2>2, <2>3, <2>4, <2>5
<1>3. CASE Paging
    <2>1. CASE PageAnswers /\ page.turn # Chat
        <3>1. page.turn \in Requests
            BY <1>0, <2>1 DEF PageAnswers, TypeOK
        <3>2. dex' = dex \/ dex' \in Concluded(page.turn)
            BY <2>1 DEF PageAnswers
        <3> QED
            BY <1>0, <3>1, <3>2, ConcludedStep DEF DexStep
    <2>2. CASE ~(PageAnswers /\ page.turn # Chat)
        BY <1>3, <2>2 DEF Paging, PageAsks, PageAdmitted, PageFails, PageAnswers, PageReloads,
                          PageClears, PageExports, PageCompares, PageHydrates, DexStep
    <2> QED
        BY <2>1, <2>2
<1>4. CASE Lapse \/ LeaseLost \/ Crash \/ Start
    BY <1>4 DEF Lapse, LeaseLost, Crash, Start, DexStep
<1> QED
    BY <1>1, <1>2, <1>3, <1>4 DEF Next

LEMMA DexGrows ==
    ASSUME IInv, Next
    PROVE  /\ dex.asked \subseteq dex'.asked /\ Confirmed \subseteq Confirmed'
           /\ \A r \in Requests : Sourced(r)' => Sourced(r) \/ Dispatch(r)
<1>1. DexStep
    BY AllDexSteps
<1> QED
    BY <1>1, NullFacts DEF DexStep, Confirmed, Sourced

-----------------------------------------------------------------------------
(* Each part of the invariant is kept.                                     *)

LEMMA AskedKept ==
    ASSUME IInv, Next
    PROVE  Asked'
<1>1. TypeOK /\ Asked /\ DexStep /\ \A r \in Requests : Moves(r)
    BY AllMove, AllDexSteps DEF IInv
<1>2. dex.asked \subseteq dex'.asked
    BY DexGrows
<1>3. dex'.current # Null => dex'.current \in dex'.asked
    BY <1>1 DEF DexStep, Asked
<1>4. dex'.receipts \subseteq dex'.asked
    BY <1>1, NullFacts DEF DexStep, Asked
<1>5. ASSUME NEW r \in Requests, relay'[r] # "idle" PROVE r \in dex'.asked
    <2>1. CASE Dispatch(r)
        BY <1>1, <2>1 DEF Dispatch, TypeOK
    <2>2. CASE ~Dispatch(r)
        BY <1>1, <1>2, <1>5, <2>2 DEF Moves, Asked
    <2> QED
        BY <2>1, <2>2
<1>6. fence'.turn # Null => fence'.turn.requestId \in dex'.asked /\ BackendOwns'
    <2>1. CASE fence'.turn = Null
        BY <2>1
    <2>2. ASSUME NEW r \in Requests, Admit(r) \/ AdmitBreaks(r),
                 fence'.turn # Null, fence'.turn.requestId = r, Held(fence')
          PROVE  fence'.turn.requestId \in dex'.asked /\ BackendOwns'
        BY <1>1, <1>2, <2>2 DEF Admit, AdmitBreaks, Claims, Asked, Held, BackendOwns
    <2>3. CASE /\ fence.turn # Null /\ Held(fence')
               /\ fence'.turn.requestId = fence.turn.requestId
        BY <1>1, <1>2, <2>3 DEF Asked, Held, BackendOwns
    <2> QED
        BY <2>1, <2>2, <2>3, TurnKept
<1>7. page'.turn \in Requests => relay'[page'.turn] \in {"page", "over"}
    <2>1. ASSUME page'.turn = page.turn, page.turn \in Requests
          PROVE  relay'[page'.turn] \in {"page", "over"}
        <3>1. PICK r \in Requests : r = page.turn
            BY <2>1
        <3>2. relay[r] \in {"page", "over"} /\ Moves(r) /\ ~Dispatch(r)
            BY <1>1, <2>1, <3>1 DEF Asked, Dispatch
        <3> QED
            BY <2>1, <3>1, <3>2 DEF Moves
    <2>2. ASSUME NEW r \in Requests, RelayToPage(r) PROVE page'.turn = r /\ relay'[r] = "page"
        BY <1>1, <2>2 DEF RelayToPage, TypeOK
    <2>3. \/ page'.turn = page.turn \/ page'.turn \notin Requests
          \/ \E r \in Requests : RelayToPage(r)
        <3>1. CASE Paging
            <4>1. page \in Pages
                BY <1>1 DEF TypeOK, Pages
            <4>2. CASE PageFails
                BY <4>1, <4>2, QuietIs, NullFacts DEF PageFails
            <4>3. CASE PageAnswers
                BY <1>1, <4>1, <4>3, QuietIs, SaysIs, NullFacts DEF PageAnswers
            <4>4. CASE PageAsks
                <5>1. page'.turn = Chat
                    BY <4>1, <4>4 DEF PageAsks, Pages
                <5> QED
                    BY <5>1, NullFacts
            <4>5. CASE PageReloads
                <5>1. page'.turn = Null
                    BY <4>5 DEF PageReloads
                <5> QED
                    BY <5>1, NullFacts
            <4>6. CASE PageAdmitted \/ PageExports \/ PageCompares
                BY <4>1, <4>6 DEF PageAdmitted, PageExports, PageCompares, Pages
            <4>7. CASE PageClears \/ PageHydrates
                <5>1. page'.turn = Null
                    BY <1>1, <4>7, ClearedIs, HydratedIs
                <5> QED
                    BY <5>1, NullFacts
            <4> QED
                BY <3>1, <4>2, <4>3, <4>4, <4>5, <4>6, <4>7 DEF Paging
        <3>2. CASE UNCHANGED page
            BY <3>2
        <3>3. Paging \/ UNCHANGED page \/ \E r \in Requests : RelayToPage(r)
            BY DEF Next, Stages, Preflight, Prepare, Handoff, Activate, AuthorizeFirstInference,
                   Rollback, RollbackOffers, RollbackCompletes, StageFails, Dispatch, Relaying,
                   Find, StandAside, Admit, AdmitBreaks, RefuseTurn, Send, SendBreaks, SendRefused,
                   StreamBreaks, StreamEnds, Commit, Settle, SettleRefused, GiveUp, Modelling,
                   Arrive, EndUnheard, Lapse, LeaseLost, Crash, Start
        <3> QED
            BY <3>1, <3>2, <3>3
    <2> QED
        BY <2>1, <2>2, <2>3
<1> QED
    BY <1>3, <1>4, <1>5, <1>6, <1>7 DEF Asked

\* What a process remembers: it dies, starts, or stays the same session, and
\* then a stage that waits for the page is unresolved.
MemoryStep ==
    \/ Dies
    \/ Start
    \/ /\ server'.session = server.session
       /\ \/ server'.control = Null
          \/ server'.control = server.control /\ journal'.unresolved = journal.unresolved
          \/ Up /\ journal'.unresolved = TRUE

\* The steps of a turn that touch what the process remembers.
Noting(r) ==
    \/ StandAside(r) \/ RefuseTurn(r) \/ Admit(r) \/ AdmitBreaks(r) \/ SendBreaks(r)
    \/ Settle(r)

LEMMA NotingIs ==
    ASSUME TypeOK, NEW r \in Requests, Noting(r)
    PROVE  /\ UNCHANGED journal
           /\ \/ Dies
              \/ /\ server'.session = server.session /\ server'.control = server.control
                 /\ server'.runtime = server.runtime
<1>1. UNCHANGED journal
    BY DEF Noting, StandAside, RefuseTurn, Admit, AdmitBreaks, SendBreaks, Settle
<1>2. \/ Dies \/ UNCHANGED server
      \/ server' \in {[server EXCEPT !.permit = Null], [server EXCEPT !.firstDone = TRUE]}
    BY DEF Noting, StandAside, RefuseTurn, Admit, AdmitBreaks, SendBreaks, Settle
<1> QED
    BY <1>1, <1>2 DEF TypeOK, Servers

\* All others of a turn leave that alone.
LEMMA OthersNoteNothing ==
    ASSUME NEW r \in Requests, Dispatch(r) \/ Relaying(r) \/ GiveUp(r) \/ Modelling(r)
    PROVE  Noting(r) \/ UNCHANGED <<server, journal>>
BY DEF Noting, Dispatch, Relaying, Find, RelayToPage, Send, SendRefused, StreamBreaks,
       StreamEnds, Commit, SettleRefused, GiveUp, Modelling, Arrive, EndUnheard

LEMMA AllMemorySteps ==
    ASSUME IInv, Next
    PROVE  MemoryStep
<1>0. TypeOK /\ Process /\ server \in Servers /\ Staged
    BY DEF IInv, TypeOK, Servers
<1>1. CASE Prepare \/ Handoff \/ Activate \/ RollbackCompletes
    <2>1. Writing
        BY <1>1, WritesIs
    <2>2. CASE Broken
        BY <1>0, <2>2 DEF Broken, MemoryStep, Servers
    <2> QED
        BY <2>1, <2>2 DEF Writing, MemoryStep
<1>2. CASE Preflight \/ Rollback \/ StageFails
    <2>1. Up /\ journal'.unresolved = TRUE
        BY <1>0, <1>2 DEF Preflight, Rollback, StageFails, GateOpen, Opened, TypeOK, Process
    <2>2. server'.session = server.session
        BY <1>0, <1>2 DEF Preflight, Rollback, StageFails, Servers
    <2> QED
        BY <2>1, <2>2 DEF MemoryStep
<1>3. CASE \E r \in Requests : AuthorizeFirstInference(r)
    <2>1. server.control = Null
        BY <1>0, <1>3 DEF AuthorizeFirstInference, GateOpen, Process
    <2>2. server'.session = server.session /\ server'.control = server.control
        BY <1>0, <1>3 DEF AuthorizeFirstInference, Servers
    <2> QED
        BY <2>1, <2>2 DEF MemoryStep
<1>4. CASE RollbackOffers \/ PageExports \/ PageHydrates
    <2>1. server'.session = server.session /\ UNCHANGED journal
        BY <1>0, <1>4 DEF RollbackOffers, PageExports, PageHydrates, Servers
    <2>2. server.control # Null \/ server' = server
        BY <1>4 DEF RollbackOffers, PageExports, PageHydrates, At
    <2>3. journal.unresolved \in BOOLEAN
        BY <1>0 DEF TypeOK
    <2> QED
        BY <1>0, <2>1, <2>2, <2>3 DEF MemoryStep, Process
<1>5. ASSUME NEW r \in Requests, Noting(r) PROVE MemoryStep
    BY <1>0, <1>5, NotingIs DEF MemoryStep
<1>6. CASE LeaseLost
    BY <1>0, <1>6 DEF LeaseLost, Servers, MemoryStep
<1>7. CASE Crash \/ Start
    BY <1>7 DEF Crash, MemoryStep
<1>8. CASE UNCHANGED <<server, journal>>
    BY <1>8 DEF MemoryStep
<1>9. ASSUME NEW r \in Requests, Dispatch(r) \/ Relaying(r) \/ GiveUp(r) \/ Modelling(r)
      PROVE  MemoryStep
    BY <1>5, <1>8, <1>9, OthersNoteNothing
<1>10. CASE Paging \/ Lapse
    BY <1>4, <1>8, <1>10
       DEF Paging, PageAsks, PageAdmitted, PageFails, PageAnswers, PageReloads, PageClears,
           PageCompares, Lapse
<1>11. CASE Stages
    BY <1>1, <1>2, <1>3, <1>4, <1>11 DEF Stages
<1> QED
    BY <1>6, <1>7, <1>9, <1>10, <1>11 DEF Next

LEMMA ProcessKept ==
    ASSUME IInv, Next
    PROVE  Process'
<1>1. TypeOK /\ Process /\ MemoryStep /\ \A r \in Requests : Moves(r)
    BY AllMove, AllMemorySteps DEF IInv
<1>2. CASE Dies
    BY <1>1, <1>2, DownIs, LostIs DEF Dies, Process, Up
<1>3. CASE Start
    <2>1. PICK session \in Backends :
            server' = [Down EXCEPT !.session = session, !.broken = (act # Null)]
        BY <1>3 DEF Start
    <2>2. server'.session = session /\ server'.control = Null
        BY <2>1 DEF Down
    <2> QED
        BY <2>2, NullFacts DEF Process, Up
<1>4. CASE ~Dies /\ ~Start
    <2>1. /\ server'.session = server.session
          /\ \/ server'.control = Null
             \/ server'.control = server.control /\ journal'.unresolved = journal.unresolved
             \/ Up /\ journal'.unresolved = TRUE
        BY <1>1, <1>4 DEF MemoryStep
    <2>2. server'.control # Null => Up' /\ journal'.unresolved
        BY <1>1, <2>1 DEF Process, Up
    <2>3. ASSUME ~Up', NEW r \in Requests PROVE relay'[r] \in {"idle", "over"}
        <3>1. ~Up /\ relay[r] \in {"idle", "over"} /\ Moves(r)
            BY <1>1, <2>1, <2>3 DEF Process, Up
        <3> QED
            BY <3>1 DEF Moves, Dispatch
    <2> QED
        BY <2>2, <2>3 DEF Process
<1> QED
    BY <1>2, <1>3, <1>4

\* A turn the fence shows as dispatched stays so for the process serving it.
LEMMA ServingStays ==
    ASSUME IInv, Next, NEW r \in Requests, relay[r] \in Serving, relay'[r] \in Serving
    PROVE  TurnIn(fence', r, {"dispatched"})
<1>1. /\ TypeOK /\ Served /\ Staged /\ Process /\ TurnIn(fence, r, {"dispatched"})
    BY DEF IInv, Served
<1>2. CASE UNCHANGED fence
    BY <1>1, <1>2
<1>3. ASSUME NEW q \in Requests, Faltering(q) \/ SendBreaks(q)
      PROVE  TurnIn(fence', r, {"dispatched"})
    <2>1. CASE UNCHANGED fence
        BY <1>2, <2>1
    <2>2. CASE fence' = Doubted(q) /\ relay' = [relay EXCEPT ![q] = "over"]
        <3>1. q # r
            BY <1>1, <2>2 DEF TypeOK, Serving
        <3>2. ~CanMarkUncertain(fence, q)
            BY <1>1, <3>1 DEF CanMarkUncertain, TurnIn
        <3> QED
            BY <1>1, <2>2, <3>2 DEF Doubted
    <2> QED
        BY <1>3, <2>1, <2>2
           DEF Faltering, SendRefused, SendBreaks, StreamBreaks, SettleRefused
<1>4. ASSUME NEW q \in Requests, Admit(q) \/ AdmitBreaks(q) PROVE FALSE
    BY <1>1, <1>4, AdmitIs, AdmitBreaksIs DEF TurnIn
<1>5. ASSUME NEW q \in Requests, Settle(q) PROVE FALSE
    <2>1. q = r
        BY <1>1, <1>5, SettleIs DEF TurnIn
    <2>2. relay'[r] = "over" \/ relay' = Lost
        BY <1>1, <1>5, <2>1 DEF Settle, Dies, TypeOK
    <2> QED
        BY <1>1, <2>2, LostIs DEF Serving
<1>6. CASE Prepare \/ Handoff \/ Activate \/ RollbackCompletes \/ RollbackOffers
    BY <1>1, <1>6, WritesIs, OffersIs DEF Writing, TurnIn
<1>7. CASE Start
    BY <1>1, <1>7 DEF Start, Process, Serving
<1> QED
    BY <1>2, <1>3, <1>4, <1>5, <1>6, <1>7
       DEF Next, Stages, Preflight, AuthorizeFirstInference, Rollback, StageFails, Dispatch,
           Relaying, Find, StandAside, RelayToPage, RefuseTurn, Send, Faltering, StreamEnds,
           Commit, GiveUp, Modelling, Arrive, EndUnheard, Paging, PageAsks, PageAdmitted,
           PageFails, PageAnswers, PageReloads, PageClears, PageExports, PageCompares,
           PageHydrates, Lapse, LeaseLost, Crash, files

LEMMA ServedKept ==
    ASSUME IInv, Next
    PROVE  Served'
<1>1. TypeOK /\ Served /\ Staged /\ Kind /\ \A r \in Requests : Moves(r)
    BY AllMove, AllKinds DEF IInv
<1>2. ASSUME NEW r \in Requests, relay'[r] \in Serving
      PROVE  TurnIn(fence', r, {"dispatched"})
    <2>1. CASE Admit(r)
        BY <1>1, <2>1, AdmitIs
    <2>2. CASE ~Admit(r)
        <3>1. relay[r] \in Serving
            BY <1>1, <1>2, <2>2 DEF Moves, Serving
        <3> QED
            BY <1>2, <3>1, ServingStays
    <2> QED
        BY <2>1, <2>2
<1>3. ASSUME NEW r \in Requests, relay'[r] \in {"final", "committed"}
      PROVE  wire'[r] = "none" /\ conv' # Null /\ PendingIn(conv', r, {"inferred"})
    <2>1. CASE StreamEnds(r)
        BY <1>1, <2>1, EndsIs DEF StreamEnds, TypeOK
    <2>2. CASE ~StreamEnds(r)
        <3>1. relay[r] \in {"final", "committed"}
            BY <1>1, <1>3, <2>2 DEF Moves
        <3>2. /\ wire[r] = "none" /\ conv # Null /\ PendingIn(conv, r, {"inferred"})
              /\ TurnIn(fence, r, {"dispatched"})
            BY <1>1, <3>1 DEF Served, Serving
        <3>3. CASE Writing \/ RollbackOffers
            BY <1>1, <3>2, <3>3, OffersIs DEF Writing, TurnIn
        <3>4. CASE Doubting
            BY <1>1, <3>2, <3>4 DEF Doubting, DoubtedConversation, PendingIn
        <3>5. ASSUME NEW q \in Requests,
                     Admit(q) \/ AdmitBreaks(q) \/ Send(q) \/ SendBreaks(q)
              PROVE  FALSE
            BY <1>1, <3>2, <3>5, AdmitIs, AdmitBreaksIs, SendIs, SendBreaksIs
               DEF TurnIn, PendingIn
        <3>6. ASSUME NEW q \in Requests, StreamEnds(q)
              PROVE  FALSE
            BY <3>2, <3>6 DEF StreamEnds, CanMove, PendingIn
        <3>7. ASSUME NEW q \in Requests, Settle(q)
              PROVE  FALSE
            <4>1. q = r
                BY <1>1, <3>2, <3>7, SettleIs DEF TurnIn
            <4>2. relay'[r] = "over" \/ relay' = Lost
                BY <1>1, <3>7, <4>1 DEF Settle, Dies, TypeOK
            <4> QED
                BY <1>1, <1>3, <4>2, LostIs
        <3> QED
            BY <1>1, <3>3, <3>4, <3>5, <3>6, <3>7 DEF Kind
    <2> QED
        BY <2>1, <2>2
<1> QED
    BY <1>2, <1>3 DEF Served

LEMMA AttendedKept ==
    ASSUME IInv, Next
    PROVE  TurnAttended'
<1>1. /\ TypeOK /\ Served /\ Asked /\ TurnAttended /\ Process /\ Kind /\ MemoryStep
      /\ TypeOK' /\ Staged
    BY AllKinds, AllMemorySteps DEF IInv
<1> SUFFICES ASSUME NEW r \in Requests, Up', TurnIn(fence', r, {"dispatched"}), Sourced(r)'
             PROVE  relay'[r] \in Serving
    BY DEF TurnAttended, Serving
<1>2. Moves(r)
    BY AllMove
<1>3. CASE Admit(r)
    BY <1>1, <1>3 DEF Admit, Serving, TypeOK
<1>4. CASE ~Admit(r)
    <2>1. TurnIn(fence, r, {"dispatched"})
        <3>1. ASSUME NEW q \in Requests, Admit(q) \/ AdmitBreaks(q),
                     fence'.turn.requestId = q
              PROVE  FALSE
            BY <1>1, <1>4, <3>1, AdmitBreaksIs DEF TurnIn
        <3>2. /\ fence.turn # Null /\ fence'.turn.requestId = fence.turn.requestId
              /\ fence'.turn.phase \in {fence.turn.phase, "unknown"}
            BY <3>1, TurnKept DEF TurnIn
        <3> QED
            BY <3>2 DEF TurnIn
    <2>2. Sourced(r) /\ ~Dispatch(r)
        <3>1. r \in dex.asked
            BY <1>1, <2>1 DEF Asked, TurnIn
        <3> QED
            BY <3>1, DexGrows DEF Dispatch
    <2>3. Up
        <3>1. ~Dies
            BY DownIs DEF Dies, Up
        <3>2. CASE Start
            <4>1. TurnIn(Fenced(fence), r, {"dispatched"})
                BY <3>2 DEF Start
            <4> QED
                BY <1>1, <4>1, FencedIs DEF TurnIn
        <3> QED
            BY <1>1, <3>1, <3>2 DEF MemoryStep, Up
    <2>4. relay[r] \in Serving
        BY <1>1, <2>1, <2>2, <2>3 DEF TurnAttended, Serving
    <2>5. ~Faltering(r)
        <3>1. Faltering(r) => fence' = Doubted(r)
            BY DEF Faltering, SendRefused, StreamBreaks, SettleRefused
        <3> QED
            BY <1>1, <2>2, <3>1, DoubtedIs
    <2>6. ~Settle(r)
        BY <1>1, SettleIs DEF TurnIn
    <2>7. ~SendBreaks(r)
        BY <1>1, <2>2, DownIs, SendBreaksIs DEF Dies, Up
    <2> QED
        BY <1>2, <1>4, <2>2, <2>4, <2>5, <2>6, <2>7 DEF Moves, Serving
<1> QED
    BY <1>3, <1>4

LEMMA PinnedKept ==
    ASSUME IInv, Next
    PROVE  Pinned'
<1>1. TypeOK /\ Served /\ Pinned /\ Kind /\ Staged
    BY AllKinds DEF IInv
<1> SUFFICES ASSUME NEW r \in Requests, wire'[r] # "none"
             PROVE  /\ TurnIn(fence', r, {"dispatched", "unknown"})
                    /\ conv' # Null /\ conv'.generation = fence'.generation
                    /\ PendingIn(conv', r, {"dispatched", "unknown"})
    BY DEF Pinned
<1>2. wire[r] # "none" =>
        /\ TurnIn(fence, r, {"dispatched", "unknown"})
        /\ conv # Null /\ conv.generation = fence.generation
        /\ PendingIn(conv, r, {"dispatched", "unknown"})
    BY <1>1 DEF Pinned
<1>3. CASE Writing \/ RollbackOffers
    BY <1>1, <1>2, <1>3, OffersIs DEF Writing, RollbackOffers, TurnIn
<1>4. CASE Doubting
    BY <1>2, <1>4 DEF Doubting, DoubtedFence, DoubtedConversation, TurnIn, PendingIn
<1>5. ASSUME NEW q \in Requests, Admit(q) \/ AdmitBreaks(q) \/ SendBreaks(q) PROVE FALSE
    <2>1. fence.turn = Null \/ conv.pending = Null
        BY <1>1, <1>5, AdmitIs, AdmitBreaksIs, SendBreaksIs
    <2>2. wire[r] # "none"
        BY <1>5 DEF Admit, AdmitBreaks, SendBreaks
    <2> QED
        BY <1>2, <2>1, <2>2 DEF TurnIn, PendingIn
<1>6. ASSUME NEW q \in Requests, Send(q)
      PROVE  /\ TurnIn(fence', r, {"dispatched", "unknown"})
             /\ conv' # Null /\ conv'.generation = fence'.generation
             /\ PendingIn(conv', r, {"dispatched", "unknown"})
    <2>1. wire[r] = "none"
        BY <1>1, <1>2, <1>6, SendIs DEF PendingIn
    <2>2. q = r
        BY <1>1, <1>6, <2>1 DEF Send, TypeOK
    <2>3. TurnIn(fence, r, {"dispatched"})
        BY <1>1, <1>6, <2>2 DEF Served, Serving, Send, Sends
    <2> QED
        BY <1>1, <1>6, <2>2, <2>3, SendIs DEF TurnIn, PendingIn
<1>7. ASSUME NEW q \in Requests, StreamEnds(q) PROVE FALSE
    <2>1. q # r /\ wire'[r] = wire[r]
        BY <1>1, <1>7 DEF StreamEnds, TypeOK
    <2> QED
        BY <1>1, <1>2, <1>7, <2>1, EndsIs DEF PendingIn
<1>8. ASSUME NEW q \in Requests, Settle(q) PROVE FALSE
    <2>1. wire[r] # "none"
        BY <1>8 DEF Settle
    <2>2. q = r
        BY <1>1, <1>2, <1>8, <2>1, SettleIs DEF TurnIn
    <2> QED
        BY <1>1, <1>8, <2>1, <2>2 DEF Served, Settle
<1> QED
    BY <1>1, <1>3, <1>4, <1>5, <1>6, <1>7, <1>8 DEF Kind

LEMMA DeliveryKept ==
    ASSUME IInv, Next
    PROVE  DeliveryReconcilable' /\ Remembered'
<1>1. /\ TypeOK /\ TypeOK' /\ Asked /\ Served /\ Staged /\ DeliveryReconcilable /\ Remembered
      /\ Blank /\ Kind
    BY AllKinds DEF IInv
<1>2. Confirmed \subseteq Confirmed'
    BY DexGrows
<1>3. ASSUME conv # Null, NEW r \in Requests, r \in ToSet(conv.history)
      PROVE  relay'[r] = "over" /\ r \in Confirmed' /\ Once(conv.history, r)
    <2>1. relay[r] = "over" /\ Moves(r)
        BY <1>1, <1>3, AllMove DEF Remembered
    <2>2. ~Dispatch(r)
        BY <1>1, <2>1 DEF Asked, Dispatch
    <2>3. r \in Confirmed /\ Once(conv.history, r)
        BY <1>1, <1>3 DEF DeliveryReconcilable
    <2> QED
        BY <1>2, <2>1, <2>2, <2>3 DEF Moves
<1>4. ASSUME conv' # Null,
             \A r \in Requests : r \in ToSet(conv'.history) =>
                relay'[r] = "over" /\ r \in Confirmed' /\ Once(conv'.history, r),
             conv'.pending # Null =>
                /\ conv'.pending.request \notin ToSet(conv'.history)
                /\ \/ TurnIn(fence', conv'.pending.request, Phases)
                   \/ conv'.pending.phase = "inferred" /\ conv'.pending.request \in Confirmed'
      PROVE  DeliveryReconcilable' /\ Remembered'
    BY <1>4 DEF DeliveryReconcilable, Remembered, Once, TurnIn
<1>5. ASSUME conv # Null, conv' # Null, conv'.history = conv.history,
             conv'.pending # Null =>
                /\ conv'.pending.request \notin ToSet(conv.history)
                /\ \/ TurnIn(fence', conv'.pending.request, Phases)
                   \/ conv'.pending.phase = "inferred" /\ conv'.pending.request \in Confirmed'
      PROVE  DeliveryReconcilable' /\ Remembered'
    BY <1>3, <1>4, <1>5
<1>6. conv # Null /\ conv.pending # Null =>
        /\ conv.pending.request \notin ToSet(conv.history)
        /\ \/ TurnIn(fence, conv.pending.request, Phases)
           \/ conv.pending.phase = "inferred" /\ conv.pending.request \in Confirmed
    BY <1>1 DEF DeliveryReconcilable, Remembered
<1>7. conv' = Null => DeliveryReconcilable' /\ Remembered'
    BY DEF DeliveryReconcilable, Remembered
<1>8. CASE conv # Null /\ conv' # Null /\ fence.turn = Null
           /\ conv'.history = conv.history /\ conv'.pending = conv.pending
    BY <1>2, <1>5, <1>6, <1>8 DEF TurnIn
<1>9. CASE Writing
    <2>1. CASE conv # Null
        BY <1>8, <1>9, <2>1 DEF Writing, Wrote
    <2>2. CASE conv = Null /\ conv' # Null
        <3>1. /\ conv'.pending = Null /\ server.control # Null
              /\ conv'.history = server.control.seen
            BY <1>9, <2>2 DEF Writing, Wrote
        <3>2. Unasked(conv'.history)
            BY <1>1, <2>2, <3>1 DEF Blank
        <3> QED
            BY <1>4, <2>2, <3>1, <3>2 DEF Unasked
    <2> QED
        BY <1>7, <2>1, <2>2
<1>10. CASE RollbackOffers
    BY <1>1, <1>7, <1>8, <1>10, OffersIs DEF RollbackOffers
<1>11. CASE Doubting
    <2>1. CASE conv # Null
        <3>1. DoubtedFence(fence') /\ DoubtedConversation(conv') /\ conv' # Null
            BY <1>11, <2>1 DEF Doubting, DoubtedConversation
        <3>2. \A r : TurnIn(fence, r, Phases) => TurnIn(fence', r, Phases)
            BY <3>1 DEF DoubtedFence, TurnIn, Phases
        <3>3. /\ conv'.history = conv.history
              /\ conv'.pending = Null <=> conv.pending = Null
              /\ conv.pending # Null =>
                    /\ conv'.pending.request = conv.pending.request
                    /\ conv.pending.phase = "inferred" => conv'.pending.phase = "inferred"
            BY <2>1, <3>1 DEF DoubtedConversation
        <3> QED
            BY <1>2, <1>5, <1>6, <2>1, <3>1, <3>2, <3>3
    <2>2. CASE conv = Null
        BY <1>7, <1>11, <2>2 DEF Doubting, DoubtedConversation
    <2> QED
        BY <2>1, <2>2
<1>12. ASSUME NEW q \in Requests, Admit(q) \/ AdmitBreaks(q)
       PROVE  DeliveryReconcilable' /\ Remembered'
    BY <1>1, <1>7, <1>8, <1>12, AdmitIs, AdmitBreaksIs DEF Admit, AdmitBreaks
<1>13. ASSUME NEW q \in Requests, Send(q) \/ SendBreaks(q)
       PROVE  DeliveryReconcilable' /\ Remembered'
    <2>1. /\ conv # Null /\ conv' # Null /\ conv'.history = conv.history
          /\ conv'.pending.request = q /\ relay[q] = "admitted"
        BY <1>1, <1>13, SendIs, SendBreaksIs DEF Send, Sends
    <2>2. TurnIn(fence', q, Phases)
        <3>1. TurnIn(fence, q, {"dispatched"})
            BY <1>1, <2>1 DEF Served, Serving, TurnIn
        <3>2. UNCHANGED fence \/ DoubtedFence(fence')
            BY <1>1, <1>13, SendIs, SendBreaksIs
        <3> QED
            BY <3>1, <3>2 DEF DoubtedFence, TurnIn, Phases
    <2>3. q \notin ToSet(conv.history)
        BY <1>1, <2>1 DEF Remembered
    <2> QED
        BY <1>5, <2>1, <2>2, <2>3
<1>14. ASSUME NEW q \in Requests, StreamEnds(q) PROVE DeliveryReconcilable' /\ Remembered'
    <2>1. /\ conv # Null /\ conv' # Null /\ conv'.history = conv.history
          /\ conv.pending # Null /\ conv.pending.request = q /\ conv'.pending.request = q
          /\ UNCHANGED fence /\ relay[q] = "streaming"
        BY <1>1, <1>14, EndsIs DEF StreamEnds, PendingIn
    <2>2. TurnIn(fence', q, Phases)
        BY <1>1, <2>1 DEF Served, Serving, TurnIn, Phases
    <2> QED
        BY <1>5, <1>6, <2>1, <2>2
<1>15. ASSUME NEW q \in Requests, Settle(q) PROVE DeliveryReconcilable' /\ Remembered'
    <2>1. /\ conv # Null /\ PendingIn(conv, q, {"inferred"}) /\ conv.pending.request = q
          /\ q \in Confirmed
        BY <1>1, <1>15, SettleIs
    <2>2. CASE UNCHANGED conv
        BY <1>2, <1>5, <1>6, <2>1, <2>2 DEF PendingIn
    <2>3. CASE conv' # Null /\ conv'.history = Append(conv.history, q) /\ conv'.pending = Null
               /\ relay' = [relay EXCEPT ![q] = "over"]
        <3>1. q \notin ToSet(conv.history) /\ conv.history \in Histories
            BY <1>1, <1>6, <2>1, ConversationParts DEF TypeOK, PendingIn
        <3>2. /\ ToSet(conv'.history) = ToSet(conv.history) \cup {q}
              /\ Once(conv'.history, q)
              /\ \A r \in Requests : r # q /\ Once(conv.history, r) => Once(conv'.history, r)
            BY <2>3, <3>1, AppendPlaces, AppendOnce
        <3>3. relay'[q] = "over"
            BY <1>1, <2>3 DEF TypeOK
        <3> QED
            BY <1>2, <1>3, <1>4, <2>1, <2>3, <3>2, <3>3
    <2> QED
        BY <1>1, <1>15, <2>2, <2>3, SettleIs
<1> QED
    BY <1>1, <1>9, <1>10, <1>11, <1>12, <1>13, <1>14, <1>15 DEF Kind

\* The histories the page can hold: it says something itself, it is loaded
\* anew, or it is given the one it is under hydration with.
PageStep ==
    \/ page'.history = page.history
    \/ page'.history = <<>>
    \/ page'.history = Append(page.history, Chat)
    \/ page.admitted /\ page'.history = Append(page.history, Reply)
    \/ PageHydrates /\ page'.history = page.hydrating

LEMMA AllPageSteps ==
    ASSUME IInv, Next
    PROVE  PageStep
<1>1. TypeOK /\ page \in Pages
    BY DEF IInv, TypeOK, Pages
<1>2. CASE PageAsks
    <2>1. page'.history = Append(page.history, Chat)
        <3> PICK h : h = Append(page.history, Chat)
            OBVIOUS
        <3>1. page' = [page EXCEPT !.history = h, !.turn = Chat]
            BY <1>2 DEF PageAsks
        <3> QED
            BY <1>1, <3>1 DEF Pages
    <2> QED
        BY <2>1 DEF PageStep
<1>3. CASE PageAnswers
    <2>1. CASE page.turn = Chat
        BY <1>1, <1>3, <2>1, SaysIs, QuietIs DEF PageAnswers, PageStep
    <2>2. CASE page.turn # Chat
        BY <1>1, <1>3, <2>2, QuietIs DEF PageAnswers, PageStep
    <2> QED
        BY <2>1, <2>2
<1>4. CASE PageFails
    BY <1>1, <1>4, QuietIs DEF PageFails, PageStep
<1>5. CASE PageReloads
    BY <1>5 DEF PageReloads, PageStep
<1>6. CASE PageClears \/ PageHydrates
    BY <1>1, <1>6, ClearedIs, HydratedIs DEF PageStep
<1>7. CASE PageAdmitted \/ PageExports \/ PageCompares
    BY <1>1, <1>7 DEF PageAdmitted, PageExports, PageCompares, PageStep, Pages
<1>8. ASSUME NEW r \in Requests, RelayToPage(r) PROVE PageStep
    BY <1>1, <1>8 DEF RelayToPage, PageStep, Pages
<1>9. Paging \/ UNCHANGED page \/ \E r \in Requests : RelayToPage(r)
    BY DEF Next, Stages, Preflight, Prepare, Handoff, Activate, AuthorizeFirstInference,
           Rollback, RollbackOffers, RollbackCompletes, StageFails, Dispatch, Relaying,
           Find, StandAside, Admit, AdmitBreaks, RefuseTurn, Send, SendBreaks, SendRefused,
           StreamBreaks, StreamEnds, Commit, Settle, SettleRefused, GiveUp, Modelling,
           Arrive, EndUnheard, Lapse, LeaseLost, Crash, Start
<1> QED
    BY <1>2, <1>3, <1>4, <1>5, <1>6, <1>7, <1>8, <1>9 DEF Paging, PageStep

\* The stage that waits for the page, after a step: none, the same, a new one
\* that has seen nothing, or the same with what the page has shown it.
SeenStep ==
    \/ server'.control = Null
    \/ server'.control = server.control
    \/ server'.control.seen = <<>>
    \/ /\ server.control # Null
       /\ server'.control.seen \in {server.control.seen, page.history}

LEMMA AllSeenSteps ==
    ASSUME IInv, Next
    PROVE  SeenStep
<1>1. TypeOK /\ server \in Servers /\ Staged
    BY DEF IInv, TypeOK, Servers
<1>2. CASE Prepare \/ Handoff \/ Activate \/ RollbackCompletes
    BY <1>2, WritesIs DEF Writing, Broken, SeenStep
<1>3. CASE Preflight
    <2>1. server' = [server EXCEPT !.control = Control("preflight", "export", <<>>)]
        BY <1>3 DEF Preflight
    <2> QED
        BY <1>1, <2>1, ControlIs DEF SeenStep, Servers
<1>4. CASE Rollback
    <2>1. server' = [server EXCEPT !.control = Control("rollback", "export", <<>>)]
        BY <1>4 DEF Rollback
    <2> QED
        BY <1>1, <2>1, ControlIs DEF SeenStep, Servers
<1>5. CASE StageFails
    BY <1>1, <1>5 DEF StageFails, SeenStep, Servers
<1>6. CASE RollbackOffers
    BY <1>1, <1>6, OffersIs, NullFacts DEF SeenStep
<1>7. CASE PageExports
    <2> PICK control : control = [server.control EXCEPT !.at = "exported", !.seen = page.history]
        OBVIOUS
    <2>1. server.control \in Controls
        BY <1>1, <1>7 DEF PageExports, TypeOK
    <2>2. server' = [server EXCEPT !.control = control]
        BY <1>1, <1>7, <2>1 DEF PageExports, Servers, Controls
    <2>3. server'.control.seen = page.history
        BY <1>1, <2>1, <2>2 DEF Servers, Controls
    <2> QED
        BY <1>7, <2>3 DEF PageExports, SeenStep
<1>8. CASE PageHydrates /\ At("rollback", "hydrate")
    <2> PICK control : control = [server.control EXCEPT !.at = "hydrated"]
        OBVIOUS
    <2>1. server.control \in Controls /\ server.control # Null
        BY <1>1, <1>8 DEF At, TypeOK
    <2>2. server' = [server EXCEPT !.control = control]
        BY <1>1, <1>8, <2>1 DEF PageHydrates, Servers, Controls
    <2>3. server'.control.seen = server.control.seen
        BY <1>1, <2>1, <2>2 DEF Servers, Controls
    <2> QED
        BY <2>1, <2>3 DEF SeenStep
<1>9. CASE UNCHANGED server
    BY <1>9 DEF SeenStep
<1>10. CASE Dies \/ Start
    <2>1. server'.control = Null
        BY <1>10, DownIs DEF Dies, Start, Down
    <2> QED
        BY <2>1 DEF SeenStep
<1>11. ASSUME NEW r \in Requests, AuthorizeFirstInference(r) \/ Noting(r)
       PROVE  SeenStep
    <2>1. server'.control = server.control \/ Dies
        BY <1>1, <1>11, NotingIs DEF AuthorizeFirstInference, Servers
    <2> QED
        BY <1>10, <2>1 DEF SeenStep
<1>12. CASE LeaseLost
    BY <1>1, <1>12 DEF LeaseLost, Servers, SeenStep
<1> QED
    BY <1>2, <1>3, <1>4, <1>5, <1>6, <1>7, <1>8, <1>9, <1>10, <1>11, <1>12, OthersNoteNothing
       DEF Next, Stages, Paging, PageAsks, PageAdmitted, PageFails, PageAnswers, PageReloads,
           PageClears, PageCompares, PageHydrates, Lapse, Crash

LEMMA BlankKept ==
    ASSUME IInv, Next
    PROVE  Blank'
<1>1. TypeOK /\ Blank /\ Hydration /\ Kind /\ Served /\ Staged /\ PageStep /\ SeenStep
    BY AllKinds, AllPageSteps, AllSeenSteps DEF IInv
<1>2. CASE conv' # Null
    BY <1>2 DEF Blank
<1>3. CASE conv' = Null
    <2>1. conv = Null
        <3>1. CASE Writing \/ RollbackOffers \/ Doubting
            BY <1>3, <3>1
               DEF Writing, Wrote, RollbackOffers, Doubting, DoubtedConversation
        <3>2. ASSUME NEW r \in Requests,
                     \/ Admit(r) \/ AdmitBreaks(r) \/ Send(r) \/ SendBreaks(r)
                     \/ StreamEnds(r) \/ Settle(r)
              PROVE  conv = Null
            BY <1>1, <1>3, <3>2, SendIs, SendBreaksIs, EndsIs, SettleIs DEF Admit, AdmitBreaks
        <3> QED
            BY <1>1, <3>1, <3>2 DEF Kind
    <2>2. Unasked(page.history) /\ (server.control # Null => Unasked(server.control.seen))
        BY <1>1, <2>1 DEF Blank
    <2>3. Unasked(<<>>)
        BY EmptyHistory DEF Unasked
    <2>4. ASSUME NEW m \in {Chat, Reply} PROVE Unasked(Append(page.history, m))
        <3>1. ToSet(Append(page.history, m)) = ToSet(page.history) \cup {m}
            BY <1>1, AppendPlaces DEF TypeOK
        <3> QED
            BY <2>2, <3>1, NullFacts DEF Unasked
    <2>5. ~PageHydrates
        BY <1>1, <2>1 DEF PageHydrates, Hydration
    <2>6. Unasked(page'.history)
        BY <1>1, <2>2, <2>3, <2>4, <2>5 DEF PageStep
    <2>7. server'.control # Null => Unasked(server'.control.seen)
        BY <1>1, <2>2, <2>3 DEF SeenStep
    <2> QED
        BY <2>6, <2>7 DEF Blank, Unasked
<1> QED
    BY <1>2, <1>3

LEMMA LapseIs ==
    ASSUME TypeOK, UNCHANGED act \/ Lapse
    PROVE  /\ act' = Null <=> act = Null
           /\ act # Null => /\ act'.mode = act.mode /\ act'.session = act.session
                            /\ act'.generation = act.generation
                            /\ act'.workspace = act.workspace /\ act'.base = act.base
<1>1. CASE Lapse
    <2>1. /\ act \in Activations /\ act # Null /\ act' = [act EXCEPT !.expired = TRUE]
        BY <1>1 DEF Lapse, TypeOK
    <2>2. act' \in Activations
        BY <2>1 DEF Activations
    <2> QED
        BY <2>1, <2>2, NullFacts DEF Activations
<1> QED
    BY <1>1

\* What the next stages rely on does not see a turn of the server, nor a
\* lapse, nor the loss of the runtime.
LEMMA AgreedStays ==
    ASSUME TypeOK, Agreed,
           fence'.owner = fence.owner, fence'.generation = fence.generation,
           conv' = Null <=> conv = Null,
           conv # Null => conv'.generation = conv.generation,
           conv # Null => Replies(conv'.history) = Replies(conv.history),
           ~BackendOwns /\ conv # Null => conv'.history = conv.history,
           UNCHANGED act \/ Lapse, server'.runtime \in {server.runtime, Null}
    PROVE  Agreed'
<1>1. /\ act' = Null <=> act = Null
      /\ act # Null => /\ act'.mode = act.mode /\ act'.session = act.session
                       /\ act'.generation = act.generation
                       /\ act'.workspace = act.workspace /\ act'.base = act.base
    BY LapseIs
<1>2. BackendOwns' = BackendOwns /\ (BackendOwns => fence.owner # Null)
    BY NullFacts DEF BackendOwns
<1>3. fence'.owner # Null => conv' # Null /\ conv'.generation = fence'.generation
    BY DEF Agreed
<1>4. BackendOwns <=> act' # Null /\ act'.mode \in {"handed_off", "active"}
    BY <1>1 DEF Agreed
<1>5. BackendOwns => /\ IsOwner(fence', act'.session, act'.generation)
                     /\ Replies(act'.base) <= Replies(conv'.history)
    <2> SUFFICES ASSUME BackendOwns
                 PROVE  /\ IsOwner(fence', act'.session, act'.generation)
                        /\ Replies(act'.base) <= Replies(conv'.history)
        OBVIOUS
    <2>1. act # Null /\ conv # Null /\ IsOwner(fence, act.session, act.generation)
        BY <1>2 DEF Agreed
    <2>2. Replies(act.base) <= Replies(conv.history)
        BY DEF Agreed
    <2> QED
        BY <1>1, <2>1, <2>2 DEF IsOwner
<1>6. act' # Null /\ act'.mode = "prepared" =>
        /\ fence'.owner = act'.workspace /\ conv'.history = act'.base
        /\ act'.generation = fence'.generation + 1
    <2> SUFFICES ASSUME act # Null, act.mode = "prepared"
                 PROVE  /\ fence'.owner = act'.workspace /\ conv'.history = act'.base
                        /\ act'.generation = fence'.generation + 1
        BY <1>1
    <2>1. /\ ~BackendOwns /\ fence.owner = act.workspace /\ conv.history = act.base
          /\ act.generation = fence.generation + 1
        BY DEF Agreed
    <2>2. fence.owner # Null
        BY <2>1, NullFacts DEF TypeOK, Activations
    <2>3. conv # Null
        BY <2>2 DEF Agreed
    <2> QED
        BY <1>1, <2>1, <2>3
<1>7. server'.runtime # Null => server'.runtime = fence'.generation /\ BackendOwns
    BY DEF Agreed
<1> QED
    BY <1>2, <1>3, <1>4, <1>5, <1>6, <1>7 DEF Agreed, IsOwner, Replies

\* A stage that waits for the page goes on waiting while a turn comes into
\* doubt, a record lapses or a process starts.
LEMMA StagedStays ==
    ASSUME TypeOK, Staged, DoubtedFence(fence'), DoubtedConversation(conv'),
           UNCHANGED act \/ Lapse, UNCHANGED journal,
           server'.control \in {server.control, Null},
           server'.runtime \in {server.runtime, Null}
    PROVE  Staged'
<1>1. /\ fence'.owner = fence.owner /\ fence'.generation = fence.generation
      /\ fence'.handoff = fence.handoff /\ (fence.turn = Null => fence'.turn = Null)
      /\ BackendOwns' = BackendOwns
    BY DEF DoubtedFence, BackendOwns
<1>2. /\ conv' = Null <=> conv = Null
      /\ conv # Null =>
            /\ conv'.generation = conv.generation /\ conv'.history = conv.history
            /\ conv.pending = Null => conv'.pending = Null
    BY DEF DoubtedConversation
<1>3. Agreed => Agreed'
    BY <1>1, <1>2, AgreedStays
<1>4. ~journal'.unresolved \/ server'.control # Null => Agreed'
    BY <1>3 DEF Staged
<1>5. ~journal'.unresolved => fence'.handoff = Null
    BY <1>1 DEF Staged
<1>6. ASSUME server'.control # Null
      PROVE  /\ server'.control.stage = "rollback" => BackendOwns'
             /\ server'.control.at \in {"export", "exported"} => fence'.handoff = Null
             /\ server'.control.at \in {"hydrate", "hydrated"} =>
                   /\ server'.control.stage = "rollback"
                   /\ fence'.turn = Null /\ fence'.handoff # Null
                   /\ Proof(conv', fence'.generation)
                   /\ Undiverged(server.control.seen)'
    <2>1. server'.control = server.control /\ server.control # Null
        BY <1>6
    <2>2. server'.control.stage = "rollback" => BackendOwns'
        BY <1>1, <2>1 DEF Staged
    <2>3. server'.control.at \in {"export", "exported"} => fence'.handoff = Null
        BY <1>1, <2>1 DEF Staged
    <2>4. ASSUME server'.control.at \in {"hydrate", "hydrated"}
          PROVE  /\ server'.control.stage = "rollback"
                 /\ fence'.turn = Null /\ fence'.handoff # Null
                 /\ Proof(conv', fence'.generation)
                 /\ Undiverged(server.control.seen)'
        <3>1. /\ server.control.stage = "rollback" /\ fence.turn = Null
              /\ fence.handoff # Null /\ Proof(conv, fence.generation)
              /\ Undiverged(server.control.seen)
            BY <2>1, <2>4 DEF Staged
        <3>2. Proof(conv', fence'.generation)
            BY <1>1, <1>2, <3>1 DEF Proof
        <3>3. Undiverged(server.control.seen)'
            <4>1. BackendOwns /\ act # Null
                BY <2>1, <3>1 DEF Staged, Agreed
            <4>2. act'.base = act.base
                BY <4>1, LapseIs
            <4> QED
                BY <2>1, <3>1, <4>2 DEF Undiverged
        <3> QED
            BY <1>1, <2>1, <3>1, <3>2, <3>3
    <2> QED
        BY <2>2, <2>3, <2>4
<1> QED
    BY <1>4, <1>5, <1>6 DEF Staged, Proof, Undiverged

\* A turn of the server is no concern of a stage: none waits past the export.
LEMMA StagedServes ==
    ASSUME TypeOK, Staged, Held(fence'), conv # Null => conv' # Null, conv = Null => conv' = Null,
           conv # Null => conv'.generation = conv.generation,
           conv # Null => Replies(conv'.history) = Replies(conv.history),
           ~BackendOwns /\ conv # Null => conv'.history = conv.history,
           fence.turn # Null \/ fence.handoff = Null,
           UNCHANGED <<act, journal>>,
           server'.control \in {server.control, Null},
           server'.runtime \in {server.runtime, Null}
    PROVE  Staged'
<1>1. /\ fence'.owner = fence.owner /\ fence'.generation = fence.generation
      /\ fence'.handoff = fence.handoff /\ BackendOwns' = BackendOwns
    BY DEF Held, BackendOwns
<1>2. Agreed => Agreed'
    BY <1>1, AgreedStays
<1>3. server.control # Null => server.control.at \notin {"hydrate", "hydrated"}
    BY DEF Staged
<1>4. ~journal'.unresolved \/ server'.control # Null => Agreed'
    BY <1>2 DEF Staged
<1>5. server'.control # Null =>
        /\ server'.control.stage = "rollback" => BackendOwns'
        /\ server'.control.at \in {"export", "exported"} => fence'.handoff = Null
        /\ server'.control.at \notin {"hydrate", "hydrated"}
    BY <1>1, <1>3 DEF Staged
<1> QED
    BY <1>1, <1>4, <1>5 DEF Staged

LEMMA StagedKept ==
    ASSUME IInv, Next
    PROVE  Staged'
<1>1. /\ TypeOK /\ Process /\ Asked /\ Served /\ Staged /\ server \in Servers
      /\ DoubtedFence(fence) /\ DoubtedConversation(conv)
    BY SameIsDoubted DEF IInv, TypeOK, Servers
<1>2. CASE server'.control = Null /\ journal'.unresolved
    BY <1>2 DEF Staged
<1>3. CASE /\ UNCHANGED <<fence, conv, act, journal>>
           /\ server'.control \in {server.control, Null}
           /\ server'.runtime \in {server.runtime, Null}
    BY <1>1, <1>3, StagedStays
<1>4. CASE Prepare \/ Handoff \/ Activate \/ RollbackCompletes
    <2>1. Broken \/ (Agreed' /\ fence'.handoff = Null /\ server'.control = Null)
        BY <1>4, WritesIs DEF Writing, Broken
    <2> QED
        BY <1>2, <2>1 DEF Broken, Staged
<1>5. CASE StageFails
    <2>1. server'.control = Null /\ journal'.unresolved
        BY <1>1, <1>5 DEF StageFails, Opened, Servers, TypeOK
    <2> QED
        BY <1>2, <2>1
<1>6. CASE Preflight \/ Rollback
    <2>1. /\ ~journal.unresolved /\ fence.handoff = Null /\ Agreed
          /\ UNCHANGED <<fence, conv, act>> /\ journal' = Opened(journal)
        BY <1>1, <1>6 DEF Preflight, Rollback, GateOpen, Staged, files
    <2>2. journal'.unresolved
        BY <1>1, <2>1 DEF Opened, TypeOK
    <2>3. \E stage \in {"preflight", "rollback"} :
            /\ server' = [server EXCEPT !.control = Control(stage, "export", <<>>)]
            /\ stage = "rollback" => BackendOwns
        BY <1>6 DEF Preflight, Rollback
    <2>4. /\ server'.runtime = server.runtime
          /\ server'.control.at = "export"
          /\ server'.control.stage = "rollback" => BackendOwns
        BY <1>1, <2>3, ControlIs, ServerIs
    <2>5. Agreed'
        BY <1>1, <2>1, <2>4, AgreedStays
    <2> QED
        BY <2>1, <2>2, <2>4, <2>5 DEF Staged, BackendOwns
<1>7. CASE RollbackOffers
    <2>1. /\ fence'.owner = fence.owner /\ fence'.generation = fence.generation
          /\ fence'.handoff # Null /\ fence'.turn = Null
          /\ server'.control.stage = "rollback" /\ server'.control.at = "hydrate"
          /\ server'.control.seen = server.control.seen /\ server'.runtime = server.runtime
        BY <1>1, <1>7, OffersIs
    <2>2. /\ Undiverged(server.control.seen) /\ Proof(conv, fence.generation)
          /\ UNCHANGED <<conv, act, journal>> /\ server.control # Null
          /\ server.control.stage = "rollback"
        BY <1>7 DEF RollbackOffers, At
    <2>3. Agreed /\ BackendOwns /\ journal.unresolved
        BY <1>1, <2>2 DEF Staged, Process
    <2>4. Agreed'
        BY <1>1, <2>1, <2>2, <2>3, AgreedStays
    <2>5. BackendOwns' /\ Proof(conv', fence'.generation) /\ Undiverged(server.control.seen)'
        BY <2>1, <2>2, <2>3 DEF BackendOwns, Proof, Undiverged
    <2> QED
        BY <2>1, <2>2, <2>3, <2>4, <2>5 DEF Staged, Proof, Undiverged
<1>8. ASSUME NEW r \in Requests, AuthorizeFirstInference(r) PROVE Staged'
    <2>1. server.control = Null
        BY <1>1, <1>8 DEF AuthorizeFirstInference, GateOpen, Process
    <2>2. /\ UNCHANGED <<fence, conv, act>>
          /\ server'.control = server.control /\ server'.runtime = server.runtime
        BY <1>1, <1>8 DEF AuthorizeFirstInference, files, Servers
    <2>3. journal'.unresolved \/ journal'.unresolved = journal.unresolved
        BY <1>1, <1>8 DEF AuthorizeFirstInference, TypeOK
    <2>4. ASSUME ~journal'.unresolved PROVE Agreed' /\ fence'.handoff = Null
        BY <1>1, <2>2, <2>3, <2>4, AgreedStays DEF Staged
    <2> QED
        BY <2>1, <2>2, <2>4 DEF Staged
<1>9. ASSUME NEW r \in Requests, Admit(r) \/ AdmitBreaks(r) PROVE Staged'
    <2>1. Held(fence') /\ UNCHANGED <<conv, act, journal>> /\ fence.handoff = Null
        BY <1>1, <1>9, AdmitIs, AdmitBreaksIs DEF Admit, AdmitBreaks, Claims, SeamAsked
    <2>2. /\ server'.control \in {server.control, Null}
          /\ server'.runtime \in {server.runtime, Null}
        BY <1>1, <1>9, NotingIs, DownIs DEF Noting, Dies
    <2> QED
        BY <1>1, <2>1, <2>2, StagedServes
<1>10. ASSUME NEW r \in Requests, Send(r) \/ StreamEnds(r) PROVE Staged'
    <2>1. UNCHANGED <<fence, act, journal, server>> /\ fence.turn # Null
        <3>1. relay[r] \in {"admitted", "streaming"}
            BY <1>10 DEF Send, Sends, StreamEnds
        <3> QED
            BY <1>1, <1>10, <3>1 DEF Send, StreamEnds, Served, Serving, TurnIn
    <2>2. /\ conv # Null /\ conv' # Null /\ conv'.generation = conv.generation
          /\ conv'.history = conv.history
        BY <1>1, <1>10, SendIs, EndsIs
    <2>3. Held(fence')
        BY <1>1, <2>1 DEF Held, TypeOK
    <2> QED
        BY <1>1, <2>1, <2>2, <2>3, StagedServes
<1>11. ASSUME NEW r \in Requests, Settle(r) PROVE Staged'
    <2>1. Held(fence') /\ UNCHANGED <<act, journal>> /\ fence.turn # Null /\ BackendOwns
        BY <1>1, <1>11, SettleIs DEF Settle, TurnIn, Asked
    <2>2. /\ server'.control \in {server.control, Null}
          /\ server'.runtime \in {server.runtime, Null}
        BY <1>1, <1>11, NotingIs, DownIs DEF Noting, Dies
    <2>3. /\ conv # Null /\ conv' # Null /\ conv'.generation = conv.generation
          /\ conv'.history \in {conv.history, Append(conv.history, r)}
        BY <1>1, <1>11, SettleIs
    <2>4. Replies(conv'.history) = Replies(conv.history)
        <3>1. conv.history \in Histories
            BY <1>1, <2>3, ConversationParts DEF TypeOK
        <3> QED
            BY <2>3, <3>1, AppendReplies
    <2> QED
        BY <1>1, <2>1, <2>2, <2>3, <2>4, StagedServes
<1>12. ASSUME NEW r \in Requests, Faltering(r) PROVE Staged'
    <2>1. DoubtedFence(fence') /\ DoubtedConversation(conv')
        BY <1>1, <1>12, FailureTypes DEF Faltering, Doubting
    <2>2. UNCHANGED <<act, journal, server>>
        BY <1>12 DEF Faltering, SendRefused, StreamBreaks, SettleRefused
    <2> QED
        BY <1>1, <2>1, <2>2, StagedStays
<1>13. ASSUME NEW r \in Requests, RefuseTurn(r) \/ StandAside(r) PROVE Staged'
    <2>1. server'.control = server.control /\ server'.runtime = server.runtime
        BY <1>1, <1>13 DEF RefuseTurn, StandAside, Servers
    <2> QED
        BY <1>3, <1>13, <2>1 DEF RefuseTurn, StandAside, files
<1>14. CASE UNCHANGED <<files, journal, server>>
    BY <1>3, <1>14 DEF files
<1>15. CASE PageExports \/ (PageHydrates /\ At("rollback", "hydrate"))
    <2>1. /\ server.control # Null /\ server.control \in Controls
          /\ UNCHANGED <<fence, conv, act, journal>>
        BY <1>1, <1>15 DEF PageExports, PageHydrates, At, TypeOK, files
    <2>2. PICK control :
            control = IF PageExports
                        THEN [server.control EXCEPT !.at = "exported", !.seen = page.history]
                        ELSE [server.control EXCEPT !.at = "hydrated"]
        OBVIOUS
    <2>3. server' = [server EXCEPT !.control = control]
        BY <1>1, <1>15, <2>1, <2>2 DEF PageExports, PageHydrates, Servers, Controls
    <2>4. /\ server'.control = control /\ server'.runtime = server.runtime
          /\ control.stage = server.control.stage
          /\ \/ server.control.at = "export" /\ control.at = "exported"
             \/ /\ server.control.at = "hydrate" /\ control.at = "hydrated"
                /\ control.seen = server.control.seen
        BY <1>1, <1>15, <2>1, <2>2, <2>3 DEF PageExports, PageHydrates, At, Servers, Controls
    <2>5. Agreed' /\ journal.unresolved
        BY <1>1, <2>1, <2>4, AgreedStays DEF Staged, Process
    <2>6. /\ server.control.stage = "rollback" => BackendOwns
          /\ server.control.at = "export" => fence.handoff = Null
          /\ server.control.at = "hydrate" =>
                /\ server.control.stage = "rollback"
                /\ fence.turn = Null /\ fence.handoff # Null
                /\ Proof(conv, fence.generation)
                /\ Undiverged(server.control.seen)
        BY <1>1, <2>1 DEF Staged
    <2> QED
        BY <2>1, <2>4, <2>5, <2>6 DEF Staged, Proof, Undiverged, BackendOwns
<1>16. CASE Lapse
    BY <1>1, <1>16, StagedStays DEF Lapse
<1>17. CASE LeaseLost
    <2>1. server'.control = server.control /\ server'.runtime = Null
        BY <1>1, <1>17 DEF LeaseLost, Servers
    <2> QED
        BY <1>3, <1>17, <2>1 DEF LeaseLost, files
<1>18. CASE Crash
    <2>1. server'.control = Null /\ server'.runtime = Null
        BY <1>18, DownIs DEF Crash, Dies
    <2> QED
        BY <1>3, <1>18, <2>1 DEF Crash, files
<1>19. CASE Start
    <2>1. server'.control = Null /\ server'.runtime = Null
        BY <1>19 DEF Start, Down
    <2>2. DoubtedFence(fence') /\ DoubtedConversation(conv')
        BY <1>1, <1>19, StartIsDoubting DEF Doubting
    <2> QED
        BY <1>1, <1>19, <2>1, <2>2, StagedStays DEF Start
<1>20. ASSUME NEW r \in Requests, SendBreaks(r) PROVE Staged'
    <2>1. /\ conv # Null /\ conv' # Null /\ conv'.generation = conv.generation
          /\ conv'.history = conv.history /\ DoubtedFence(fence') /\ relay[r] = "admitted"
        BY <1>1, <1>20, SendBreaksIs
    <2>2. Held(fence') /\ fence.turn # Null
        BY <1>1, <2>1 DEF DoubtedFence, Held, Served, Serving, TurnIn
    <2>3. /\ server'.control \in {server.control, Null}
          /\ server'.runtime \in {server.runtime, Null}
          /\ UNCHANGED <<act, journal>>
        BY <1>1, <1>20, NotingIs, DownIs DEF SendBreaks, Noting, Dies
    <2> QED
        BY <1>1, <2>1, <2>2, <2>3, StagedServes
<1>21. ASSUME NEW r \in Requests, Dispatch(r) \/ Relaying(r) \/ GiveUp(r) \/ Modelling(r)
       PROVE  Staged'
    BY <1>9, <1>10, <1>11, <1>12, <1>13, <1>14, <1>20, <1>21
       DEF Dispatch, Relaying, Find, RelayToPage, Faltering, Commit, GiveUp, Modelling, Arrive,
           EndUnheard
<1>22. CASE Paging
    BY <1>14, <1>15, <1>22
       DEF Paging, PageAsks, PageAdmitted, PageFails, PageAnswers, PageReloads, PageClears,
           PageCompares, PageHydrates
<1>23. CASE Stages
    BY <1>4, <1>5, <1>6, <1>7, <1>8, <1>23 DEF Stages
<1> QED
    BY <1>16, <1>17, <1>18, <1>19, <1>21, <1>22, <1>23 DEF Next

LEMMA HydrationKept ==
    ASSUME IInv, Next
    PROVE  Hydration'
<1>1. /\ TypeOK /\ TypeOK' /\ Process /\ Asked /\ Served /\ Staged /\ Hydration /\ Kind
      /\ PageStep /\ page \in Pages /\ server \in Servers
    BY AllKinds, AllPageSteps DEF IInv, TypeOK, Pages, Servers
<1>2. CASE UNCHANGED page
    <2>1. page'.admitted => page'.turn # Null
        BY <1>1, <1>2 DEF Hydration
    <2>2. ASSUME page.hydrating # Null
          PROVE  /\ BackendOwns' /\ journal'.unresolved /\ conv' # Null
                 /\ server'.control # Null => At("rollback", "hydrate")'
        <3>1. /\ BackendOwns /\ journal.unresolved /\ conv # Null
              /\ server.control # Null => At("rollback", "hydrate")
            BY <1>1, <2>2 DEF Hydration
        <3>2. ~Writing
            BY <2>2 DEF Writing
        <3>3. BackendOwns'
            <4>1. CASE RollbackOffers \/ Doubting
                BY <1>1, <3>1, <4>1, OffersIs DEF Doubting, DoubtedFence, BackendOwns
            <4>2. ASSUME NEW r \in Requests,
                         \/ Admit(r) \/ AdmitBreaks(r) \/ Send(r) \/ SendBreaks(r)
                         \/ StreamEnds(r) \/ Settle(r)
                  PROVE  BackendOwns'
                BY <1>1, <3>1, <4>2, AdmitIs, AdmitBreaksIs, SendIs, SendBreaksIs, SettleIs
                   DEF StreamEnds, Held, DoubtedFence, BackendOwns
            <4> QED
                BY <1>1, <3>2, <4>1, <4>2 DEF Kind
        <3>4. conv' # Null
            <4>1. CASE RollbackOffers \/ Doubting
                BY <3>1, <4>1 DEF RollbackOffers, Doubting, DoubtedConversation
            <4>2. ASSUME NEW r \in Requests,
                         \/ Admit(r) \/ AdmitBreaks(r) \/ Send(r) \/ SendBreaks(r)
                         \/ StreamEnds(r) \/ Settle(r)
                  PROVE  conv' # Null
                BY <1>1, <3>1, <4>2, SendIs, SendBreaksIs, EndsIs, SettleIs
                   DEF Admit, AdmitBreaks
            <4> QED
                BY <1>1, <3>2, <4>1, <4>2 DEF Kind
        <3>5. CASE UNCHANGED journal /\ server'.control \in {server.control, Null}
            BY <3>1, <3>3, <3>4, <3>5 DEF At
        <3>6. ~Prepare /\ ~Handoff /\ ~Activate /\ ~RollbackCompletes
            BY <3>2, WritesIs
        <3>7. ~Preflight /\ ~Rollback /\ \A r \in Requests : ~AuthorizeFirstInference(r)
            BY <3>1 DEF Preflight, Rollback, AuthorizeFirstInference, GateOpen
        <3>8. ~RollbackOffers /\ ~PageExports
            BY <3>1 DEF RollbackOffers, PageExports, At
        <3>9. CASE StageFails
            <4>1. server'.control = Null /\ journal'.unresolved
                BY <1>1, <3>9 DEF StageFails, Opened, Servers, TypeOK
            <4> QED
                BY <3>3, <3>4, <4>1
        <3>10. ASSUME NEW r \in Requests, Dispatch(r) \/ Relaying(r) \/ GiveUp(r) \/ Modelling(r)
               PROVE  UNCHANGED journal /\ server'.control \in {server.control, Null}
            BY <1>1, <3>10, OthersNoteNothing, NotingIs, DownIs DEF Dies
        <3>11. CASE Lapse \/ LeaseLost \/ Crash \/ Start
            <4>1. server'.control \in {server.control, Null} /\ UNCHANGED journal
                BY <1>1, <3>11, DownIs DEF Lapse, LeaseLost, Crash, Start, Dies, Down, Servers
            <4> QED
                BY <3>5, <4>1
        <3>12. CASE Paging
            <4>1. ~PageHydrates
                BY <1>1, <1>2, <2>2, HydratedIs
            <4>2. UNCHANGED journal /\ UNCHANGED server
                BY <3>8, <3>12, <4>1
                   DEF Paging, PageAsks, PageAdmitted, PageFails, PageAnswers, PageReloads,
                       PageClears, PageCompares
            <4> QED
                BY <3>5, <4>2
        <3> QED
            BY <3>5, <3>6, <3>7, <3>8, <3>9, <3>10, <3>11, <3>12 DEF Next, Stages
    <2> QED
        BY <1>1, <1>2, <2>1, <2>2 DEF Hydration, Replies
<1>3. CASE Paging
    <2>1. /\ UNCHANGED <<fence, conv, journal>>
          /\ page.hydrating # Null => ~page.admitted /\ ~BrowserOwnerAllowed
        <3>1. UNCHANGED <<fence, conv, journal>>
            BY <1>3 DEF Paging, PageAsks, PageAdmitted, PageFails, PageAnswers, PageReloads,
                        PageClears, PageExports, PageCompares, PageHydrates, files
        <3>2. BackendOwns => ~BrowserOwnerAllowed
            BY HostAssumption, NullFacts DEF BackendOwns, BrowserOwnerAllowed
        <3> QED
            BY <1>1, <3>1, <3>2 DEF Hydration
    <2>2. page'.admitted => page'.turn # Null
        <3>1. CASE PageFails \/ PageAnswers
            <4>1. page'.admitted = FALSE
                BY <1>1, <3>1, QuietIs, SaysIs DEF PageFails, PageAnswers
            <4> QED
                BY <4>1
        <3>2. CASE PageReloads
            BY <3>2 DEF PageReloads
        <3>3. CASE PageAsks \/ PageAdmitted \/ PageCompares \/ PageExports
            <4>1. page'.admitted = page.admitted \/ page'.turn # Null
                BY <1>1, <3>3, NullFacts
                   DEF PageAsks, PageAdmitted, PageCompares, PageExports, Pages
            <4>2. page'.turn = page.turn \/ page'.turn # Null
                BY <1>1, <3>3, NullFacts
                   DEF PageAsks, PageAdmitted, PageCompares, PageExports, Pages
            <4> QED
                BY <1>1, <4>1, <4>2 DEF Hydration
        <3>4. CASE PageClears \/ PageHydrates
            BY <1>1, <3>4, ClearedIs, HydratedIs
        <3> QED
            BY <1>3, <3>1, <3>2, <3>3, <3>4 DEF Paging
    <2>3. CASE PageCompares
        <3>1. /\ server.control # Null /\ At("rollback", "hydrate")
              /\ page.history = server.control.seen /\ page.turn = Null
              /\ page'.history = page.history /\ page'.hydrating = conv.history
              /\ page'.admitted = page.admitted /\ UNCHANGED <<act, server>>
            BY <1>1, <2>3 DEF PageCompares, At, Pages, files
        <3>2. /\ Agreed /\ BackendOwns /\ journal.unresolved /\ Undiverged(server.control.seen)
              /\ conv # Null
            BY <1>1, <3>1 DEF At, Staged, Process, Proof
        <3>3. Replies(page.history) <= Replies(conv.history)
            <4>1. CASE page.history = <<>>
                <5>1. conv.history \in Histories
                    BY <1>1, <3>2, ConversationParts DEF TypeOK
                <5> QED
                    BY <4>1, <5>1, EmptyHistory, RepliesNat
            <4>2. CASE page.history = act.base
                BY <3>2, <4>2 DEF Agreed
            <4> QED
                BY <3>1, <3>2, <4>1, <4>2 DEF Undiverged
        <3>4. ~page'.admitted
            BY <1>1, <3>1 DEF Hydration
        <3>5. Replies(page'.history) <= Replies(page'.hydrating)
            BY <3>1, <3>3
        <3> QED
            BY <2>1, <2>2, <3>1, <3>2, <3>4, <3>5 DEF Hydration, BackendOwns, At, Replies
    <2>4. CASE ~PageCompares /\ page'.hydrating # Null
        <3>1. /\ page'.hydrating = page.hydrating /\ ~PageHydrates
              /\ page'.admitted \in {page.admitted, FALSE} \/ PageAdmitted
            <4>1. ~PageHydrates /\ ~PageReloads
                <5>1. PageReloads => page'.hydrating = Null
                    BY DEF PageReloads
                <5>2. PageHydrates => page'.hydrating = Null
                    BY <1>1, HydratedIs
                <5> QED
                    BY <2>4, <5>1, <5>2
            <4>2. CASE PageAsks
                <5> PICK h : h = Append(page.history, Chat)
                    OBVIOUS
                <5>1. page' = [page EXCEPT !.history = h, !.turn = Chat]
                    BY <4>2 DEF PageAsks
                <5> QED
                    BY <1>1, <4>1, <5>1 DEF Pages
            <4>3. CASE PageFails
                BY <1>1, <4>1, <4>3, QuietIs DEF PageFails
            <4>4. CASE PageAnswers
                BY <1>1, <4>1, <4>4, QuietIs, SaysIs DEF PageAnswers
            <4>5. CASE PageAdmitted \/ PageExports
                BY <1>1, <4>1, <4>5 DEF PageAdmitted, PageExports, Pages
            <4>6. CASE PageClears
                BY <1>1, <4>1, <4>6, ClearedIs
            <4> QED
                BY <1>3, <2>4, <4>1, <4>2, <4>3, <4>4, <4>5, <4>6 DEF Paging
        <3>2. /\ BackendOwns /\ journal.unresolved /\ ~page.admitted /\ conv # Null
              /\ server.control # Null => At("rollback", "hydrate")
              /\ Replies(page.history) <= Replies(page.hydrating)
            BY <1>1, <2>4, <3>1 DEF Hydration
        <3>3. UNCHANGED server /\ ~PageAdmitted
            BY <1>3, <2>1, <2>4, <3>1, <3>2
               DEF Paging, PageAsks, PageAdmitted, PageFails, PageAnswers, PageReloads,
                   PageClears, PageExports, PageHydrates, At
        <3>4. ~page'.admitted
            BY <3>1, <3>2, <3>3
        <3>5. Replies(page'.history) <= Replies(page'.hydrating)
            <4>1. page.history \in Histories /\ page.hydrating \in Histories
                BY <1>1, <2>4, <3>1 DEF Pages
            <4>2. Replies(<<>>) <= Replies(page.hydrating)
                BY <4>1, EmptyHistory, RepliesNat
            <4>3. Replies(Append(page.history, Chat)) = Replies(page.history)
                BY <4>1, AppendReplies
            <4> QED
                BY <1>1, <3>1, <3>2, <4>2, <4>3 DEF PageStep
        <3> QED
            BY <2>1, <2>2, <3>1, <3>2, <3>3, <3>4, <3>5 DEF Hydration, BackendOwns, At, Replies
    <2>5. CASE page'.hydrating = Null
        BY <2>2, <2>5 DEF Hydration
    <2> QED
        BY <2>3, <2>4, <2>5
<1>4. ASSUME NEW r \in Requests, RelayToPage(r) PROVE Hydration'
    <2>1. /\ UNCHANGED <<fence, conv, journal, server>> /\ page.turn = Null /\ ~BackendOwns
          /\ page'.admitted = page.admitted /\ page'.hydrating = page.hydrating
        BY <1>1, <1>4 DEF RelayToPage, Pages, files
    <2>2. ~page'.admitted /\ page'.hydrating = Null
        BY <1>1, <2>1 DEF Hydration
    <2> QED
        BY <2>2 DEF Hydration
<1>5. Paging \/ UNCHANGED page \/ \E r \in Requests : RelayToPage(r)
    BY DEF Next, Stages, Preflight, Prepare, Handoff, Activate, AuthorizeFirstInference,
           Rollback, RollbackOffers, RollbackCompletes, StageFails, Dispatch, Relaying,
           Find, StandAside, Admit, AdmitBreaks, RefuseTurn, Send, SendBreaks, SendRefused,
           StreamBreaks, StreamEnds, Commit, Settle, SettleRefused, GiveUp, Modelling,
           Arrive, EndUnheard, Lapse, LeaseLost, Crash, Start
<1> QED
    BY <1>2, <1>3, <1>4, <1>5

-----------------------------------------------------------------------------
(* The invariant.                                                          *)

LEMMA InitInv == Init => IInv
<1> SUFFICES ASSUME Init PROVE IInv
    OBVIOUS
<1>1. /\ fence = Empty /\ conv = Null /\ act = Null
      /\ journal = [unresolved |-> FALSE, granted |-> FALSE]
      /\ dex = [current |-> Null, asked |-> {}, completed |-> {}, receipts |-> {}]
      /\ server = Down /\ used = {} /\ forwards \in Forwarding
      /\ relay = [r \in Requests |-> "idle"] /\ wire = [r \in Requests |-> "none"]
      /\ page \in [workspace : Browsers, history : {<<>>}, turn : {Null},
                   admitted : {FALSE}, hydrating : {Null}]
    BY DEF Init
<1>2. /\ Sound(fence) /\ fence.owner = Null /\ fence.turn = Null /\ fence.handoff = Null
      /\ ~BackendOwns
    BY <1>1, EmptySound, NullFacts DEF Empty, BackendOwns
<1>3. /\ page.history = <<>> /\ page.turn = Null /\ page.admitted = FALSE
      /\ page.hydrating = Null /\ page \in Pages
    BY <1>1, EmptyHistory DEF Pages
<1>4. server \in Servers /\ ~Up /\ server.control = Null /\ server.runtime = Null
    BY <1>1, DownIs DEF Up
<1>5. TypeOK
    <2>1. relay \in [Requests -> RelayPhases]
        BY <1>1 DEF RelayPhases
    <2>2. forwards \in BOOLEAN
        BY <1>1, ForwardingAssumption
    <2> QED
        BY <1>1, <1>2, <1>3, <1>4, <2>1, <2>2 DEF TypeOK, Servers, Pages
<1>6. Process /\ Blank /\ Staged /\ Hydration
    <2>1. Agreed
        BY <1>1, <1>2, <1>4 DEF Agreed
    <2>2. Unasked(page.history)
        BY <1>3, EmptyHistory DEF Unasked
    <2> QED
        BY <1>1, <1>2, <1>3, <1>4, <2>1, <2>2 DEF Process, Blank, Staged, Hydration
<1>7. Asked
    BY <1>1, <1>2, <1>3, NullFacts DEF Asked
<1>8. Served /\ TurnAttended /\ Pinned
    BY <1>1, <1>2, <1>4 DEF Served, Serving, TurnAttended, Pinned, TurnIn
<1>9. DeliveryReconcilable /\ Remembered
    BY <1>1 DEF DeliveryReconcilable, Remembered
<1> QED
    BY <1>5, <1>6, <1>7, <1>8, <1>9 DEF IInv

LEMMA StepInv ==
    ASSUME IInv, [Next]_vars
    PROVE  IInv'
<1>1. CASE Next
    <2>1. TypeOK'
        BY <1>1, AllKinds
    <2>2. Process' /\ Asked' /\ Served' /\ TurnAttended' /\ Pinned'
        BY <1>1, ProcessKept, AskedKept, ServedKept, AttendedKept, PinnedKept
    <2>3. DeliveryReconcilable' /\ Remembered' /\ Blank' /\ Staged' /\ Hydration'
        BY <1>1, DeliveryKept, BlankKept, StagedKept, HydrationKept
    <2> QED
        BY <2>1, <2>2, <2>3 DEF IInv
<1>2. CASE UNCHANGED vars
    <2>1. /\ UNCHANGED <<fence, conv, act, journal, dex, server, used, forwards, relay, wire>>
          /\ UNCHANGED page
        BY <1>2 DEF vars, files
    <2>2. TypeOK' /\ Process' /\ Asked' /\ Served' /\ TurnAttended' /\ Pinned'
        BY <2>1 DEF IInv, TypeOK, Process, Up, Asked, BackendOwns, Served, TurnAttended, Sourced,
                    Pinned, TurnIn, PendingIn
    <2>3. DeliveryReconcilable' /\ Remembered' /\ Blank'
        BY <2>1 DEF IInv, DeliveryReconcilable, Confirmed, Once, TurnIn, Remembered, Blank,
                    Unasked
    <2>4. Staged' /\ Hydration'
        BY <2>1 DEF IInv, Staged, Agreed, BackendOwns, IsOwner, Replies, Proof, Undiverged,
                    Hydration, At
    <2> QED
        BY <2>2, <2>3, <2>4 DEF IInv
<1> QED
    BY <1>1, <1>2

LEMMA Invariance == Spec => []IInv
<1> QED
    BY InitInv, StepInv, PTL DEF Spec

-----------------------------------------------------------------------------
(* The theorems.                                                           *)

\* Whatever a stage leaves half done, and whenever a process dies, the files,
\* the memory and the page hold values the code can read back; in particular
\* the ownership record is always sound.
THEOREM DeploymentTyped == Spec => []TypeOK
<1>1. IInv => TypeOK
    BY DEF IInv
<1> QED
    BY <1>1, Invariance, PTL

\* No stage, crash or restart takes the ownership from under a turn the model
\* works on, or makes the fence or the conversation forget it.
THEOREM InferenceAlwaysPinned == Spec => []InferencePinned
<1>1. ASSUME IInv PROVE InferencePinned
    <2>1. TypeOK /\ Pinned /\ Asked
        BY <1>1 DEF IInv
    <2> SUFFICES ASSUME NEW r \in Requests, wire[r] = "inferring"
                 PROVE  /\ BackendOwns
                        /\ TurnIn(fence, r, {"dispatched", "unknown"})
                        /\ fence.turn.ownerGeneration = fence.generation
                        /\ conv.generation = fence.generation
                        /\ PendingIn(conv, r, {"dispatched", "unknown"})
        BY DEF InferencePinned
    <2>2. /\ TurnIn(fence, r, {"dispatched", "unknown"}) /\ fence.turn # Null
          /\ conv.generation = fence.generation
          /\ PendingIn(conv, r, {"dispatched", "unknown"})
        BY <2>1 DEF Pinned, TurnIn
    <2>3. BackendOwns /\ fence.turn.ownerGeneration = fence.generation
        BY <2>1, <2>2 DEF Asked, TypeOK, Sound, TurnPinned
    <2> QED
        BY <2>2, <2>3
<1> QED
    BY <1>1, Invariance, PTL

\* A turn the fence has let go of is one whose answer Dex has, and a turn in
\* the history is there once and confirmed.
THEOREM AlwaysReconcilable == Spec => []DeliveryReconcilable
<1>1. IInv => DeliveryReconcilable
    BY DEF IInv
<1> QED
    BY <1>1, Invariance, PTL

\* As long as no stage is unresolved, the three files and the memory of the
\* process tell one story, although each is written by itself.
THEOREM StoresAlwaysAgree == Spec => []StoresAgree
<1>1. IInv => StoresAgree
    BY DEF IInv, Staged, Agreed, StoresAgree
<1> QED
    BY <1>1, Invariance, PTL

\* No process leaves a dispatched turn behind that nobody works on.
THEOREM TurnAlwaysAttended == Spec => []TurnAttended
<1>1. IInv => TurnAttended
    BY DEF IInv
<1> QED
    BY <1>1, Invariance, PTL

\* The page never loses an answer to the history it is given back, although
\* it compares the histories before and replaces its own after an await.
THEOREM AnswersAlwaysKept == Spec => AnswersKept
<1> DEFINE Kept == page.hydrating # Null /\ page'.hydrating = Null /\ page'.history # <<>> =>
                      Replies(page'.history) >= Replies(page.history)
<1>1. ASSUME IInv, [Next]_vars PROVE [Kept]_vars
    <2>1. CASE UNCHANGED vars
        BY <2>1
    <2>2. ASSUME Next, page.hydrating # Null, page'.hydrating = Null, page'.history # <<>>
          PROVE  Replies(page'.history) >= Replies(page.history)
        <3>1. /\ PageStep /\ ~page.admitted /\ Replies(page.history) <= Replies(page.hydrating)
              /\ page.history \in Histories /\ page.hydrating \in Histories
            BY <1>1, <2>2, AllPageSteps DEF IInv, Hydration, TypeOK
        <3>2. Replies(Append(page.history, Chat)) = Replies(page.history)
            BY <3>1, AppendReplies
        <3>3. Replies(page.history) \in Nat /\ Replies(page.hydrating) \in Nat
            BY <3>1, RepliesNat
        <3>4. page'.history \in {page.history, Append(page.history, Chat), page.hydrating}
            BY <2>2, <3>1 DEF PageStep
        <3> PICK n \in Nat, m \in Nat : n = Replies(page.history) /\ m = Replies(page.hydrating)
            BY <3>3
        <3>5. n <= m /\ n <= n
            BY <3>1
        <3>6. Replies(page'.history) \in {n, m}
            BY <3>2, <3>4
        <3> QED
            BY <3>5, <3>6
    <2> QED
        BY <1>1, <2>1, <2>2
<1> QED
    BY <1>1, Invariance, PTL DEF Spec, AnswersKept
=============================================================================
