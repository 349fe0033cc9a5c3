-------------------------- MODULE RoomInbox_proofs --------------------------
(***************************************************************************)
(* What the inbox keeps for any number of members and any bounds: its      *)
(* receipts, its order, the recipient of a report, and that a report is in *)
(* one prompt.  The turn of the room is sound (SoundTurn) whatever the     *)
(* scheduler did to it; each operation on the queue is shown once to keep  *)
(* the queue's invariants, and each action to use it on a sound turn.      *)
(***************************************************************************)
EXTENDS RoomInbox, FiniteSetTheorems, SequenceTheorems, WellFoundedInduction, TLAPS

-----------------------------------------------------------------------------
(* The bounds. *)

LEMMA Bounds ==
    /\ MaxQueued \in Nat /\ MaxQueued >= 1
    /\ \A budget \in Budgets : budget \in Nat /\ budget >= 1
    /\ MaxTries \in Nat /\ MaxMessages \in Nat /\ MaxStarts \in Nat
    /\ MaxInterrupts \in Nat
    /\ Null \notin Turn /\ Null \notin Sources
BY BoundAssumption, NullAssumption

-----------------------------------------------------------------------------
(* The ring.                                                               *)

\* A set of naturals that has a member has a least one.
LEMMA Least ==
    ASSUME NEW S \in SUBSET Nat, S # {}
    PROVE  \E k \in S : \A n \in S : k <= n
<1>1. PICK k \in S : \A n \in S : ~(<<n, k>> \in OpToRel(<, Nat))
    BY NatLessThanWellFounded, WFMin
<1>2. \A n \in S : ~(n < k)
    BY <1>1 DEF OpToRel
<1> QED
    BY <1>2

\* The places round the ring are members, and reach every member.
LEMMA SeatIsMember ==
    ASSUME NEW from \in Members \cup {User}, NEW k \in 1..MemberCount
    PROVE  Seat(from, k) \in Members
<1>1. MemberCount \in Nat \ {0}
    BY MemberAssumption
<1>2. ASSUME NEW a \in Int PROVE a % MemberCount \in 0..(MemberCount - 1)
    BY <1>1
<1>3. k - 1 \in Int
    BY <1>1
<1>4. from # User => from + k \in Int
    BY <1>1 DEF Members
<1> QED
    BY <1>2, <1>3, <1>4 DEF Seat, Members

LEMMA SmallRemainder ==
    ASSUME NEW n \in Nat \ {0}, NEW a \in 0..(n - 1)
    PROVE  a % n = a
OBVIOUS

LEMMA NextRemainder ==
    ASSUME NEW n \in Nat \ {0}, NEW a \in n..(2 * n - 1)
    PROVE  a % n = a - n
OBVIOUS

LEMMA RingReaches ==
    ASSUME NEW from \in Members \cup {User}, NEW m \in Members
    PROVE  \E k \in 1..MemberCount : Seat(from, k) = m
<1>1. MemberCount \in Nat \ {0} /\ m \in 0..(MemberCount - 1)
    BY MemberAssumption DEF Members
<1>2. CASE from = User
    <2>1. m + 1 \in 1..MemberCount /\ (m + 1) - 1 = m
        BY <1>1
    <2>2. m % MemberCount = m
        BY <1>1, SmallRemainder
    <2> QED
        BY <1>2, <2>1, <2>2 DEF Seat
<1>3. CASE from # User /\ m > from
    <2>1. from \in 0..(MemberCount - 1)
        BY <1>3 DEF Members
    <2>2. m - from \in 1..MemberCount /\ from + (m - from) = m
        BY <1>1, <1>3, <2>1
    <2>3. m % MemberCount = m
        BY <1>1, SmallRemainder
    <2> QED
        BY <1>3, <2>2, <2>3 DEF Seat
<1>4. CASE from # User /\ m <= from
    <2>1. from \in 0..(MemberCount - 1)
        BY <1>4 DEF Members
    <2>2. /\ m - from + MemberCount \in 1..MemberCount
          /\ from + (m - from + MemberCount) = m + MemberCount
          /\ m + MemberCount \in MemberCount..(2 * MemberCount - 1)
          /\ (m + MemberCount) - MemberCount = m
        BY <1>1, <1>4, <2>1
    <2>3. (m + MemberCount) % MemberCount = m
        BY <1>1, <2>2, NextRemainder
    <2> QED
        BY <1>4, <2>2, <2>3 DEF Seat
<1> QED
    BY <1>1, <1>2, <1>3, <1>4 DEF Members

\* While somebody takes part, the next member is one who does.
LEMMA NextTakesPart ==
    ASSUME enabled \subseteq Members, enabled # {}, NEW from \in Members \cup {User}
    PROVE  NextMember(from) \in enabled
<1> DEFINE S == {k \in 1..MemberCount : Seat(from, k) \in enabled}
<1>1. MemberCount \in Nat
    BY MemberAssumption
<1>2. S \subseteq Nat /\ S # {}
    BY <1>1, RingReaches
<1>3. PICK k \in S : \A n \in S : k <= n
    BY <1>2, Least
<1>4. \A j \in 1..(k - 1) : Seat(from, j) \notin enabled
    <2>1. ASSUME NEW j \in 1..(k - 1) PROVE j \in 1..MemberCount /\ ~(k <= j)
        BY <1>1, <1>3
    <2> QED
        BY <1>3, <2>1
<1>5. k \in 1..MemberCount /\ Seat(from, k) \in enabled
    BY <1>3
<1> QED
    BY <1>4, <1>5 DEF NextMember

\* The recipient is the next member whenever the recipient takes part: an
\* author who is the only participant is addressed by nobody else.
LEMMA RecipientIsNext ==
    ASSUME enabled \subseteq Members, NEW from \in Members, Recipient(from) \in enabled
    PROVE  NextMember(from) = Recipient(from)
<1>1. CASE enabled \subseteq {from}
    <2>1. NextMember(from) \in enabled
        BY NextTakesPart
    <2> QED
        BY <1>1, <2>1
<1>2. CASE ~(enabled \subseteq {from})
    BY <1>2 DEF Recipient
<1> QED
    BY <1>1, <1>2

LEMMA RecipientIsMember ==
    ASSUME enabled \subseteq Members, NEW from \in Members
    PROVE  Recipient(from) \in Members
<1>1. CASE enabled \subseteq {from}
    <2>1. 1 \in 1..MemberCount
        BY MemberAssumption
    <2> QED
        BY <1>1, <2>1, SeatIsMember DEF Recipient
<1>2. CASE ~(enabled \subseteq {from})
    BY <1>2, NextTakesPart DEF Recipient
<1> QED
    BY <1>1, <1>2

-----------------------------------------------------------------------------
(* The queue.                                                              *)

InQueue == {queue[k] : k \in 1..Len(queue)}

\* A batch is a prefix of the queue no longer than asked for, and all of it
\* is for one member who takes part.
LEMMA TakenIsPrefix ==
    ASSUME queue \in Seq(DOMAIN messages), NEW member, NEW count \in Nat
    PROVE  /\ Taken(member, count) \in 0..Len(queue)
           /\ Taken(member, count) <= count
           /\ Taken(member, count) = 0 \/ Shares(Taken(member, count), member)
           /\ 1 <= Len(queue) /\ 1 <= count /\ Shares(1, member)
                => 1 <= Taken(member, count)
<1> DEFINE Fits(n) == n = 0 \/ (n <= count /\ Shares(n, member))
           Full(n) == n = Len(queue) \/ n >= count \/ ~Shares(n + 1, member)
           Lacking == {k \in 0..Len(queue) : Fits(Len(queue) - k)}
<1>1. Len(queue) \in Nat
    OBVIOUS
<1>2. Len(queue) \in Lacking
    BY <1>1
<1>3. PICK k \in Lacking : \A n \in Lacking : k <= n
    <2>1. Lacking \subseteq Nat /\ Lacking # {}
        BY <1>1, <1>2
    <2> HIDE DEF Lacking
    <2> QED
        BY <2>1, Least
<1>4. Len(queue) - k \in 0..Len(queue) /\ Fits(Len(queue) - k)
    BY <1>1, <1>3
<1>5. Full(Len(queue) - k)
    <2>1. SUFFICES ASSUME ~Full(Len(queue) - k) PROVE FALSE
        OBVIOUS
    <2>2. k - 1 \in 0..Len(queue) /\ Len(queue) - (k - 1) = (Len(queue) - k) + 1
        BY <1>1, <1>4, <2>1
    <2>3. Fits(Len(queue) - (k - 1))
        BY <1>1, <1>4, <2>1, <2>2
    <2>4. k <= k - 1
        BY <1>3, <2>2, <2>3
    <2> QED
        BY <1>1, <1>3, <2>4
<1> DEFINE t == Taken(member, count)
<1>6. t \in 0..Len(queue) /\ Fits(t) /\ Full(t)
    BY <1>4, <1>5 DEF Taken
<1>7. 1 <= Len(queue) /\ 1 <= count /\ Shares(1, member) => t # 0
    BY <1>1, <1>6
<1> QED
    BY <1>6, <1>7

\* The queue and the receipts agree, and reports leave it in order.
Fifo ==
    /\ InQueue = {i \in DOMAIN messages : Queued(i)}
    /\ \A j, k \in 1..Len(queue) : j < k => queue[j] < queue[k]
    /\ InOrder

QueueTyped ==
    /\ messages \in Seq(Report) /\ Len(messages) <= MaxMessages
    /\ queue \in Seq(DOMAIN messages) /\ Len(queue) <= MaxQueued

\* The same reports as before, from and to the same members.
SameReports ==
    /\ DOMAIN messages' = DOMAIN messages
    /\ \A i \in DOMAIN messages : /\ messages'[i].from = messages[i].from
                                  /\ messages'[i].to = messages[i].to

\* Taking the first n entries, for whatever phase.
LEMMA PrefixLeaves ==
    ASSUME QueueTyped, Fifo, NEW n \in 0..Len(queue),
           NEW phase \in {"batched", "dispatched"},
           queue' = Rest(n), messages' = Phased(First(n), phase)
    PROVE  /\ QueueTyped' /\ Fifo' /\ SameReports
           /\ First(n) \subseteq InQueue
           /\ \A i \in DOMAIN messages : Queued(i)' <=> Queued(i) /\ i \notin First(n)
<1>1. /\ Len(queue) \in Nat /\ DOMAIN messages = 1..Len(messages) /\ Len(messages) \in Nat
      /\ \A k \in 1..Len(queue) : queue[k] \in DOMAIN messages
    BY DEF QueueTyped
<1>2. /\ queue' \in Seq(DOMAIN messages) /\ Len(queue') = Len(queue) - n
      /\ \A k \in 1..Len(queue') : queue'[k] = queue[k + n]
    <2>1. \A i \in n + 1..Len(queue) : queue[i] \in DOMAIN messages
        BY <1>1
    <2>2. /\ SubSeq(queue, n + 1, Len(queue)) \in Seq(DOMAIN messages)
          /\ Len(SubSeq(queue, n + 1, Len(queue)))
                = IF n + 1 <= Len(queue) THEN Len(queue) - (n + 1) + 1 ELSE 0
          /\ \A i \in 1..Len(queue) - (n + 1) + 1 :
                SubSeq(queue, n + 1, Len(queue))[i] = queue[n + 1 + i - 1]
        BY <1>1, <2>1, SubSeqProperties
    <2> QED
        BY <1>1, <2>2 DEF Rest
<1>3. /\ DOMAIN messages' = DOMAIN messages
      /\ \A i \in DOMAIN messages :
            messages'[i] = IF i \in First(n) THEN [messages[i] EXCEPT !.phase = phase]
                                             ELSE messages[i]
    BY DEF Phased
<1>4. \A i \in DOMAIN messages : messages[i] \in Report
    BY DEF QueueTyped
<1>5. \A i \in DOMAIN messages :
        /\ messages'[i] \in Report
        /\ messages'[i].from = messages[i].from /\ messages'[i].to = messages[i].to
        /\ messages'[i].phase = IF i \in First(n) THEN phase ELSE messages[i].phase
    BY <1>3, <1>4 DEF Report, Phases
<1>6. messages' \in Seq(Report) /\ Len(messages') = Len(messages)
    <2>1. messages' \in [1..Len(messages) -> Report]
        BY <1>1, <1>3, <1>5 DEF Phased
    <2> QED
        BY <1>1, <2>1
<1>7. QueueTyped'
    <2>1. Len(queue') <= MaxQueued
        BY <1>1, <1>2, Bounds DEF QueueTyped
    <2>2. queue' \in Seq(DOMAIN messages')
        BY <1>2, <1>3
    <2>3. Len(messages') <= MaxMessages
        BY <1>6 DEF QueueTyped
    <2> QED
        BY <1>6, <2>1, <2>2, <2>3 DEF QueueTyped
<1>8. First(n) \subseteq InQueue
    BY <1>1 DEF First, InQueue
<1>9. \A i \in DOMAIN messages : Queued(i)' <=> Queued(i) /\ i \notin First(n)
    BY <1>3, <1>5 DEF Queued
<1>10. InQueue' = InQueue \ First(n)
    <2>1. ASSUME NEW k \in 1..Len(queue') PROVE queue'[k] \in InQueue \ First(n)
        <3>1. k + n \in 1..Len(queue) /\ queue'[k] = queue[k + n]
            BY <1>1, <1>2, <2>1
        <3>2. \A j \in 1..n : queue[j] < queue[k + n]
            BY <1>1, <3>1 DEF Fifo
        <3>3. \A j \in 1..n : queue[j] # queue[k + n]
            BY <1>1, <3>1, <3>2
        <3> QED
            BY <3>1, <3>3 DEF InQueue, First
    <2>2. ASSUME NEW i \in InQueue \ First(n) PROVE i \in InQueue'
        <3>1. PICK k \in 1..Len(queue) : i = queue[k]
            BY DEF InQueue
        <3>2. k > n
            BY <1>1, <3>1 DEF First
        <3>3. k - n \in 1..Len(queue') /\ queue'[k - n] = queue[k]
            BY <1>1, <1>2, <3>2
        <3> QED
            BY <3>1, <3>3 DEF InQueue
    <2> QED
        BY <2>1, <2>2 DEF InQueue
<1>11. InQueue' = {i \in DOMAIN messages' : Queued(i)'}
    BY <1>3, <1>8, <1>9, <1>10 DEF Fifo
<1>12. ASSUME NEW j \in 1..Len(queue'), NEW k \in 1..Len(queue'), j < k
       PROVE  queue'[j] < queue'[k]
    <2>1. j + n \in 1..Len(queue) /\ k + n \in 1..Len(queue) /\ j + n < k + n
        BY <1>1, <1>2, <1>12
    <2>2. queue[j + n] < queue[k + n]
        BY <2>1 DEF Fifo
    <2> QED
        BY <1>2, <2>2
<1>13. InOrder'
    <2> SUFFICES ASSUME NEW i \in DOMAIN messages, NEW j \in DOMAIN messages, i < j,
                        messages'[j].phase \in {"batched", "dispatched"}, Queued(i)'
                 PROVE  FALSE
        BY <1>3 DEF InOrder
    <2>1. Queued(i) /\ i \in InQueue /\ i \notin First(n)
        BY <1>9 DEF Fifo
    <2>2. CASE j \in First(n)
        <3>1. PICK k \in 1..n : j = queue[k]
            BY <2>2 DEF First
        <3>2. PICK l \in 1..Len(queue) : i = queue[l]
            BY <2>1 DEF InQueue
        <3>3. l > n
            BY <1>1, <2>1, <3>2 DEF First
        <3>4. k \in 1..Len(queue) /\ k < l
            BY <1>1, <3>1, <3>3
        <3>5. queue[k] < queue[l]
            BY <3>4 DEF Fifo
        <3> QED
            BY <1>1, <3>1, <3>2, <3>5
    <2>3. CASE j \notin First(n)
        BY <1>5, <2>1, <2>3 DEF Fifo, InOrder
    <2> QED
        BY <2>2, <2>3
<1> QED
    BY <1>3, <1>5, <1>7, <1>8, <1>9, <1>11, <1>12, <1>13 DEF Fifo, SameReports

\* The first n entries are at most n reports.
LEMMA FirstSmall ==
    ASSUME QueueTyped, NEW n \in 0..Len(queue)
    PROVE  IsFiniteSet(First(n)) /\ Cardinality(First(n)) <= n
<1> DEFINE f == [k \in 1..n |-> queue[k]]
<1>1. n \in Nat /\ Len(queue) \in Nat
    BY DEF QueueTyped
<1>2. f \in Surjection(1..n, First(n))
    BY DEF Surjection, First
<1>3. IsFiniteSet(1..n) /\ Cardinality(1..n) = n
    BY <1>1, FS_Interval
<1> QED
    BY <1>2, <1>3, FS_Surjection

-----------------------------------------------------------------------------
(* The invariant.                                                          *)

Aimed == \A i \in DOMAIN messages : Queued(i) => messages[i].to = Recipient(messages[i].from)

Fresh == \A i \in Reports \ chosen : i \notin DOMAIN messages \/ Queued(i) => prompts[i] = 0

\* What the room knows of its reports.
Books ==
    /\ enabled \subseteq Members
    /\ QueueTyped /\ Fifo /\ Aimed
    /\ prompts \in [Reports -> 0..2] /\ chosen \subseteq Reports
    /\ Fresh /\ PromptedOnce

\* A turn a room may have, when the exempt reports are those continued from.
SoundTurn(t, exempt) ==
    /\ t \in Turn
    /\ Cardinality(t.inbox) <= MaxQueued
    /\ Addressed(t) \subseteq DOMAIN messages
    /\ \A i \in Addressed(t) : ~Queued(i)
    /\ \A i \in Addressed(t) \ exempt : /\ messages[i].to = t.member
                                        /\ ~t.dispatched => prompts[i] = 0

TurnIsSound == turn # Null => SoundTurn(turn, chosen) /\ enabled # {}

LastKnown ==
    last # Null => last \in Sources /\ last.report \in {0} \cup DOMAIN messages

Counters ==
    /\ relay \in [active : BOOLEAN, remaining : Nat, stopped : BOOLEAN]
    /\ starts \in 0..MaxStarts /\ interrupts \in 0..MaxInterrupts

IInv == Books /\ TurnIsSound /\ LastKnown /\ Counters

-----------------------------------------------------------------------------
(* What leaves the books alone.                                            *)

LEMMA ReportsAreNumbers ==
    ASSUME QueueTyped
    PROVE  DOMAIN messages \subseteq Reports /\ DOMAIN messages = 1..Len(messages)
           /\ Len(messages) \in Nat
BY Bounds DEF QueueTyped, Reports

LEMMA SameRecipient ==
    ASSUME UNCHANGED enabled, NEW from
    PROVE  Recipient(from)' = Recipient(from)
BY DEF Recipient, NextMember, Seat

\* Reports a relay is continued from become exempt: less is asked of the rest.
LEMMA MoreExempt ==
    ASSUME Books, NEW exempt \in SUBSET Reports, chosen \subseteq exempt, chosen' = exempt,
           UNCHANGED <<enabled, messages, queue, prompts>>
    PROVE  Books'
<1>1. \A i : Queued(i)' <=> Queued(i)
    BY DEF Queued
<1>2. Fifo' /\ QueueTyped'
    BY <1>1 DEF Books, Fifo, QueueTyped, InQueue, InOrder
<1>3. Aimed'
    <2>1. \A i \in DOMAIN messages : Recipient(messages[i].from)' = Recipient(messages[i].from)
        BY SameRecipient
    <2> QED
        BY <1>1, <2>1 DEF Books, Aimed
<1> QED
    BY <1>1, <1>2, <1>3 DEF Books, Fresh, PromptedOnce

LEMMA BooksKept ==
    ASSUME Books, UNCHANGED <<enabled, messages, queue, prompts, chosen>>
    PROVE  Books'
BY MoreExempt DEF Books

LEMMA SoundKept ==
    ASSUME NEW t, NEW exempt, SoundTurn(t, exempt), enabled # {},
           turn' = t, chosen' = exempt, UNCHANGED <<enabled, messages, prompts>>
    PROVE  TurnIsSound'
BY DEF TurnIsSound, SoundTurn, Queued, Addressed, Reports

-----------------------------------------------------------------------------
(* The operations on the queue.                                            *)

\* What taking a prefix of the queue leaves of the books.
LEMMA TakingKeepsBooks ==
    ASSUME Books, NEW exempt \in SUBSET Reports, chosen \subseteq exempt, chosen' = exempt,
           NEW n \in 0..Len(queue), NEW phase \in {"batched", "dispatched"},
           queue' = Rest(n), messages' = Phased(First(n), phase),
           UNCHANGED <<enabled, prompts>>
    PROVE  /\ Books' /\ SameReports
           /\ First(n) \subseteq InQueue
           /\ \A i \in DOMAIN messages : Queued(i)' <=> Queued(i) /\ i \notin First(n)
<1>1. /\ QueueTyped' /\ Fifo' /\ SameReports
      /\ First(n) \subseteq InQueue
      /\ \A i \in DOMAIN messages : Queued(i)' <=> Queued(i) /\ i \notin First(n)
    BY PrefixLeaves DEF Books
<1>2. Aimed'
    <2> SUFFICES ASSUME NEW i \in DOMAIN messages, Queued(i)'
                 PROVE  messages'[i].to = Recipient(messages[i].from)'
                        /\ messages'[i].from = messages[i].from
        BY <1>1, SameRecipient DEF Aimed, SameReports
    <2> QED
        BY <1>1, SameRecipient DEF Books, Aimed, SameReports
<1>3. Fresh'
    BY <1>1 DEF Books, Fresh, SameReports
<1> QED
    BY <1>1, <1>2, <1>3 DEF Books, PromptedOnce

\* Staging keeps the books, and the turn it stages for is sound afterwards.
LEMMA StagingKeeps ==
    ASSUME Books, enabled # {}, NEW t, NEW exempt \in SUBSET Reports,
           chosen \subseteq exempt, chosen' = exempt, SoundTurn(t, exempt),
           StageForPending(t), UNCHANGED <<enabled, prompts>>
    PROVE  Books' /\ TurnIsSound' /\ SameReports
<1> DEFINE n == Taken(t.member, Room(t))
<1>1. t \in Turn /\ t.inbox \in SUBSET Reports
    BY DEF SoundTurn, Turn
<1>2. IsFiniteSet(t.inbox) /\ Cardinality(t.inbox) \in Nat /\ Room(t) \in Nat
    <2>1. IsFiniteSet(Reports)
        BY Bounds, FS_Interval DEF Reports
    <2>2. IsFiniteSet(t.inbox) /\ Cardinality(t.inbox) \in Nat
        BY <1>1, <2>1, FS_Subset, FS_CardinalityType
    <2> QED
        BY <2>2, Bounds DEF Room, SoundTurn
<1>3. n \in 0..Len(queue) /\ n <= Room(t) /\ (n = 0 \/ Shares(n, t.member))
    BY <1>2, TakenIsPrefix DEF Books, QueueTyped
<1>4. /\ Books' /\ SameReports /\ First(n) \subseteq InQueue
      /\ \A i \in DOMAIN messages : Queued(i)' <=> Queued(i) /\ i \notin First(n)
    BY <1>3, TakingKeepsBooks DEF StageForPending
<1>5. First(n) \subseteq DOMAIN messages /\ \A i \in First(n) : Queued(i)
    BY <1>4 DEF Books, Fifo
<1>6. \A i \in First(n) : messages[i].to = t.member
    BY <1>3, <1>5 DEF Shares, First
<1>7. DOMAIN messages \subseteq Reports
    BY ReportsAreNumbers DEF Books
<1>8. /\ turn' = [t EXCEPT !.inbox = @ \cup First(n)]
      /\ turn' \in Turn /\ turn'.inbox = t.inbox \cup First(n)
      /\ turn'.member = t.member /\ turn'.source = t.source
      /\ turn'.dispatched = t.dispatched
    BY <1>1, <1>5, <1>7 DEF StageForPending, Turn
<1>9. Cardinality(turn'.inbox) <= MaxQueued
    <2>1. IsFiniteSet(First(n)) /\ Cardinality(First(n)) <= n /\ Cardinality(First(n)) \in Nat
        BY <1>3, FirstSmall, FS_CardinalityType DEF Books
    <2>2. Cardinality(t.inbox \cup First(n)) <= Cardinality(t.inbox) + Cardinality(First(n))
        <3>1. /\ Cardinality(t.inbox \cup First(n)) = Cardinality(t.inbox)
                    + Cardinality(First(n)) - Cardinality(t.inbox \cap First(n))
              /\ IsFiniteSet(t.inbox \cap First(n))
            BY <1>2, <2>1, FS_Union, FS_Intersection
        <3>2. Cardinality(t.inbox \cap First(n)) \in Nat
            BY <3>1, FS_CardinalityType
        <3> QED
            BY <1>2, <2>1, <3>1, <3>2
    <2>3. Cardinality(t.inbox \cup First(n)) \in Nat
        BY <1>2, <2>1, FS_Union, FS_CardinalityType
    <2> QED
        BY <1>2, <1>3, <1>8, <2>1, <2>2, <2>3, Bounds DEF Room
<1>10. Addressed(turn)' = Addressed(t) \cup First(n)
    BY <1>8 DEF Addressed, Reports
<1>11. \A i \in Addressed(turn)' : i \in DOMAIN messages' /\ ~Queued(i)'
    BY <1>4, <1>5, <1>10 DEF SoundTurn, SameReports
<1>12. ASSUME NEW i \in Addressed(turn)' \ chosen'
       PROVE  messages'[i].to = turn'.member /\ (~turn'.dispatched => prompts'[i] = 0)
    <2>1. CASE i \in First(n)
        BY <1>4, <1>5, <1>6, <1>7, <1>8, <1>12, <2>1 DEF Books, Fresh, SameReports
    <2>2. CASE i \notin First(n)
        BY <1>4, <1>8, <1>10, <1>12, <2>2 DEF SoundTurn, SameReports
    <2> QED
        BY <2>1, <2>2
<1> QED
    BY <1>4, <1>8, <1>9, <1>11, <1>12 DEF TurnIsSound, SoundTurn

\* Stopping a relay, with the queue cancelled or kept, keeps the books.
LEMMA StoppingKeeps ==
    ASSUME Books, NEW byPerson, SetStopped(byPerson), UNCHANGED <<enabled, prompts, chosen>>
    PROVE  Books' /\ TurnIsSound' /\ SameReports
<1>1. TurnIsSound'
    BY DEF SetStopped, TurnIsSound
<1>2. CASE ~byPerson
    BY <1>1, <1>2, BooksKept DEF SetStopped, SameReports
<1>3. CASE byPerson
    <2>1. queue' = <<>> /\ messages' = Phased(InQueue, "cancelled")
        BY <1>3 DEF SetStopped, Emptied, InQueue
    <2>2. \A i \in DOMAIN messages : messages[i] \in Report
        BY DEF Books, QueueTyped
    <2>3. /\ DOMAIN messages' = DOMAIN messages
          /\ \A i \in DOMAIN messages :
                /\ messages'[i] \in Report
                /\ messages'[i].from = messages[i].from /\ messages'[i].to = messages[i].to
                /\ messages'[i].phase = IF i \in InQueue THEN "cancelled" ELSE messages[i].phase
        BY <2>1, <2>2 DEF Phased, Report, Phases
    <2>4. \A i : ~Queued(i)'
        BY <2>3 DEF Queued, Books, Fifo
    <2>5. QueueTyped'
        <3>1. messages' \in Seq(Report) /\ Len(messages') = Len(messages)
            <4>1. /\ Len(messages) \in Nat /\ DOMAIN messages = 1..Len(messages)
                  /\ messages' \in [1..Len(messages) -> Report]
                BY <2>1, <2>3, ReportsAreNumbers DEF Books, Phased
            <4> QED
                BY <4>1
        <3> QED
            BY <2>1, <3>1, Bounds DEF Books, QueueTyped
    <2>6. Fifo' /\ Aimed'
        BY <2>1, <2>4 DEF Fifo, Aimed, InQueue, InOrder
    <2>7. Fresh'
        BY <2>3, <2>4 DEF Books, Fresh
    <2> QED
        BY <1>1, <2>3, <2>5, <2>6, <2>7 DEF Books, SameReports, PromptedOnce
<1> QED
    BY <1>2, <1>3

RelayTyped == relay \in [active : BOOLEAN, remaining : Nat, stopped : BOOLEAN]

\* A relay that goes on from no report, or from an exempt one that is not
\* queued, gives its next member a sound turn.
LEMMA EnqueuingKeeps ==
    ASSUME Books, enabled # {}, NEW source \in Sources, NEW budget \in Nat, budget >= 1,
           NEW exempt \in SUBSET Reports, chosen \subseteq exempt, chosen' = exempt,
           source.report = 0 \/ /\ source.report \in exempt \cap DOMAIN messages
                                /\ ~Queued(source.report),
           EnqueueNext(source, budget), UNCHANGED <<enabled, prompts>>
    PROVE  Books' /\ TurnIsSound' /\ SameReports /\ RelayTyped'
<1> DEFINE t == Pending(NextMember(source.from), source, {}, 0)
<1>1. NextMember(source.from) \in Members
    BY NextTakesPart DEF Books, Sources
<1>2. t \in Turn
    BY <1>1, Bounds DEF Pending, Turn
<1>3. Addressed(t) = {source.report} \cap Reports /\ t.inbox = {}
    BY DEF Addressed, Pending
<1>4. Addressed(t) \subseteq exempt /\ Addressed(t) \subseteq DOMAIN messages
      /\ \A i \in Addressed(t) : ~Queued(i)
    BY <1>3, Bounds DEF Reports
<1>5. Cardinality(t.inbox) <= MaxQueued
    BY <1>3, FS_EmptySet, Bounds
<1>6. SoundTurn(t, exempt)
    <2> HIDE DEF t
    <2> QED
        BY <1>2, <1>4, <1>5 DEF SoundTurn
<1>7. StageForPending(t)
    BY DEF EnqueueNext
<1>8. Books' /\ TurnIsSound' /\ SameReports
    <2> HIDE DEF t
    <2> QED
        BY <1>6, <1>7, StagingKeeps
<1>9. RelayTyped'
    BY DEF EnqueueNext, RelayTyped
<1> QED
    BY <1>8, <1>9

\* A reply settles the turn.
LEMMA SettlingKeeps ==
    ASSUME Books, TurnIsSound, turn # Null, NEW ends \in BOOLEAN, NEW live,
           live.remaining \in Nat, Settle(ends, live), UNCHANGED <<enabled, prompts, chosen>>
    PROVE  Books' /\ TurnIsSound' /\ LastKnown' /\ RelayTyped'
<1> DEFINE reply == [from |-> turn.member, report |-> 0]
<1>1. reply \in Sources /\ reply.report = 0
    BY Bounds DEF TurnIsSound, SoundTurn, Turn, Sources
<1>2. LastKnown'
    BY <1>1 DEF Settle, LastKnown
<1>3. CASE ends \/ ~live.active \/ live.remaining = 0
    <2> DEFINE byPerson == ~ends /\ ~live.active /\ live.stopped
    <2>1. SetStopped(byPerson)
        BY <1>3 DEF Settle
    <2>2. Books' /\ TurnIsSound'
        <3> HIDE DEF byPerson
        <3> QED
            BY <2>1, StoppingKeeps
    <2>3. RelayTyped'
        BY <2>1 DEF SetStopped, RelayTyped, Idle
    <2> QED
        BY <1>2, <2>2, <2>3
<1>4. CASE ~(ends \/ ~live.active \/ live.remaining = 0)
    <2>1. EnqueueNext(reply, live.remaining) /\ live.remaining >= 1
        BY <1>4 DEF Settle
    <2>2. enabled # {}
        BY DEF TurnIsSound
    <2> HIDE DEF reply
    <2>3. Books' /\ TurnIsSound' /\ RelayTyped'
        BY <1>1, <2>1, <2>2, EnqueuingKeeps DEF Books
    <2> QED
        BY <1>2, <2>3
<1> QED
    BY <1>3, <1>4

\* The last message is known still when the reports are the same.
LEMMA LastStillKnown ==
    ASSUME LastKnown, DOMAIN messages \subseteq DOMAIN messages', UNCHANGED last
    PROVE  LastKnown'
BY DEF LastKnown

-----------------------------------------------------------------------------
(* The initial state.                                                      *)

LEMMA InitIInv == Init => IInv
<1> SUFFICES ASSUME Init PROVE IInv
    OBVIOUS
<1>1. messages = <<>> /\ queue = <<>> /\ DOMAIN messages = {} /\ Len(queue) = 0
    BY DEF Init
<1>2. QueueTyped
    BY <1>1, Bounds DEF QueueTyped
<1>3. Fifo /\ Aimed
    BY <1>1 DEF Fifo, Aimed, InQueue, InOrder, Queued
<1>4. Fresh /\ PromptedOnce /\ prompts \in [Reports -> 0..2]
    BY DEF Init, Fresh, PromptedOnce
<1>5. TurnIsSound /\ LastKnown /\ Counters
    BY Bounds DEF Init, TurnIsSound, LastKnown, Counters, Idle
<1> QED
    BY <1>2, <1>3, <1>4, <1>5 DEF Init, IInv, Books, Members

-----------------------------------------------------------------------------
(* The steps.                                                              *)

\* A report joins the queue: it is the newest, aimed at its recipient, and
\* has been in no prompt.
LEMMA AdmitKeeps ==
    ASSUME IInv, NEW m \in Members, Admit(m)
    PROVE  IInv'
<1>0. PICK i : i = Len(messages) + 1
    OBVIOUS
<1> DEFINE r == [from |-> m, to |-> Recipient(m), phase |-> "queued"]
<1>1. /\ DOMAIN messages = 1..Len(messages) /\ Len(messages) \in Nat
      /\ i \in Reports /\ i = Len(messages) + 1
      /\ \A k \in DOMAIN messages : messages[k] \in Report
    BY <1>0, Bounds, ReportsAreNumbers DEF IInv, Books, Admit, Reports, QueueTyped
<1>2. r \in Report
    BY RecipientIsMember DEF Report, Phases, IInv, Books
<1>3. /\ messages' \in Seq(Report) /\ Len(messages') = i /\ DOMAIN messages' = 1..i
      /\ messages'[i] = r /\ \A k \in DOMAIN messages : messages'[k] = messages[k]
    <2>1. messages \in Seq(Report) /\ messages' = Append(messages, r)
        BY DEF IInv, Books, QueueTyped, Admit
    <2> HIDE DEF r
    <2> QED
        BY <1>1, <1>2, <2>1, AppendProperties
<1>4. /\ queue \in Seq(DOMAIN messages) /\ Len(queue) \in Nat /\ Len(queue) < MaxQueued
      /\ \A k \in 1..Len(queue) : queue[k] \in DOMAIN messages
    BY DEF IInv, Books, QueueTyped, Admit, Space
<1>5. /\ queue' \in Seq(DOMAIN messages') /\ Len(queue') = Len(queue) + 1
      /\ queue'[Len(queue) + 1] = i /\ \A k \in 1..Len(queue) : queue'[k] = queue[k]
    <2>1. queue' = Append(queue, i) /\ i \in DOMAIN messages'
        BY <1>1, <1>3 DEF Admit, Joined
    <2>2. queue \in Seq(DOMAIN messages')
        BY <1>1, <1>3, <1>4
    <2> QED
        BY <2>1, <2>2, AppendProperties
<1>6. UNCHANGED <<enabled, relay, turn, prompts, chosen, starts, interrupts>>
      /\ last' = [from |-> m, report |-> i]
    BY <1>3 DEF Admit
<1>7. /\ \A k \in DOMAIN messages : k < i /\ (Queued(k)' <=> Queued(k))
      /\ Queued(i)' /\ i \notin DOMAIN messages
    <2>1. i \in DOMAIN messages' /\ i \notin DOMAIN messages
          /\ \A k \in DOMAIN messages : k < i /\ k \in DOMAIN messages'
        BY <1>1, <1>3
    <2>2. messages'[i].phase = "queued"
        BY <1>3
    <2> HIDE DEF r
    <2> QED
        BY <1>3, <2>1, <2>2 DEF Queued
<1>8. QueueTyped'
    BY <1>1, <1>3, <1>4, <1>5, Bounds DEF QueueTyped, Reports
<1>9. InQueue' = InQueue \cup {i}
    BY <1>4, <1>5 DEF InQueue
<1>10. Fifo'
    <2>1. InQueue' = {k \in DOMAIN messages' : Queued(k)'}
        <3>1. DOMAIN messages' = DOMAIN messages \cup {i}
            BY <1>1, <1>3
        <3> HIDE DEF r
        <3> QED
            BY <1>7, <1>9, <3>1 DEF IInv, Books, Fifo
    <2>2. \A j, k \in 1..Len(queue') : j < k => queue'[j] < queue'[k]
        BY <1>4, <1>5, <1>7 DEF IInv, Books, Fifo
    <2>3. InOrder'
        BY <1>1, <1>3, <1>7 DEF IInv, Books, Fifo, InOrder
    <2> QED
        BY <2>1, <2>2, <2>3 DEF Fifo
<1>11. Aimed'
    <2> SUFFICES ASSUME NEW k \in DOMAIN messages', Queued(k)'
                 PROVE  (messages[k].to = Recipient(messages[k].from))'
        BY DEF Aimed
    <2>1. CASE k = i
        BY <1>3, <1>6, <2>1, SameRecipient
    <2>2. CASE k # i
        <3>1. k \in DOMAIN messages
            BY <1>1, <1>3, <2>2
        <3> QED
            BY <1>3, <1>6, <1>7, <3>1, SameRecipient DEF IInv, Books, Aimed
    <2> QED
        BY <2>1, <2>2
<1>12. Fresh'
    BY <1>1, <1>3, <1>6, <1>7 DEF IInv, Books, Fresh
<1>13. TurnIsSound'
    BY <1>1, <1>3, <1>6, <1>7 DEF IInv, TurnIsSound, SoundTurn, Addressed, Reports
<1>14. LastKnown'
    BY <1>1, <1>3, <1>6 DEF LastKnown, Sources, Reports
<1> QED
    BY <1>6, <1>8, <1>10, <1>11, <1>12, <1>13, <1>14 DEF IInv, Books, Counters, PromptedOnce

\* Who takes part changes only while the room is idle: nothing is queued.
LEMMA ToggleKeeps ==
    ASSUME IInv, NEW m \in Members, Toggle(m)
    PROVE  IInv'
<1>1. /\ enabled' \subseteq Members /\ turn = Null /\ queue = <<>>
      /\ UNCHANGED <<messages, queue, relay, turn, last, prompts, chosen, starts, interrupts>>
    BY DEF IInv, Books, Toggle
<1>2. \A i : Queued(i)' <=> Queued(i)
    BY <1>1 DEF Queued
<1>3. \A i \in DOMAIN messages : ~Queued(i)
    BY <1>1 DEF IInv, Books, Fifo, InQueue
<1>4. QueueTyped' /\ Fifo' /\ Aimed'
    BY <1>1, <1>2, <1>3 DEF IInv, Books, QueueTyped, Fifo, Aimed, InQueue, InOrder
<1>5. TurnIsSound' /\ LastKnown' /\ Counters'
    BY <1>1 DEF IInv, TurnIsSound, LastKnown, Counters
<1> QED
    BY <1>1, <1>2, <1>4, <1>5 DEF IInv, Books, Fresh, PromptedOnce

\* A relay from the inbox: its batch is for one member, who takes part and so
\* is the next after the author of the last report of the batch.
LEMMA ActivateKeeps ==
    ASSUME IInv, NEW budget \in Budgets, ActivateNext(budget)
    PROVE  IInv'
<1> DEFINE n == HeadBatch
           source == [from |-> messages[queue[n]].from, report |-> queue[n]]
           t == Pending(NextMember(source.from), source, First(n - 1), 0)
<1>1. /\ queue # <<>> /\ Len(queue) \in Nat /\ 1 <= Len(queue)
      /\ messages[queue[1]].to \in enabled
      /\ \A k \in 1..Len(queue) : queue[k] \in DOMAIN messages
    BY DEF IInv, Books, QueueTyped, ActivateNext, Runnable, Ready
<1>2. n \in 1..Len(queue) /\ n <= MaxQueued /\ Shares(n, messages[queue[1]].to)
    <2>1. n = Taken(messages[queue[1]].to, MaxQueued)
        BY <1>1 DEF HeadBatch
    <2>2. Shares(1, messages[queue[1]].to)
        BY <1>1 DEF Shares
    <2> HIDE DEF n
    <2> QED
        BY <1>1, <2>1, <2>2, TakenIsPrefix, Bounds DEF IInv, Books, QueueTyped
<1>3. /\ turn' = t /\ queue' = Rest(n) /\ messages' = Phased(First(n), "dispatched")
      /\ UNCHANGED <<enabled, last, prompts, chosen, starts, interrupts>>
      /\ relay' = [active |-> TRUE, remaining |-> budget - 1, stopped |-> FALSE]
    BY DEF ActivateNext
<1> HIDE DEF n
<1>4. /\ Books' /\ SameReports /\ First(n) \subseteq InQueue
      /\ \A i \in DOMAIN messages : Queued(i)' <=> Queued(i) /\ i \notin First(n)
    <2>1. Books /\ chosen \in SUBSET Reports /\ n \in 0..Len(queue)
        BY <1>1, <1>2 DEF IInv, Books
    <2> QED
        BY <1>3, <2>1, TakingKeepsBooks
<1>5. DOMAIN messages \subseteq Reports /\ \A k \in DOMAIN messages : messages[k] \in Report
    BY ReportsAreNumbers DEF IInv, Books, QueueTyped
<1>6. First(n) \subseteq DOMAIN messages /\ \A i \in First(n) : Queued(i)
    BY <1>4 DEF IInv, Books, Fifo
<1>7. \A i \in First(n) : messages[i].to = messages[queue[1]].to
    BY <1>2, <1>6 DEF Shares, First
<1>8. queue[n] \in First(n) /\ First(n) = First(n - 1) \cup {queue[n]}
    BY <1>1, <1>2 DEF First
<1>9. source \in Sources /\ source.from \in Members /\ source.report = queue[n]
    <2>1. queue[n] \in DOMAIN messages /\ messages[queue[n]].from \in Members
        BY <1>5, <1>6, <1>8 DEF Report
    <2>2. queue[n] \in 0..MaxMessages
        BY <1>5, <2>1, Bounds DEF Reports
    <2> QED
        BY <2>1, <2>2 DEF Sources
<1>10. NextMember(source.from) = messages[queue[1]].to /\ NextMember(source.from) \in enabled
    <2>1. messages[queue[n]].to = Recipient(messages[queue[n]].from)
        BY <1>6, <1>8 DEF IInv, Books, Aimed
    <2>2. Recipient(source.from) \in enabled /\ Recipient(source.from) = messages[queue[1]].to
        BY <1>1, <1>7, <1>8, <2>1
    <2> QED
        BY <1>9, <2>2, RecipientIsNext DEF IInv, Books
<1> HIDE DEF source
<1>11. t \in Turn /\ t.member = messages[queue[1]].to
       /\ t.inbox = First(n - 1) /\ Addressed(t) = First(n)
    <2>1. NextMember(source.from) \in Members /\ First(n - 1) \subseteq Reports
        BY <1>5, <1>6, <1>8, <1>10 DEF IInv, Books
    <2>2. t \in Turn
        BY <1>9, <2>1, Bounds DEF Pending, Turn
    <2>3. {source.report} \cap Reports = {queue[n]}
        BY <1>5, <1>6, <1>8, <1>9
    <2>4. t.inbox = First(n - 1) /\ t.source = source /\ t.member = NextMember(source.from)
        BY DEF Pending
    <2> QED
        BY <1>8, <1>10, <2>2, <2>3, <2>4 DEF Addressed
<1>12. Cardinality(t.inbox) <= MaxQueued
    <2>1. n - 1 \in 0..Len(queue)
        BY <1>1, <1>2
    <2>2. IsFiniteSet(First(n - 1)) /\ Cardinality(First(n - 1)) <= n - 1
        BY <2>1, FirstSmall DEF IInv, Books
    <2>3. Cardinality(First(n - 1)) \in Nat
        BY <2>2, FS_CardinalityType
    <2> QED
        BY <1>1, <1>2, <1>11, <2>2, <2>3, Bounds
<1> HIDE DEF t
<1>13. turn' \in Turn /\ Addressed(turn)' = First(n) /\ Cardinality(turn'.inbox) <= MaxQueued
       /\ turn'.member = messages[queue[1]].to
    BY <1>3, <1>11, <1>12 DEF Addressed, Reports
<1>14. \A i \in First(n) : i \in DOMAIN messages' /\ ~Queued(i)'
    BY <1>4, <1>6 DEF SameReports
<1>15. \A i \in First(n) \ chosen : messages'[i].to = turn'.member /\ prompts'[i] = 0
    BY <1>3, <1>4, <1>5, <1>6, <1>7, <1>13 DEF IInv, Books, Fresh, SameReports
<1>16. TurnIsSound'
    BY <1>3, <1>10, <1>13, <1>14, <1>15 DEF TurnIsSound, SoundTurn
<1>17. LastKnown' /\ Counters'
    BY <1>3, <1>4, Bounds DEF IInv, LastKnown, Counters, SameReports
<1> QED
    BY <1>4, <1>16, <1>17 DEF IInv

\* A turn of the same member and source, with no more in its inbox and sent
\* if the room's turn was, is sound as that is.
LEMMA LikeTheTurn ==
    ASSUME TurnIsSound, turn # Null, NEW t \in Turn, t.inbox \subseteq turn.inbox,
           t.member = turn.member, t.source = turn.source,
           turn.dispatched => t.dispatched
    PROVE  SoundTurn(t, chosen) /\ enabled # {}
<1>1. SoundTurn(turn, chosen) /\ enabled # {}
    BY DEF TurnIsSound
<1>2. Cardinality(t.inbox) <= MaxQueued
    <2>1. IsFiniteSet(Reports)
        BY Bounds, FS_Interval DEF Reports
    <2>2. turn.inbox \in SUBSET Reports
        BY <1>1 DEF SoundTurn, Turn
    <2>3. IsFiniteSet(turn.inbox)
        BY <2>1, <2>2, FS_Subset
    <2>4. Cardinality(t.inbox) <= Cardinality(turn.inbox)
          /\ Cardinality(turn.inbox) \in Nat /\ Cardinality(t.inbox) \in Nat
        BY <2>3, FS_Subset, FS_CardinalityType
    <2> QED
        BY <1>1, <2>4, Bounds DEF SoundTurn
<1>3. Addressed(t) \subseteq Addressed(turn)
    BY DEF Addressed
<1> QED
    BY <1>1, <1>2, <1>3 DEF SoundTurn

\* Such a turn in place of the room's, and nothing else of the books changed.
LEMMA TurnReplaced ==
    ASSUME IInv, turn # Null, NEW t \in Turn, t.inbox \subseteq turn.inbox,
           t.member = turn.member, t.source = turn.source,
           turn.dispatched => t.dispatched, turn' = t,
           UNCHANGED <<enabled, messages, queue, last, prompts, chosen>>
    PROVE  Books' /\ TurnIsSound' /\ LastKnown'
<1>1. Books'
    BY BooksKept DEF IInv
<1>2. TurnIsSound'
    <2>1. SoundTurn(t, chosen) /\ enabled # {}
        BY LikeTheTurn DEF IInv
    <2> QED
        BY <2>1, SoundKept
<1> QED
    BY <1>1, <1>2 DEF IInv, LastKnown

LEMMA TurnFields ==
    ASSUME TurnIsSound, turn # Null
    PROVE  /\ turn \in Turn /\ turn.member \in Members /\ turn.source \in Sources
           /\ turn.inbox \subseteq Reports /\ turn.tries \in 0..MaxTries
           /\ turn.dispatched \in BOOLEAN /\ turn.live \in BOOLEAN /\ turn.left \in Nat
           /\ turn.stop \in {"no", "user", "expired"}
BY DEF TurnIsSound, SoundTurn, Turn

LEMMA BeginKeeps == ASSUME IInv, Begin PROVE IInv'
<1> DEFINE t == [turn EXCEPT !.at = "running", !.live = TRUE, !.left = relay.remaining]
<1>1. turn # Null /\ UNCHANGED <<enabled, relay, last, prompts, chosen, starts, interrupts>>
      /\ StageForPending(t)
    BY DEF Begin, At
<1>2. t \in Turn /\ t.inbox = turn.inbox /\ t.member = turn.member
      /\ t.source = turn.source /\ t.dispatched = turn.dispatched
    BY <1>1, TurnFields DEF IInv, Counters, Turn
<1> HIDE DEF t
<1>3. SoundTurn(t, chosen) /\ enabled # {}
    BY <1>1, <1>2, LikeTheTurn DEF IInv
<1>4. Books' /\ TurnIsSound' /\ SameReports
    BY <1>1, <1>3, StagingKeeps DEF IInv, Books
<1> QED
    BY <1>1, <1>4 DEF IInv, LastKnown, Counters, SameReports

LEMMA StartRelayKeeps ==
    ASSUME IInv, NEW budget \in Budgets, StartRelay(budget) PROVE IInv'
<1>1. /\ enabled # {} /\ last' = Untold /\ starts' = starts + 1 /\ starts < MaxStarts
      /\ EnqueueNext(Untold, budget) /\ UNCHANGED <<enabled, prompts, chosen, interrupts>>
    BY DEF StartRelay, Free
<1>2. Untold \in Sources /\ Untold.report = 0
    BY Bounds DEF Untold, Sources
<1>3. Books' /\ TurnIsSound' /\ SameReports /\ RelayTyped'
    BY <1>1, <1>2, Bounds, EnqueuingKeeps DEF IInv, Books
<1>4. LastKnown'
    BY <1>1, <1>2 DEF LastKnown
<1> QED
    BY <1>1, <1>3, <1>4, Bounds DEF IInv, Counters, RelayTyped

\* A relay continued from a report makes the report exempt.
LEMMA ContinueRelayKeeps ==
    ASSUME IInv, NEW budget \in Budgets, ContinueRelay(budget) PROVE IInv'
<1> DEFINE exempt == chosen \cup ({last.report} \cap Reports)
<1>1. /\ enabled # {} /\ queue = <<>> /\ last # Null
      /\ starts' = starts + 1 /\ starts < MaxStarts
      /\ EnqueueNext(last, budget) /\ chosen' = exempt
      /\ UNCHANGED <<enabled, last, prompts, interrupts>>
    BY DEF ContinueRelay, Free
<1>2. last \in Sources /\ last.report \in {0} \cup DOMAIN messages
    BY <1>1 DEF IInv, LastKnown
<1>3. last.report = 0 \/ last.report \in exempt \cap DOMAIN messages
    BY <1>2, ReportsAreNumbers DEF IInv, Books
<1>4. \A i \in DOMAIN messages : ~Queued(i)
    BY <1>1 DEF IInv, Books, Fifo, InQueue
<1>5. Books' /\ TurnIsSound' /\ SameReports /\ RelayTyped'
    <2>1. exempt \in SUBSET Reports /\ chosen \subseteq exempt
        BY DEF IInv, Books
    <2> HIDE DEF exempt
    <2> QED
        BY <1>1, <1>2, <1>3, <1>4, <2>1, Bounds, EnqueuingKeeps DEF IInv
<1> QED
    BY <1>1, <1>5, Bounds DEF IInv, LastKnown, Counters, RelayTyped, SameReports

LEMMA StartMemberTurnKeeps ==
    ASSUME IInv, NEW m \in Members, StartMemberTurn(m) PROVE IInv'
<1> DEFINE t == Pending(m, Untold, {}, 0)
<1>1. /\ enabled # {} /\ last' = Untold /\ starts' = starts + 1 /\ starts < MaxStarts
      /\ turn' = t /\ relay' = [active |-> TRUE, remaining |-> 0, stopped |-> FALSE]
      /\ UNCHANGED <<enabled, messages, queue, prompts, chosen, interrupts>>
    BY DEF StartMemberTurn, Free
<1>2. Untold \in Sources /\ Untold.report = 0
    BY Bounds DEF Untold, Sources
<1>3. t \in Turn /\ t.inbox = {} /\ Addressed(t) = {}
    BY <1>2, Bounds DEF Pending, Turn, Addressed, Reports
<1> HIDE DEF t
<1>4. SoundTurn(t, chosen)
    BY <1>3, FS_EmptySet, Bounds DEF SoundTurn
<1>5. Books' /\ TurnIsSound'
    BY <1>1, <1>4, BooksKept, SoundKept DEF IInv
<1>6. LastKnown'
    BY <1>1, <1>2 DEF LastKnown
<1> QED
    BY <1>1, <1>5, <1>6, Bounds DEF IInv, Counters

\* The prompt of a turn not sent before: its own reports, in no prompt yet,
\* are in one now.
LEMMA PromptKeeps == ASSUME IInv, Prompt PROVE IInv'
<1>1. /\ turn # Null /\ ~turn.dispatched /\ turn' = [turn EXCEPT !.dispatched = TRUE]
      /\ prompts' = [i \in Reports |->
            IF i \in Addressed(turn) /\ prompts[i] < 2 THEN prompts[i] + 1 ELSE prompts[i]]
      /\ UNCHANGED <<enabled, messages, queue, relay, last, chosen, starts, interrupts>>
    BY DEF Prompt, At
<1>2. SoundTurn(turn, chosen) /\ enabled # {} /\ Books
    BY <1>1 DEF IInv, TurnIsSound
<1>3. \A i \in Reports : prompts[i] \in 0..2
    BY <1>2 DEF Books
<1>4. prompts' \in [Reports -> 0..2]
    BY <1>1, <1>3
<1>5. \A i \in Reports \ chosen :
        /\ i \in Addressed(turn) => prompts[i] = 0 /\ prompts'[i] = 1
        /\ i \notin Addressed(turn) => prompts'[i] = prompts[i]
    BY <1>1, <1>2 DEF SoundTurn
<1>6. \A i : Queued(i)' <=> Queued(i)
    BY <1>1 DEF Queued
<1>7. QueueTyped' /\ Fifo'
    BY <1>1, <1>2, <1>6 DEF Books, QueueTyped, Fifo, InQueue, InOrder
<1>8. Aimed'
    <2>1. \A i \in DOMAIN messages : Recipient(messages[i].from)' = Recipient(messages[i].from)
        BY <1>1, SameRecipient
    <2> QED
        BY <1>1, <1>2, <1>6, <2>1 DEF Books, Aimed
<1>9. Fresh'
    BY <1>1, <1>2, <1>5, <1>6 DEF Books, Fresh, SoundTurn
<1>10. PromptedOnce'
    BY <1>1, <1>2, <1>5 DEF Books, PromptedOnce
<1>11. TurnIsSound'
    <2>1. /\ turn' \in Turn /\ turn'.dispatched /\ turn'.member = turn.member
          /\ turn'.inbox = turn.inbox /\ turn'.source = turn.source
        BY <1>1, <1>2 DEF SoundTurn, Turn
    <2>2. Addressed(turn)' = Addressed(turn)
        BY <2>1 DEF Addressed, Reports
    <2> QED
        BY <1>1, <1>2, <1>6, <2>1, <2>2 DEF TurnIsSound, SoundTurn
<1> QED
    BY <1>1, <1>2, <1>4, <1>7, <1>8, <1>9, <1>10, <1>11 DEF IInv, Books, LastKnown, Counters

LEMMA RetryKeeps == ASSUME IInv, Retry PROVE IInv'
<1> DEFINE t == Pending(turn.member, turn.source, {}, turn.tries + 1)
<1>1. /\ turn # Null /\ ~turn.dispatched /\ turn.tries < MaxTries /\ turn' = t
      /\ UNCHANGED <<enabled, messages, queue, relay, last, prompts, chosen, starts, interrupts>>
    BY DEF Retry, At
<1>2. t \in Turn /\ t.inbox = {} /\ t.member = turn.member /\ t.source = turn.source
    BY <1>1, TurnFields, Bounds DEF Pending, Turn, IInv
<1> HIDE DEF t
<1>3. Books' /\ TurnIsSound' /\ LastKnown'
    BY <1>1, <1>2, TurnReplaced
<1> QED
    BY <1>1, <1>3 DEF IInv, Counters

LEMMA ReplayKeeps == ASSUME IInv, Replay PROVE IInv'
<1> DEFINE t == Pending(turn.member, turn.source, turn.inbox, turn.tries)
<1>1. /\ turn # Null /\ ~turn.dispatched /\ turn' = t
      /\ relay' = [active |-> turn.live, remaining |-> turn.left, stopped |-> FALSE]
      /\ UNCHANGED <<enabled, messages, queue, last, prompts, chosen, starts, interrupts>>
    BY DEF Replay, Replayable, At
<1>2. /\ t \in Turn /\ t.inbox = turn.inbox /\ t.member = turn.member
      /\ t.source = turn.source
    BY <1>1, TurnFields DEF Pending, Turn, IInv
<1> HIDE DEF t
<1>3. Books' /\ TurnIsSound' /\ LastKnown'
    BY <1>1, <1>2, TurnReplaced
<1> QED
    BY <1>1, <1>3, TurnFields DEF IInv, Counters

\* Parking, a crash, and a deadline that passes move the turn.
LEMMA ParkingKeeps == ASSUME IInv, ParkCurrent \/ Crash \/ Expire PROVE IInv'
<1>1. PICK t : /\ turn' = t
               /\ \/ t = [turn EXCEPT !.at = "parked"]
                  \/ t = [turn EXCEPT !.at = "passive", !.stop = "expired",
                                      !.live = FALSE, !.left = 0]
    BY DEF ParkCurrent, Crash, Expire
<1>2. /\ turn # Null /\ UNCHANGED <<enabled, messages, queue, last, prompts, chosen, starts>>
      /\ relay' = relay \/ relay' = Idle
      /\ \/ interrupts' = interrupts
         \/ interrupts < MaxInterrupts /\ interrupts' = interrupts + 1
    BY DEF ParkCurrent, Crash, Expire, At
<1>3. turn \in Turn
    BY <1>2, TurnFields DEF IInv
<1>4. /\ t \in Turn /\ t.inbox = turn.inbox /\ t.member = turn.member
      /\ t.source = turn.source /\ t.dispatched = turn.dispatched
    <2>1. CASE t = [turn EXCEPT !.at = "parked"]
        BY <1>3, <2>1 DEF Turn
    <2>2. CASE t = [turn EXCEPT !.at = "passive", !.stop = "expired", !.live = FALSE, !.left = 0]
        BY <1>3, <2>2 DEF Turn
    <2> QED
        BY <1>1, <2>1, <2>2
<1>5. Books' /\ TurnIsSound' /\ LastKnown'
    BY <1>1, <1>2, <1>4, TurnReplaced
<1> QED
    <2>1. relay' \in [active : BOOLEAN, remaining : Nat, stopped : BOOLEAN]
        <3>1. Idle \in [active : BOOLEAN, remaining : Nat, stopped : BOOLEAN]
            BY DEF Idle
        <3> QED
            BY <1>2, <3>1 DEF IInv, Counters
    <2>2. starts' \in 0..MaxStarts /\ interrupts' \in 0..MaxInterrupts
        BY <1>2, Bounds DEF IInv, Counters
    <2> QED
        BY <1>5, <2>1, <2>2 DEF IInv, Counters

LEMMA CompleteTurnKeeps ==
    ASSUME IInv, NEW ends \in BOOLEAN, CompleteTurn(ends) PROVE IInv'
<1>1. turn # Null /\ Settle(ends, relay) /\ relay.remaining \in Nat
      /\ UNCHANGED <<enabled, prompts, chosen, starts, interrupts>>
    BY DEF CompleteTurn, At, IInv, Counters
<1>2. Books' /\ TurnIsSound' /\ LastKnown' /\ RelayTyped'
    BY <1>1, SettlingKeeps DEF IInv
<1> QED
    BY <1>1, <1>2 DEF IInv, Counters, RelayTyped

LEMMA RecoveredKeeps ==
    ASSUME IInv, NEW ends \in BOOLEAN, Recovered(ends) PROVE IInv'
<1> DEFINE settles == ends /\ turn.stop = "no"
           live == [active |-> turn.live, remaining |-> turn.left,
                    stopped |-> turn.stop = "user"]
<1>1. turn # Null /\ Settle(settles, live) /\ UNCHANGED <<enabled, prompts, chosen, starts, interrupts>>
    BY DEF Recovered, At
<1>2. settles \in BOOLEAN /\ live.remaining \in Nat
    BY <1>1, TurnFields DEF IInv
<1> HIDE DEF settles, live
<1>3. Books' /\ TurnIsSound' /\ LastKnown' /\ RelayTyped'
    BY <1>1, <1>2, SettlingKeeps DEF IInv
<1> QED
    BY <1>1, <1>3 DEF IInv, Counters, RelayTyped

LEMMA FailCurrentKeeps == ASSUME IInv, FailCurrent PROVE IInv'
<1>1. /\ last' = Untold /\ SetStopped(FALSE)
      /\ UNCHANGED <<enabled, prompts, chosen, starts, interrupts>>
    BY DEF FailCurrent
<1>2. Books' /\ TurnIsSound' /\ SameReports
    BY <1>1, StoppingKeeps DEF IInv
<1>3. LastKnown'
    BY <1>1, Bounds DEF LastKnown, Untold, Sources
<1> QED
    BY <1>1, <1>2, <1>3 DEF IInv, Counters, SetStopped, Idle

LEMMA LedgerUncertainKeeps == ASSUME IInv, LedgerUncertain PROVE IInv'
<1>1. SetStopped(FALSE) /\ UNCHANGED <<enabled, last, prompts, chosen, starts, interrupts>>
    BY DEF LedgerUncertain
<1>2. Books' /\ TurnIsSound' /\ SameReports
    BY <1>1, StoppingKeeps DEF IInv
<1> QED
    BY <1>1, <1>2 DEF IInv, LastKnown, Counters, SetStopped, Idle, SameReports

LEMMA StopRelayKeeps == ASSUME IInv, StopRelay PROVE IInv'
<1>1. CASE /\ InFlight
           /\ turn' = [turn EXCEPT !.stop = "user", !.live = FALSE, !.left = 0]
           /\ relay' = [Idle EXCEPT !.stopped = TRUE]
           /\ UNCHANGED <<messages, queue>>
    <2>1. turn # Null /\ UNCHANGED <<enabled, last, prompts, chosen, starts, interrupts>>
        BY <1>1 DEF StopRelay, InFlight, At
    <2>2. PICK t : t = [turn EXCEPT !.stop = "user", !.live = FALSE, !.left = 0]
        OBVIOUS
    <2>3. /\ t \in Turn /\ t.inbox = turn.inbox /\ t.member = turn.member
          /\ t.source = turn.source /\ t.dispatched = turn.dispatched
        BY <2>1, <2>2, TurnFields DEF IInv, Turn
    <2>4. Books' /\ TurnIsSound' /\ LastKnown'
        BY <1>1, <2>1, <2>2, <2>3, TurnReplaced
    <2> QED
        BY <1>1, <2>1, <2>4 DEF IInv, Counters, Idle
<1>2. CASE SetStopped(TRUE)
    <2>1. UNCHANGED <<enabled, last, prompts, chosen, starts, interrupts>>
        BY DEF StopRelay
    <2>2. Books' /\ TurnIsSound' /\ SameReports
        BY <1>2, <2>1, StoppingKeeps DEF IInv
    <2> QED
        BY <1>2, <2>1, <2>2 DEF IInv, LastKnown, Counters, SetStopped, Idle, SameReports
<1> QED
    BY <1>1, <1>2 DEF StopRelay

LEMMA ArchiveKeeps == ASSUME IInv, Archive PROVE IInv'
<1>1. turn' = Null
      /\ UNCHANGED <<enabled, messages, queue, relay, last, prompts, chosen, starts, interrupts>>
    BY DEF Archive
<1>2. Books'
    BY <1>1, BooksKept DEF IInv
<1> QED
    BY <1>1, <1>2 DEF IInv, TurnIsSound, LastKnown, Counters

LEMMA StutterKeeps == ASSUME IInv, UNCHANGED vars PROVE IInv'
<1>1. Books'
    BY BooksKept DEF IInv, vars
<1>2. TurnIsSound'
    BY DEF vars, IInv, TurnIsSound, SoundTurn, Addressed, Queued, Reports
<1> QED
    BY <1>1, <1>2 DEF vars, IInv, LastKnown, Counters

LEMMA StepIInv == IInv /\ [Next]_vars => IInv'
<1> SUFFICES ASSUME IInv, [Next]_vars PROVE IInv'
    OBVIOUS
<1>1. CASE Activate \/ Begin
    BY <1>1, ActivateKeeps, BeginKeeps DEF Activate
<1>2. CASE Running
    BY <1>2, PromptKeeps, RetryKeeps, FailCurrentKeeps, ParkingKeeps, CompleteTurnKeeps
    DEF Running
<1>3. CASE Recovery \/ Archive
    BY <1>3, ReplayKeeps, LedgerUncertainKeeps, ParkingKeeps, RecoveredKeeps, ArchiveKeeps
    DEF Recovery
<1>4. CASE Outside
    BY <1>4, AdmitKeeps, ToggleKeeps, StartMemberTurnKeeps, StartRelayKeeps, ContinueRelayKeeps,
       StopRelayKeeps, ParkingKeeps
    DEF Outside
<1>5. CASE UNCHANGED vars
    BY <1>5, StutterKeeps
<1> QED
    BY <1>1, <1>2, <1>3, <1>4, <1>5 DEF Next

-----------------------------------------------------------------------------
(* The theorems.                                                           *)

LEMMA Invariance == Spec => []IInv
BY InitIInv, StepIInv, PTL DEF Spec

LEMMA IInvImplies ==
    IInv => TypeOK /\ ReceiptsAgree /\ InOrder /\ RecipientKept /\ PromptedOnce /\ NothingTrimmed
<1> SUFFICES ASSUME IInv
             PROVE  TypeOK /\ ReceiptsAgree /\ InOrder /\ RecipientKept /\ PromptedOnce
                    /\ NothingTrimmed
    OBVIOUS
<1>1. TypeOK
    BY DEF IInv, Books, QueueTyped, TurnIsSound, SoundTurn, LastKnown, Counters, TypeOK
<1>2. ReceiptsAgree
    BY DEF IInv, Books, Fifo, InQueue, TurnIsSound, SoundTurn, ReceiptsAgree
<1>3. RecipientKept /\ NothingTrimmed
    BY DEF IInv, TurnIsSound, SoundTurn, RecipientKept, NothingTrimmed
<1> QED
    BY <1>1, <1>2, <1>3 DEF IInv, Books, Fifo

\* Every reachable state of the room's inbox is of its type.
THEOREM InboxTyped == Spec => []TypeOK
BY Invariance, IInvImplies, PTL

\* The receipts a sender asks after agree with the queue, whatever batches,
\* stops, retries and recoveries took place (updateReceipts, takeBatch).
THEOREM ReceiptsAlwaysAgree == Spec => []ReceiptsAgree
BY Invariance, IInvImplies, PTL

\* Reports leave the queue in the order of admission (takeBatch).
THEOREM TakenInOrder == Spec => []InOrder
BY Invariance, IInvImplies, PTL

\* A report reaches only the recipient its admission chose: the batch is for
\* one member who takes part, and who takes part cannot change meanwhile.
THEOREM RecipientAlwaysKept == Spec => []RecipientKept
BY Invariance, IInvImplies, PTL

\* A report is in one prompt: a turn that is tried or queued again was not
\* sent, and one that was sent is never queued again.
THEOREM AlwaysPromptedOnce == Spec => []PromptedOnce
BY Invariance, IInvImplies, PTL

\* The inbox of a turn always fits the journal written of it.
THEOREM JournalFits == Spec => []NothingTrimmed
BY Invariance, IInvImplies, PTL
=============================================================================
