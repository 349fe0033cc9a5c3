------------------------- MODULE TurnLedger_proofs -------------------------
(***************************************************************************)
(* What the file keeps, for any requests and bounds: an event once written *)
(* is read back by every later start, or the file holds a line that does   *)
(* not parse.  From it: the ledger tells recovery the truth until its      *)
(* evidence is laundered, and the gate lets a request through once.        *)
(***************************************************************************)
EXTENDS TurnLedger, SequenceTheorems, FiniteSetTheorems, WellFoundedInduction, TLAPS

-----------------------------------------------------------------------------
(* The file.                                                               *)

\* A request's event is in the file, or the file shows damage.
Holds(f, r) == r \in Ids(f) \/ ~Readable(f)

\* The request's last event is its completion, or the file shows damage.
HoldsDone(f, r) ==
    \/ ~Readable(f)
    \/ \E i \in DOMAIN f : IsLast(f, r, i) /\ f[i].state = "completed"

\* The damaged line is none of the events.
LEMMA DamagedIsNoEvent ==
    /\ Damaged \in Lines /\ Damaged.id \notin Requests
    /\ \A e \in Events : e # Damaged /\ e.id \in Requests
BY RequestsAssumption DEF Damaged, Lines, Events

\* Writing a line, whole or glued to an unfinished one.
LEMMA PutLine ==
    ASSUME NEW f \in Seq(Lines), NEW unfinished \in BOOLEAN,
           unfinished => f # <<>>, NEW line \in Lines
    PROVE  LET g == Put(f, unfinished, line) IN
           /\ g \in Seq(Lines) /\ g # <<>>
           /\ \/ ~Readable(g)
              \/ /\ g = Append(f, line) /\ line # Damaged /\ Readable(f)
<1> DEFINE g == Put(f, unfinished, line)
<1>1. CASE unfinished
    <2>1. Len(f) \in 1 .. Len(f) /\ DOMAIN f = 1 .. Len(f)
        BY <1>1, EmptySeq, LenProperties
    <2>2. g = [f EXCEPT ![Len(f)] = Damaged]
        BY <1>1 DEF Put
    <2>3. g \in Seq(Lines) /\ Len(g) = Len(f) /\ g[Len(f)] = Damaged
        BY <2>1, <2>2, DamagedIsNoEvent, ExceptSeq
    <2>4. Len(f) \in DOMAIN g
        BY <2>1, <2>2
    <2> QED
        BY <2>1, <2>3, <2>4, EmptySeq DEF Readable
<1>2. CASE ~unfinished
    <2>1. g = Append(f, line)
        BY <1>2 DEF Put
    <2>2. /\ g \in Seq(Lines) /\ g # <<>>
          /\ DOMAIN g = 1 .. Len(f) + 1 /\ g[Len(f) + 1] = line
          /\ \A i \in 1 .. Len(f) : g[i] = f[i]
          /\ Len(f) \in Nat /\ DOMAIN f = 1 .. Len(f)
        BY <2>1
    <2> QED
        BY <2>1, <2>2 DEF Readable
<1> QED
    BY <1>1, <1>2

\* Appending an event loses no request and makes its own the last of its kind.
LEMMA PutHolds ==
    ASSUME NEW f \in Seq(Lines), NEW unfinished \in BOOLEAN,
           unfinished => f # <<>>, NEW line \in Lines,
           NEW g, g = Put(f, unfinished, line)
    PROVE  /\ \A r \in Requests : Holds(f, r) \/ r = line.id => Holds(g, r)
           /\ \A r \in Requests : HoldsDone(f, r) /\ r # line.id => HoldsDone(g, r)
           /\ line.id \in Requests /\ line.state = "completed" => HoldsDone(g, line.id)
<1>1. CASE ~Readable(g)
    BY <1>1 DEF Holds, HoldsDone
<1>2. CASE Readable(g)
    <2>1. Readable(f) /\ g = Append(f, line)
        BY <1>2, PutLine
    <2>2. /\ DOMAIN g = 1 .. Len(f) + 1 /\ g[Len(f) + 1] = line
          /\ \A i \in 1 .. Len(f) : g[i] = f[i]
          /\ Len(f) \in Nat /\ DOMAIN f = 1 .. Len(f)
        BY <2>1
    <2>3. \A r \in Requests : Holds(f, r) \/ r = line.id => Holds(g, r)
        BY <2>1, <2>2 DEF Ids, Holds
    <2>4. ASSUME NEW r \in Requests, HoldsDone(f, r), r # line.id PROVE HoldsDone(g, r)
        <3>1. PICK i \in DOMAIN f : IsLast(f, r, i) /\ f[i].state = "completed"
            BY <2>1, <2>4 DEF HoldsDone
        <3>2. i \in DOMAIN g /\ IsLast(g, r, i) /\ g[i].state = "completed"
            BY <2>2, <2>4, <3>1 DEF IsLast
        <3> QED
            BY <3>2 DEF HoldsDone
    <2>5. ASSUME line.id \in Requests, line.state = "completed"
          PROVE  HoldsDone(g, line.id)
        <3>1. Len(f) + 1 \in DOMAIN g /\ IsLast(g, line.id, Len(f) + 1)
            BY <2>2 DEF IsLast
        <3> QED
            BY <2>2, <2>5, <3>1 DEF HoldsDone
    <2> QED
        BY <2>3, <2>4, <2>5
<1> QED
    BY <1>1, <1>2

\* A write that never returned costs nothing that was in the file.
LEMMA CutShortHolds ==
    ASSUME file \in Seq(Lines), open \in BOOLEAN, open => file # <<>>,
           NEW e \in Events, CutShort(e)
    PROVE  /\ file' \in Seq(Lines) /\ open' \in BOOLEAN /\ (open' => file' # <<>>)
           /\ \A r \in Requests : Holds(file, r) => Holds(file', r)
           /\ \A r \in Requests : HoldsDone(file, r) /\ r # e.id => HoldsDone(file', r)
<1>1. CASE UNCHANGED disk
    BY <1>1 DEF disk
<1>2. CASE file' = Put(file, open, Damaged) /\ open' = TRUE
    <2>1. file' \in Seq(Lines) /\ file' # <<>>
        BY <1>2, PutLine, DamagedIsNoEvent
    <2>2. /\ \A r \in Requests : Holds(file, r) \/ r = Damaged.id => Holds(file', r)
          /\ \A r \in Requests : HoldsDone(file, r) /\ r # Damaged.id => HoldsDone(file', r)
        BY <1>2, PutHolds, DamagedIsNoEvent
    <2> QED
        BY <1>2, <2>1, <2>2, DamagedIsNoEvent
<1>3. CASE file' = Put(file, open, e) /\ open' \in BOOLEAN
    <2>1. e \in Lines
        BY DEF Lines
    <2>2. file' \in Seq(Lines) /\ file' # <<>>
        BY <1>3, <2>1, PutLine
    <2>3. /\ \A r \in Requests : Holds(file, r) \/ r = e.id => Holds(file', r)
          /\ \A r \in Requests : HoldsDone(file, r) /\ r # e.id => HoldsDone(file', r)
        BY <1>3, <2>1, PutHolds
    <2> QED
        BY <1>3, <2>2, <2>3
<1> QED
    BY <1>1, <1>2, <1>3 DEF CutShort

\* A request with an event has a last one.
LEMMA LastExists ==
    ASSUME NEW f \in Seq(Lines), NEW r \in Ids(f)
    PROVE  \E i \in DOMAIN f : IsLast(f, r, i)
<1> DEFINE Distances == {k \in Nat : Len(f) - k \in DOMAIN f /\ f[Len(f) - k].id = r}
<1>1. Len(f) \in Nat /\ DOMAIN f = 1 .. Len(f)
    OBVIOUS
<1>2. PICK i \in DOMAIN f : f[i].id = r
    BY DEF Ids
<1>3. Len(f) - i \in Distances
    BY <1>1, <1>2
<1>4. PICK k \in Distances : \A n \in Distances : ~(<<n, k>> \in OpToRel(<, Nat))
    BY <1>3, NatLessThanWellFounded, WFMin
<1>5. \A n \in Distances : ~(n < k)
    BY <1>4 DEF OpToRel
<1>6. ASSUME NEW j \in DOMAIN f, f[j].id = r PROVE j <= Len(f) - k
    <2>1. Len(f) - j \in Distances
        BY <1>1, <1>6
    <2> QED
        BY <1>1, <1>5, <2>1
<1> QED
    BY <1>6 DEF IsLast

\* What a start remembers of any file.
LEMMA LatestTyped ==
    ASSUME NEW f \in Seq(Lines)
    PROVE  /\ DOMAIN Latest(f) = Ids(f) /\ Ids(f) \subseteq Requests
           /\ Latest(f) \in [DOMAIN Latest(f) -> States]
<1>1. ASSUME NEW r \in Ids(f)
      PROVE  f[CHOOSE i \in DOMAIN f : IsLast(f, r, i)].state \in States
    <2> DEFINE last == CHOOSE i \in DOMAIN f : IsLast(f, r, i)
    <2>1. last \in DOMAIN f
        BY LastExists
    <2> HIDE DEF last
    <2>2. f[last] \in Lines
        BY <2>1, ElementOfSeq
    <2>3. f[last].state \in States
        BY <2>2 DEF Lines, Events, Damaged, States
    <2> QED
        BY <2>3 DEF last
<1> QED
    BY <1>1 DEF Latest, Ids

\* What a start remembers of a file in order.
LEMMA LatestReads ==
    ASSUME NEW f \in Seq(Lines), Readable(f)
    PROVE  /\ DOMAIN Latest(f) = Ids(f) /\ Ids(f) \subseteq Requests
           /\ \A r \in Requests : HoldsDone(f, r) =>
                r \in Ids(f) /\ Latest(f)[r] = "completed"
<1>1. ASSUME NEW r \in Requests, HoldsDone(f, r)
      PROVE  r \in Ids(f) /\ Latest(f)[r] = "completed"
    <2>1. PICK i \in DOMAIN f : IsLast(f, r, i) /\ f[i].state = "completed"
        BY <1>1 DEF HoldsDone
    <2>2. \A j \in DOMAIN f : IsLast(f, r, j) => j = i
        BY <2>1 DEF IsLast
    <2>3. (CHOOSE j \in DOMAIN f : IsLast(f, r, j)) = i
        BY <2>1, <2>2
    <2>4. r \in Ids(f)
        BY <2>1 DEF IsLast, Ids
    <2> QED
        BY <2>1, <2>3, <2>4 DEF Latest
<1> QED
    BY <1>1 DEF Latest, Ids

\* A rewrite holds exactly the entries it was made from, each of them last.
LEMMA RewriteHolds ==
    ASSUME NEW m, DOMAIN m \subseteq Requests, NEW f \in Rewrites(m)
    PROVE  /\ f \in Seq(Lines)
           /\ \A r \in DOMAIN m : Holds(f, r)
           /\ \A r \in DOMAIN m : m[r] = "completed" => HoldsDone(f, r)
<1>1. Cardinality(DOMAIN m) \in Nat
    BY FiniteAssumption, FS_Subset, FS_CardinalityType
<1>2. /\ f \in [1 .. Cardinality(DOMAIN m) -> Events]
      /\ {f[i] : i \in DOMAIN f} = {Event(r, m[r]) : r \in DOMAIN m}
      /\ \A i, j \in DOMAIN f : f[i] = f[j] => i = j
    BY DEF Rewrites
<1>3. f \in Seq(Lines)
    BY <1>1, <1>2 DEF Lines
<1>4. ASSUME NEW r \in DOMAIN m
      PROVE  /\ r \in Ids(f)
             /\ m[r] = "completed" => HoldsDone(f, r)
    <2>1. PICK i \in DOMAIN f : f[i] = Event(r, m[r])
        BY <1>2
    <2>2. f[i].id = r /\ f[i].state = m[r]
        BY <2>1 DEF Event
    <2>3. ASSUME NEW j \in DOMAIN f, f[j].id = r PROVE j = i
        <3>1. PICK q \in DOMAIN m : f[j] = Event(q, m[q])
            BY <1>2
        <3>2. q = r
            BY <2>3, <3>1 DEF Event
        <3> QED
            BY <1>2, <2>1, <3>1, <3>2
    <2>4. IsLast(f, r, i)
        BY <1>2, <2>2, <2>3 DEF IsLast
    <2> QED
        BY <2>2, <2>4 DEF HoldsDone, Ids
<1> QED
    BY <1>3, <1>4 DEF Holds

-----------------------------------------------------------------------------
(* The inductive invariant.                                                *)

Busy == compacting => Working /\ Known(Head(chain).id)

Down == ~up => chain = <<>> /\ DOMAIN latest = {}

\* A life that read an unreliable file says so throughout.
Verdict ==
    /\ ~trusted => ~reliable
    /\ past = "clean" => trusted

\* What is remembered, and what went out, is in the file.
Durable ==
    /\ open => file # <<>>
    /\ \A r \in DOMAIN latest : Holds(file, r)
    /\ past # "laundered" => \A r \in Requests : sends[r] > 0 => Holds(file, r)

\* A life that read a reliable file remembers what went out.
Remembered ==
    up /\ trusted /\ past # "laundered" =>
        \A r \in Requests : sends[r] > 0 => Known(r)

\* A dispatch queued at the gate holds its request's only reservation.
GateOnce ==
    past = "clean" =>
        /\ \A r \in Requests : sends[r] <= 1
        /\ \A i \in 1 .. Len(chain) : chain[i].gate =>
            chain[i].id \in pendingDispatches /\ sends[chain[i].id] = 0
        /\ \A i, j \in 1 .. Len(chain) :
            chain[i].gate /\ chain[j].gate /\ chain[i].id = chain[j].id => i = j

\* A committed completion is the last event of its request, in memory and file.
Done ==
    past = "clean" =>
        \A r \in finished :
            /\ HoldsDone(file, r)
            /\ up => Known(r) /\ latest[r] = "completed"

IInv ==
    TypeOK /\ Busy /\ Down /\ Verdict /\ Durable /\ Remembered /\ GateOnce /\ Done

LEMMA InitIInv == Init => IInv
<1> SUFFICES ASSUME Init PROVE IInv
    OBVIOUS
<1> USE DEF Init
<1>1. DOMAIN Latest(<<>>) = {} /\ Latest(<<>>) \in [{} -> States]
    BY DEF Latest, Ids
<1>2. TypeOK
    BY <1>1, EmptySeq DEF TypeOK
<1>3. Busy /\ Down /\ Verdict
    BY <1>1 DEF Busy, Down, Verdict
<1>4. Durable /\ Remembered /\ Done
    BY <1>1 DEF Durable, Remembered, Done
<1>5. GateOnce
    BY EmptySeq DEF GateOnce
<1> QED
    BY <1>2, <1>3, <1>4, <1>5 DEF IInv

\* The head of the chain is a record, and its event a line of the file.
LEMMA HeadTyped ==
    ASSUME TypeOK, Working
    PROVE  /\ Head(chain) \in Records /\ Head(chain) = chain[1]
           /\ Head(chain).id \in Requests /\ Head(chain).state \in States
           /\ Event(Head(chain).id, Head(chain).state) \in Events
           /\ Len(chain) \in Nat \ {0}
<1>1. chain \in Seq(Records) /\ chain # <<>>
    BY DEF TypeOK, Working
<1>2. Len(chain) \in Nat \ {0} /\ Head(chain) = chain[1]
    BY <1>1, EmptySeq
<1>3. Head(chain) \in Records
    BY <1>1, HeadTailProperties
<1> QED
    BY <1>2, <1>3 DEF Records, Event, Events

\* What resolving the head changes.
LEMMA ResolveTyped ==
    ASSUME TypeOK, Working, NEW passed \in BOOLEAN, Resolve(passed)
    PROVE  /\ chain' \in Seq(Records) /\ compacting' = FALSE
           /\ pendingDispatches' \subseteq Requests
           /\ sends' \in [Requests -> Nat]
           /\ \A r \in Requests : sends'[r] > 0 =>
                sends[r] > 0 \/ (passed /\ r = Head(chain).id)
<1>1. chain' \in Seq(Records)
    BY HeadTailProperties DEF TypeOK, Working, Resolve
<1>2. pendingDispatches' \subseteq Requests
    BY DEF TypeOK, Resolve
<1>3. /\ sends' \in [Requests -> Nat]
      /\ \A r \in Requests : sends'[r] > 0 =>
            sends[r] > 0 \/ (passed /\ r = Head(chain).id)
    BY HeadTyped DEF TypeOK, Resolve
<1> QED
    BY <1>1, <1>2, <1>3 DEF Resolve

\* Resolving the head keeps the reservations of those behind it.
LEMMA ResolveGateOnce ==
    ASSUME TypeOK, Working, GateOnce, NEW passed \in BOOLEAN, Resolve(passed),
           past' = "clean" => past = "clean"
    PROVE  GateOnce'
<1> SUFFICES ASSUME past' = "clean" PROVE GateOnce'
    BY DEF GateOnce
<1> DEFINE rec == Head(chain)
<1>1. /\ chain' = Tail(chain) /\ chain' \in Seq(Records)
      /\ Len(chain') = Len(chain) - 1 /\ Len(chain) \in Nat \ {0}
      /\ \A i \in 1 .. Len(chain') : chain'[i] = chain[i + 1] /\ i + 1 \in 1 .. Len(chain)
    BY HeadTailProperties, HeadTyped DEF TypeOK, Working, Resolve
<1>2. /\ rec \in Records /\ rec = chain[1] /\ 1 \in 1 .. Len(chain)
    BY HeadTyped
<1>3. /\ \A r \in Requests : sends[r] <= 1
      /\ \A i \in 1 .. Len(chain) : chain[i].gate =>
            chain[i].id \in pendingDispatches /\ sends[chain[i].id] = 0
      /\ \A i, j \in 1 .. Len(chain) :
            chain[i].gate /\ chain[j].gate /\ chain[i].id = chain[j].id => i = j
    BY DEF GateOnce
<1>4. ASSUME NEW i \in 1 .. Len(chain'), chain'[i].gate
      PROVE  chain'[i].id \in pendingDispatches' /\ sends'[chain'[i].id] = 0
    <2>1. /\ i + 1 \in 1 .. Len(chain) /\ chain[i + 1].gate
          /\ chain'[i].id = chain[i + 1].id
          /\ chain[i + 1] \in Records /\ chain[i + 1].id \in Requests
        <3>1. chain'[i] = chain[i + 1] /\ i + 1 \in 1 .. Len(chain)
            BY <1>1
        <3>2. chain[i + 1] \in Records
            BY <3>1, ElementOfSeq DEF TypeOK
        <3> QED
            BY <1>4, <3>1, <3>2 DEF Records
    <2>2. rec.gate => rec.id # chain'[i].id
        BY <1>2, <1>3, <2>1
    <2> QED
        BY <1>2, <1>3, <2>1, <2>2 DEF Resolve, TypeOK, Records
<1>5. \A r \in Requests : sends'[r] <= 1
    BY <1>2, <1>3 DEF Resolve, TypeOK, Records
<1>6. \A i, j \in 1 .. Len(chain') :
        chain'[i].gate /\ chain'[j].gate /\ chain'[i].id = chain'[j].id => i = j
    BY <1>1, <1>3
<1> QED
    BY <1>4, <1>5, <1>6 DEF GateOnce

-----------------------------------------------------------------------------
(* Every action keeps the invariant.                                       *)

\* A caller queues a record.
LEMMA EnqueueKeeps ==
    ASSUME IInv, NEW r \in Requests, NEW s \in States, NEW gate \in BOOLEAN, up,
           Enqueue(r, s, gate), gate => ~Known(r) /\ ~Reserved(r),
           pendingDispatches' = IF gate THEN pendingDispatches \cup {r}
                                        ELSE pendingDispatches,
           UNCHANGED <<disk, up, latest, reliable, writes, compacting, history, starts>>
    PROVE  IInv'
<1> DEFINE rec == [id |-> r, state |-> s, gate |-> gate]
<1> USE DEF IInv, disk, history
<1>1. rec \in Records /\ rec.id = r /\ rec.gate = gate
    BY DEF Records
<1>2. /\ chain' = Append(chain, rec) /\ chain' \in Seq(Records)
      /\ Len(chain') = Len(chain) + 1 /\ chain'[Len(chain) + 1] = rec
      /\ \A i \in 1 .. Len(chain) : chain'[i] = chain[i]
      /\ Len(chain) \in Nat
    BY <1>1 DEF Enqueue, TypeOK
<1>3. TypeOK'
    BY <1>2 DEF TypeOK, Enqueue
<1>4. Busy'
    <2>1. chain # <<>> => Head(chain') = Head(chain)
        BY <1>2, EmptySeq DEF TypeOK
    <2>2. chain' # <<>>
        BY <1>2, EmptySeq
    <2> QED
        BY <2>1, <2>2 DEF Busy, Working, Known
<1>5. Down' /\ Verdict' /\ Durable' /\ Remembered' /\ Done'
    BY DEF Down, Verdict, Durable, Remembered, Done, Known
<1>6. GateOnce'
    <2> SUFFICES ASSUME past = "clean" PROVE GateOnce'
        BY DEF GateOnce
    <2>1. /\ \A q \in Requests : sends[q] <= 1
          /\ \A i \in 1 .. Len(chain) : chain[i].gate =>
                chain[i].id \in pendingDispatches /\ sends[chain[i].id] = 0
          /\ \A i, j \in 1 .. Len(chain) :
                chain[i].gate /\ chain[j].gate /\ chain[i].id = chain[j].id => i = j
        BY DEF GateOnce
    <2>2. gate => sends[r] = 0 /\ r \notin pendingDispatches
        BY DEF Remembered, Verdict, TypeOK, Reserved
    <2>3. ASSUME NEW i \in 1 .. Len(chain'), chain'[i].gate
          PROVE  chain'[i].id \in pendingDispatches' /\ sends'[chain'[i].id] = 0
        <3>1. CASE i = Len(chain) + 1
            BY <1>1, <1>2, <2>2, <2>3, <3>1
        <3>2. CASE i \in 1 .. Len(chain)
            BY <1>2, <2>1, <2>3, <3>2
        <3> QED
            BY <1>2, <3>1, <3>2
    <2>4. ASSUME NEW i \in 1 .. Len(chain'), NEW j \in 1 .. Len(chain'),
                 chain'[i].gate, chain'[j].gate, chain'[i].id = chain'[j].id
          PROVE  i = j
        <3>1. ASSUME NEW k \in 1 .. Len(chain), chain'[k].gate
              PROVE  gate => chain'[k].id # r
            BY <1>2, <2>1, <2>2, <3>1
        <3>2. CASE i \in 1 .. Len(chain) /\ j \in 1 .. Len(chain)
            BY <1>2, <2>1, <2>4, <3>2
        <3>3. CASE i = Len(chain) + 1 /\ j \in 1 .. Len(chain)
            BY <1>1, <1>2, <2>4, <3>1, <3>3
        <3>4. CASE j = Len(chain) + 1 /\ i \in 1 .. Len(chain)
            BY <1>1, <1>2, <2>4, <3>1, <3>4
        <3> QED
            BY <1>2, <3>2, <3>3, <3>4
    <2> QED
        BY <2>1, <2>3, <2>4 DEF GateOnce
<1> QED
    BY <1>3, <1>4, <1>5, <1>6

\* What was completed supersedes whatever is recorded of it later.
LEMMA DoneSuperseded ==
    ASSUME IInv, up, past = "clean", NEW rec \in Records, ~Superseded(rec)
    PROVE  rec.id \notin finished
<1> SUFFICES ASSUME rec.id \in finished PROVE FALSE
    OBVIOUS
<1>1. Known(rec.id) /\ latest[rec.id] = "completed"
    BY DEF IInv, Done
<1>2. ORDER["completed"] = 4 /\ ORDER[rec.state] <= 4
    BY DEF ORDER, States, Records
<1>3. ORDER[rec.state] \in Nat
    BY DEF ORDER, States, Records
<1> QED
    BY <1>1, <1>2, <1>3 DEF Superseded

LEMMA SupersededKeeps == ASSUME IInv, RecordSuperseded PROVE IInv'
<1> USE DEF IInv, disk
<1>1. /\ TypeOK /\ Working /\ Resolve(TRUE) /\ Known(Head(chain).id)
      /\ UNCHANGED <<disk, up, latest, reliable, writes, finished, trusted, past,
                     calls, starts>>
    BY DEF RecordSuperseded, Superseded
<1>2. TypeOK'
    BY <1>1, ResolveTyped DEF TypeOK
<1>3. Busy' /\ Down' /\ Verdict' /\ Done'
    BY <1>1, ResolveTyped DEF Busy, Down, Verdict, Done, Working, Known
<1>4. Durable' /\ Remembered'
    BY <1>1, ResolveTyped, HeadTyped DEF Durable, Remembered, Known
<1>5. GateOnce'
    BY <1>1, ResolveGateOnce
<1> QED
    BY <1>2, <1>3, <1>4, <1>5

LEMMA AppendKeeps == ASSUME IInv, RecordAppend PROVE IInv'
<1> DEFINE rec == Head(chain)
           event == Event(rec.id, rec.state)
<1> USE DEF IInv
<1>1. /\ TypeOK /\ Working /\ ~compacting /\ ~Superseded(rec)
      /\ file' = Put(file, open, event) /\ open' = FALSE
      /\ latest' = [r \in DOMAIN latest \cup {rec.id} |->
                      IF r = rec.id THEN rec.state ELSE latest[r]]
      /\ writes' = writes + 1
      /\ finished' = IF rec.state = "completed"
                     THEN finished \cup {rec.id} ELSE finished
      /\ UNCHANGED <<up, reliable, trusted, past, calls, starts>>
      /\ \/ compacting' = TRUE /\ UNCHANGED <<chain, pendingDispatches, sends>>
         \/ Resolve(TRUE)
    BY DEF RecordAppend
<1>2. /\ rec \in Records /\ rec.id \in Requests /\ rec.state \in States
      /\ event \in Lines /\ event.id = rec.id /\ event.state = rec.state
    BY <1>1, HeadTyped DEF Lines, Event
<1>3. /\ file' \in Seq(Lines)
      /\ \A r \in Requests : Holds(file, r) \/ r = rec.id => Holds(file', r)
      /\ \A r \in Requests : HoldsDone(file, r) /\ r # rec.id => HoldsDone(file', r)
      /\ rec.state = "completed" => HoldsDone(file', rec.id)
    <2>1. file \in Seq(Lines) /\ open \in BOOLEAN /\ (open => file # <<>>)
        BY DEF TypeOK, Durable
    <2>2. file' \in Seq(Lines)
        BY <1>1, <1>2, <2>1, PutLine
    <2>3. /\ \A r \in Requests : Holds(file, r) \/ r = event.id => Holds(file', r)
          /\ \A r \in Requests : HoldsDone(file, r) /\ r # event.id => HoldsDone(file', r)
          /\ event.id \in Requests /\ event.state = "completed"
                => HoldsDone(file', event.id)
        BY <1>1, <1>2, <2>1, PutHolds
    <2> QED
        BY <1>2, <2>2, <2>3
<1>4. /\ chain' \in Seq(Records) /\ compacting' \in BOOLEAN
      /\ pendingDispatches' \subseteq Requests
      /\ sends' \in [Requests -> Nat]
      /\ \A r \in Requests : sends'[r] > 0 => sends[r] > 0 \/ r = rec.id
    BY <1>1, ResolveTyped DEF TypeOK
<1>5. /\ DOMAIN latest' = DOMAIN latest \cup {rec.id}
      /\ latest' \in [DOMAIN latest' -> States] /\ DOMAIN latest' \subseteq Requests
      /\ latest'[rec.id] = rec.state
      /\ \A r \in DOMAIN latest : r # rec.id => latest'[r] = latest[r]
    BY <1>1, <1>2 DEF TypeOK
<1>6. TypeOK'
    <2>1. finished' \subseteq Requests /\ writes' \in Nat
        BY <1>1, <1>2 DEF TypeOK
    <2> QED
        BY <1>1, <1>3, <1>4, <1>5, <2>1 DEF TypeOK
<1>7. Busy'
    BY <1>1, <1>5, ResolveTyped DEF Busy, Working, Known
<1>8. Down' /\ Verdict'
    BY <1>1 DEF Down, Verdict, Working
<1>9. Durable' /\ Remembered'
    BY <1>1, <1>2, <1>3, <1>4, <1>5 DEF Durable, Remembered, Known, TypeOK
<1>10. GateOnce'
    BY <1>1, ResolveGateOnce DEF GateOnce
<1>11. Done'
    <2> SUFFICES ASSUME past = "clean", NEW r \in finished'
                 PROVE  HoldsDone(file', r) /\ r \in DOMAIN latest'
                        /\ latest'[r] = "completed"
        BY <1>1 DEF Done, Known
    <2>1. rec.id \notin finished
        BY <1>1, <1>2, DoneSuperseded DEF Working
    <2>2. CASE r \in finished
        BY <1>1, <1>3, <1>5, <2>1, <2>2 DEF Done, Known, TypeOK, Working
    <2>3. CASE r = rec.id /\ rec.state = "completed"
        BY <1>3, <1>5, <2>3
    <2> QED
        BY <1>1, <2>2, <2>3
<1> QED
    BY <1>6, <1>7, <1>8, <1>9, <1>10, <1>11

LEMMA AppendFailsKeeps == ASSUME IInv, AppendFails PROVE IInv'
<1> DEFINE rec == Head(chain)
           event == Event(rec.id, rec.state)
<1> USE DEF IInv
<1>1. /\ TypeOK /\ Working /\ ~Superseded(rec)
      /\ CutShort(event) /\ Resolve(FALSE) /\ reliable' = FALSE
      /\ UNCHANGED <<up, latest, writes, finished, trusted, past, calls, starts>>
    BY DEF AppendFails, FailHead
<1>2. rec \in Records /\ rec.id \in Requests /\ event \in Events /\ event.id = rec.id
    BY <1>1, HeadTyped DEF Event
<1>3. /\ file' \in Seq(Lines) /\ open' \in BOOLEAN /\ (open' => file' # <<>>)
      /\ \A r \in Requests : Holds(file, r) => Holds(file', r)
      /\ \A r \in Requests : HoldsDone(file, r) /\ r # rec.id => HoldsDone(file', r)
    BY <1>1, <1>2, CutShortHolds DEF TypeOK, Durable
<1>4. /\ chain' \in Seq(Records) /\ compacting' = FALSE
      /\ pendingDispatches' \subseteq Requests /\ sends' \in [Requests -> Nat]
      /\ \A r \in Requests : sends'[r] > 0 => sends[r] > 0
    BY <1>1, ResolveTyped
<1>5. TypeOK'
    BY <1>1, <1>3, <1>4 DEF TypeOK
<1>6. Busy' /\ Down' /\ Verdict'
    BY <1>1, <1>4 DEF Busy, Down, Verdict, Working
<1>7. Durable' /\ Remembered'
    BY <1>1, <1>3, <1>4 DEF Durable, Remembered, Known, TypeOK
<1>8. GateOnce'
    BY <1>1, ResolveGateOnce
<1>9. Done'
    BY <1>1, <1>2, <1>3, DoneSuperseded DEF Done, Known, TypeOK, Working
<1> QED
    BY <1>5, <1>6, <1>7, <1>8, <1>9

LEMMA CompactKeeps == ASSUME IInv, Compact PROVE IInv'
<1> USE DEF IInv
<1>1. /\ TypeOK /\ Working /\ compacting /\ Resolve(TRUE)
      /\ file' \in Rewrites(latest) /\ open' = FALSE
      /\ past' = IF trusted THEN past ELSE "laundered"
      /\ UNCHANGED <<up, latest, reliable, writes, finished, trusted, calls, starts>>
    BY DEF Compact
<1>2. /\ file' \in Seq(Lines)
      /\ \A r \in DOMAIN latest : Holds(file', r)
      /\ \A r \in DOMAIN latest : latest[r] = "completed" => HoldsDone(file', r)
    BY <1>1, RewriteHolds DEF TypeOK
<1>3. /\ chain' \in Seq(Records) /\ compacting' = FALSE
      /\ pendingDispatches' \subseteq Requests /\ sends' \in [Requests -> Nat]
      /\ \A r \in Requests : sends'[r] > 0 => sends[r] > 0 \/ r = Head(chain).id
    BY <1>1, ResolveTyped
<1>4. Known(Head(chain).id)
    BY <1>1 DEF Busy
<1>5. TypeOK'
    BY <1>1, <1>2, <1>3 DEF TypeOK
<1>6. Busy' /\ Down' /\ Verdict'
    BY <1>1, <1>3 DEF Busy, Down, Verdict, Working
<1>7. Remembered'
    BY <1>1, <1>3, <1>4 DEF Remembered, Known
<1>8. Durable'
    <2>1. ASSUME past' # "laundered", NEW r \in Requests, sends'[r] > 0
          PROVE  r \in DOMAIN latest
        BY <1>1, <1>3, <1>4, <2>1 DEF Remembered, Known, Working
    <2> QED
        BY <1>1, <1>2, <2>1 DEF Durable
<1>9. GateOnce'
    BY <1>1, ResolveGateOnce
<1>10. Done'
    BY <1>1, <1>2 DEF Done, Known, Working
<1> QED
    BY <1>5, <1>6, <1>7, <1>8, <1>9, <1>10

LEMMA CompactFailsKeeps == ASSUME IInv, CompactFails PROVE IInv'
<1> USE DEF IInv, disk
<1>1. /\ TypeOK /\ Working /\ Resolve(FALSE) /\ reliable' = FALSE
      /\ UNCHANGED <<disk, up, latest, writes, finished, trusted, past, calls, starts>>
    BY DEF CompactFails, FailHead
<1>2. /\ chain' \in Seq(Records) /\ compacting' = FALSE
      /\ pendingDispatches' \subseteq Requests /\ sends' \in [Requests -> Nat]
      /\ \A r \in Requests : sends'[r] > 0 => sends[r] > 0
    BY <1>1, ResolveTyped
<1>3. TypeOK'
    BY <1>1, <1>2 DEF TypeOK
<1>4. Busy' /\ Down' /\ Verdict' /\ Done'
    BY <1>1, <1>2 DEF Busy, Down, Verdict, Done, Known, Working
<1>5. Durable' /\ Remembered'
    BY <1>1, <1>2 DEF Durable, Remembered, Known
<1>6. GateOnce'
    BY <1>1, ResolveGateOnce
<1> QED
    BY <1>3, <1>4, <1>5, <1>6

LEMMA CrashKeeps == ASSUME IInv, Crash PROVE IInv'
<1> DEFINE rec == Head(chain)
           event == Event(rec.id, rec.state)
<1> USE DEF IInv
<1>1. /\ TypeOK /\ up' = FALSE /\ chain' = <<>> /\ compacting' = FALSE
      /\ latest' = Latest(<<>>) /\ pendingDispatches' = {}
      /\ UNCHANGED <<reliable, writes, history, calls, starts>>
      /\ \/ Working /\ ~Superseded(rec) /\ CutShort(event)
         \/ UNCHANGED disk
    BY DEF Crash
<1>2. DOMAIN latest' = {} /\ latest' \in [{} -> States]
    BY <1>1 DEF Latest, Ids
<1>3. /\ file' \in Seq(Lines) /\ open' \in BOOLEAN /\ (open' => file' # <<>>)
      /\ \A r \in Requests : Holds(file, r) => Holds(file', r)
      /\ past = "clean" => \A r \in finished : HoldsDone(file', r)
    <2>1. CASE Working /\ ~Superseded(rec) /\ CutShort(event)
        <3>1. rec \in Records /\ event \in Events /\ event.id = rec.id
            BY <1>1, <2>1, HeadTyped DEF Event
        <3>2. /\ file' \in Seq(Lines) /\ open' \in BOOLEAN /\ (open' => file' # <<>>)
              /\ \A r \in Requests : Holds(file, r) => Holds(file', r)
              /\ \A r \in Requests : HoldsDone(file, r) /\ r # rec.id => HoldsDone(file', r)
            BY <2>1, <3>1, CutShortHolds DEF TypeOK, Durable
        <3>3. past = "clean" => rec.id \notin finished
            BY <2>1, <3>1, DoneSuperseded DEF Working
        <3> QED
            BY <3>2, <3>3 DEF Done, TypeOK
    <2>2. CASE UNCHANGED disk
        BY <2>2 DEF Done, TypeOK, Durable, disk
    <2> QED
        BY <1>1, <2>1, <2>2
<1>4. TypeOK'
    BY <1>1, <1>2, <1>3, EmptySeq DEF TypeOK, history
<1>5. Busy' /\ Down' /\ Verdict' /\ Remembered' /\ Done'
    BY <1>1, <1>2, <1>3 DEF Busy, Down, Verdict, Remembered, Done, history
<1>6. Durable'
    BY <1>1, <1>2, <1>3 DEF Durable, history
<1>7. GateOnce'
    BY <1>1, EmptySeq DEF GateOnce, history
<1> QED
    BY <1>4, <1>5, <1>6, <1>7

LEMMA StartKeeps ==
    ASSUME IInv, NEW entries, NEW verdict \in BOOLEAN, Start(entries, verdict),
           \/ entries = Latest(file) /\ verdict = Readable(file)
           \/ entries = Latest(<<>>) /\ verdict = FALSE
    PROVE  IInv'
<1> USE DEF IInv, disk
<1>1. /\ TypeOK /\ up' = TRUE /\ chain = <<>> /\ ~compacting
      /\ latest' = entries /\ reliable' = verdict /\ trusted' = verdict
      /\ past' = IF past = "clean" /\ ~verdict THEN "doubted" ELSE past
      /\ writes' = 0 /\ starts' = starts + 1
      /\ UNCHANGED <<disk, chain, compacting, pendingDispatches, sends, finished, calls>>
    BY DEF Start, Down, Busy, Working
<1>2. /\ DOMAIN latest' \subseteq Ids(file) /\ latest' \in [DOMAIN latest' -> States]
      /\ Ids(file) \subseteq Requests
    <2>1. <<>> \in Seq(Lines) /\ Ids(<<>>) = {}
        BY EmptySeq DEF Ids
    <2> QED
        BY <1>1, <2>1, LatestTyped DEF TypeOK
<1>3. TypeOK'
    BY <1>1, <1>2 DEF TypeOK
<1>4. Busy' /\ Down' /\ Verdict' /\ GateOnce'
    BY <1>1 DEF Busy, Down, Verdict, GateOnce
<1>5. Durable'
    BY <1>1, <1>2 DEF Durable, Holds
<1>6. verdict => Readable(file) /\ latest' = Latest(file)
    BY <1>1
<1>7. Remembered'
    <2> SUFFICES ASSUME verdict, past' # "laundered", NEW r \in Requests, sends[r] > 0
                 PROVE  r \in DOMAIN latest'
        BY <1>1 DEF Remembered, Known
    <2>1. Holds(file, r)
        BY <1>1 DEF Durable, TypeOK
    <2> QED
        BY <1>1, <1>6, <2>1, LatestTyped DEF Holds, TypeOK
<1>8. Done'
    <2> SUFFICES ASSUME past' = "clean", NEW r \in finished
                 PROVE  /\ HoldsDone(file, r)
                        /\ r \in DOMAIN latest' /\ latest'[r] = "completed"
        BY <1>1 DEF Done, Known
    <2>1. verdict /\ past = "clean"
        BY <1>1
    <2>2. HoldsDone(file, r) /\ r \in Requests
        BY <2>1 DEF Done, TypeOK
    <2> QED
        BY <1>1, <1>6, <2>1, <2>2, LatestReads DEF TypeOK
<1> QED
    BY <1>3, <1>4, <1>5, <1>7, <1>8

LEMMA StepIInv == IInv /\ [Next]_vars => IInv'
<1> SUFFICES ASSUME IInv, [Next]_vars PROVE IInv'
    OBVIOUS
<1>1. ASSUME NEW r \in Requests, BeforeDispatch(r) PROVE IInv'
    BY <1>1, EnqueueKeeps DEF BeforeDispatch, States
<1>2. ASSUME NEW r \in Requests, NEW s \in States, Observe(r, s) PROVE IInv'
    BY <1>2, EnqueueKeeps DEF Observe
<1>3. CASE RecordSuperseded \/ RecordAppend \/ AppendFails
    BY <1>3, SupersededKeeps, AppendKeeps, AppendFailsKeeps
<1>4. CASE Compact \/ CompactFails \/ Crash
    BY <1>4, CompactKeeps, CompactFailsKeeps, CrashKeeps
<1>5. CASE ParseLines
    BY <1>5, StartKeeps DEF ParseLines, Readable
<1>6. CASE ReadFails
    BY <1>6, StartKeeps DEF ReadFails
<1>7. CASE UNCHANGED vars
    BY <1>7 DEF vars, IInv, TypeOK, Busy, Down, Verdict, Durable, Remembered,
                GateOnce, Done, Working, Known
<1> QED
    BY <1>1, <1>2, <1>3, <1>4, <1>5, <1>6, <1>7 DEF Next

-----------------------------------------------------------------------------
(* Theorems.                                                               *)

LEMMA Invariance == Spec => []IInv
BY InitIInv, StepIInv, PTL DEF Spec

\* The variables keep their types.
THEOREM TypeCorrect == Spec => []TypeOK
<1>1. IInv => TypeOK
    BY DEF IInv
<1> QED
    BY <1>1, Invariance, PTL

\* Recovery may replay a request that a reliable ledger does not know, over any
\* crashes, torn writes and restarts, as long as no compaction rewrote a ledger
\* that had been read as unreliable.
THEOREM ReplayIsSafe == Spec => []KnownUnlessLaundered
<1>1. IInv => KnownUnlessLaundered
    BY DEF IInv, Verdict, Remembered, KnownUnlessLaundered, KnownOrUnreliable, TypeOK
<1> QED
    BY <1>1, Invariance, PTL

\* While the file is found in order, a request passes the gate at most once.
THEOREM DispatchedOnce == Spec => []SendOnce
<1>1. IInv => SendOnce
    BY DEF IInv, GateOnce, SendOnce
<1> QED
    BY <1>1, Invariance, PTL

\* While the file is found in order, a completion is final.
THEOREM CompletionIsFinal == Spec => []FinishedStands
<1>1. IInv => FinishedStands
    BY DEF IInv, Done, FinishedStands
<1> QED
    BY <1>1, Invariance, PTL
=============================================================================
