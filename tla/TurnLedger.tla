----------------------------- MODULE TurnLedger -----------------------------
(***************************************************************************)
(* The durable turn ledger (dex/turn-ledger.js) and the gate that writes a *)
(* dispatch to it before the prompt goes out (dex/server-durability.js).   *)
(* The file is a sequence of lines; a write that a crash or a full disk    *)
(* cuts short leaves a tail without its newline, which the next append is  *)
(* glued to.  A start reads the file; recovery trusts what it says.        *)
(*                                                                         *)
(* Abstracted: the fields of an event other than its request and state,    *)
(* incidents, and sizes in bytes (a line counts one).  A proper prefix of  *)
(* an event, or two events glued together, is never valid JSON.            *)
(***************************************************************************)
EXTENDS Integers, Sequences, FiniteSets

CONSTANTS
    Requests,       \* request ids
    Null,           \* no request: the id of a line that does not parse
    CompactEvery,   \* a compaction is considered every so many writes (64)
    MaxLines,       \* maxBytes, in lines
    ReadErrors,     \* a start may find the file and not be able to read it
    MaxCalls,       \* bound: calls of the gate and of observe
    MaxStarts       \* bound: starts of the server

ASSUME RequestsAssumption == Null \notin Requests
ASSUME FiniteAssumption == IsFiniteSet(Requests)
ASSUME CompactAssumption == CompactEvery \in Nat \ {0} /\ MaxLines \in Nat
ASSUME ReadErrorsAssumption == ReadErrors \in BOOLEAN
ASSUME BoundAssumption == MaxCalls \in Nat /\ MaxStarts \in Nat

VARIABLES
    file,       \* the lines of the ledger file
    open,       \* the last line lacks its newline
    up,         \* the server runs
    latest,     \* request -> state, as the process remembers it
    reliable,   \* the ledger's own verdict on itself
    writes,     \* appends since the start
    chain,      \* records queued behind one another
    compacting, \* the head of the chain has been appended
    pendingDispatches,
    sends,      \* history: prompts the gate let through, per request
    finished,   \* history: requests whose completion was committed
    trusted,    \* history: the last start read the file as reliable
    past,       \* history: the worst that happened to the ledger's evidence
    calls,
    starts

vars == <<file, open, up, latest, reliable, writes, chain, compacting,
          pendingDispatches, sends, finished, trusted, past, calls, starts>>

disk == <<file, open>>
history == <<sends, finished, trusted, past>>

States == {"dispatching", "accepted", "responding", "completed", "failed"}

ORDER == [s \in States |->
            CASE s = "dispatching" -> 1
              [] s = "accepted" -> 2
              [] s = "responding" -> 3
              [] OTHER -> 4]

Event(r, s) == [id |-> r, state |-> s]
Events == [id : Requests, state : States]
Damaged == [id |-> Null, state |-> "failed"]
Lines == Events \cup {Damaged}

Records == [id : Requests, state : States, gate : BOOLEAN]

-----------------------------------------------------------------------------
(* The file.                                                               *)

\* Mutant of Readable: a line that does not parse is passed over in silence.
ReadableAnyway(f) == TRUE

Readable(f) == \A i \in DOMAIN f : f[i] # Damaged

\* Mutant of Ids: a line without a request is indexed too.
IdsOfAllLines(f) == {f[i].id : i \in DOMAIN f}

Ids(f) == {r \in Requests : \E i \in DOMAIN f : f[i].id = r}

IsLast(f, r, i) ==
    i \in DOMAIN f /\ f[i].id = r /\ \A j \in DOMAIN f : f[j].id = r => j <= i

\* The last event of every request of the file.
Latest(f) == [r \in Ids(f) |-> f[CHOOSE i \in DOMAIN f : IsLast(f, r, i)].state]

\* The file after `line` is written at its end: an open last line swallows it.
Put(f, unfinished, line) ==
    IF unfinished THEN [f EXCEPT ![Len(f)] = Damaged] ELSE Append(f, line)

\* What a write of `event` that never returned may leave: nothing, a part, all
\* of it, or all but the newline.
CutShort(event) ==
    \/ UNCHANGED disk
    \/ file' = Put(file, open, Damaged) /\ open' = TRUE
    \/ file' = Put(file, open, event) /\ open' \in BOOLEAN

Init ==
    /\ file = <<>> /\ open = FALSE
    /\ up = TRUE
    /\ latest = Latest(<<>>)
    /\ reliable = TRUE
    /\ writes = 0
    /\ chain = <<>> /\ compacting = FALSE
    /\ pendingDispatches = {}
    /\ sends = [r \in Requests |-> 0] /\ finished = {}
    /\ trusted = TRUE /\ past = "clean"
    /\ calls = 0 /\ starts = 1

-----------------------------------------------------------------------------
(* Callers.                                                                *)

Known(r) == r \in DOMAIN latest

\* Mutant of Reserved: only the committed entry blocks a duplicate.
ReservedOnce(r) == FALSE

Reserved(r) == r \in pendingDispatches

Enqueue(r, s, gate) ==
    /\ calls < MaxCalls
    /\ chain' = Append(chain, [id |-> r, state |-> s, gate |-> gate])
    /\ calls' = calls + 1

\* Every state an entry can be in means that the dispatch may have occurred.
BeforeDispatch(r) ==
    /\ up
    /\ ~Known(r) /\ ~Reserved(r)
    /\ Enqueue(r, "dispatching", TRUE)
    /\ pendingDispatches' = pendingDispatches \cup {r}
    /\ UNCHANGED <<disk, up, latest, reliable, writes, compacting, history, starts>>

\* An event of a prompt that went out, in this life or an earlier one, or the
\* failure of a request that has an entry (observe's error and markFailed).
Observe(r, s) ==
    /\ up
    /\ \/ sends[r] > 0 /\ s \in {"accepted", "responding", "completed"}
       \/ Known(r) /\ s = "failed"
    /\ Enqueue(r, s, FALSE)
    /\ UNCHANGED <<disk, up, latest, reliable, writes, compacting,
                   pendingDispatches, history, starts>>

-----------------------------------------------------------------------------
(* The chain: one record at a time, each compared with the last committed  *)
(* event of its request.                                                   *)

Working == up /\ chain # <<>>

\* Mutant of Superseded: a completed turn can be recorded as failed.
SupersededBelow(rec) ==
    /\ Known(rec.id)
    /\ ORDER[latest[rec.id]] > ORDER[rec.state]
    /\ latest[rec.id] # "failed"

Superseded(rec) ==
    /\ Known(rec.id)
    /\ ORDER[latest[rec.id]] >= ORDER[rec.state]
    /\ latest[rec.id] # "failed"

\* The head of the chain is done; `passed`: its caller sees it succeed.
Resolve(passed) ==
    LET rec == Head(chain) IN
    /\ chain' = Tail(chain)
    /\ compacting' = FALSE
    /\ pendingDispatches' =
        IF rec.gate THEN pendingDispatches \ {rec.id} ELSE pendingDispatches
    /\ sends' = IF passed /\ rec.gate
                THEN [sends EXCEPT ![rec.id] = @ + 1] ELSE sends

RecordSuperseded ==
    /\ Working /\ ~compacting
    /\ Superseded(Head(chain))
    /\ Resolve(TRUE)
    /\ UNCHANGED <<disk, up, latest, reliable, writes, finished, trusted, past,
                   calls, starts>>

NeedsCompaction(n, f) == n % CompactEvery = 0 /\ Len(f) > MaxLines

RecordAppend ==
    LET rec == Head(chain)
        event == Event(rec.id, rec.state)
    IN
    /\ Working /\ ~compacting
    /\ ~Superseded(rec)
    /\ file' = Put(file, open, event) /\ open' = FALSE
    /\ latest' = [r \in DOMAIN latest \cup {rec.id} |->
                    IF r = rec.id THEN rec.state ELSE latest[r]]
    /\ writes' = writes + 1
    /\ finished' = IF rec.state = "completed" THEN finished \cup {rec.id} ELSE finished
    /\ IF NeedsCompaction(writes', file')
       THEN /\ compacting' = TRUE
            /\ UNCHANGED <<chain, pendingDispatches, sends>>
       ELSE Resolve(TRUE)
    /\ UNCHANGED <<up, reliable, trusted, past, calls, starts>>

\* Mutant of FailHead: the gate keeps its reservation when the record throws.
FailHeadReserved ==
    /\ reliable' = FALSE
    /\ chain' = Tail(chain)
    /\ compacting' = FALSE
    /\ UNCHANGED <<pendingDispatches, sends>>

FailHead ==
    /\ reliable' = FALSE
    /\ Resolve(FALSE)

AppendFails ==
    /\ Working /\ ~compacting
    /\ ~Superseded(Head(chain))
    /\ CutShort(Event(Head(chain).id, Head(chain).state))
    /\ FailHead
    /\ UNCHANGED <<up, latest, writes, finished, trusted, past, calls, starts>>

\* The files that hold each entry of m on a line of its own, in some order.
Rewrites(m) ==
    {f \in [1 .. Cardinality(DOMAIN m) -> Events] :
        /\ {f[i] : i \in DOMAIN f} = {Event(r, m[r]) : r \in DOMAIN m}
        /\ \A i, j \in DOMAIN f : f[i] = f[j] => i = j}

\* A rewrite from memory after an unreliable start drops the damaged lines, and
\* with them the evidence that something was lost.
Compact ==
    /\ Working /\ compacting
    /\ file' \in Rewrites(latest) /\ open' = FALSE
    /\ past' = IF trusted THEN past ELSE "laundered"
    /\ Resolve(TRUE)
    /\ UNCHANGED <<up, latest, reliable, writes, finished, trusted, calls, starts>>

CompactFails ==
    /\ Working /\ compacting
    /\ FailHead
    /\ UNCHANGED <<disk, up, latest, writes, finished, trusted, past, calls, starts>>

-----------------------------------------------------------------------------
(* Crashes and starts.                                                     *)

Crash ==
    /\ up
    /\ up' = FALSE
    /\ \/ /\ Working /\ ~compacting
          /\ ~Superseded(Head(chain))
          /\ CutShort(Event(Head(chain).id, Head(chain).state))
       \/ UNCHANGED disk
    /\ latest' = Latest(<<>>)
    /\ chain' = <<>> /\ compacting' = FALSE
    /\ pendingDispatches' = {}
    /\ UNCHANGED <<reliable, writes, history, calls, starts>>

Start(entries, verdict) ==
    /\ ~up
    /\ starts < MaxStarts
    /\ up' = TRUE
    /\ latest' = entries
    /\ reliable' = verdict
    /\ trusted' = verdict
    /\ past' = IF past = "clean" /\ ~verdict THEN "doubted" ELSE past
    /\ writes' = 0
    /\ starts' = starts + 1
    /\ UNCHANGED <<disk, chain, compacting, pendingDispatches, sends, finished, calls>>

ParseLines == Start(Latest(file), Readable(file))

\* The file exists and cannot be read.
ReadFails == ReadErrors /\ Start(Latest(<<>>), FALSE)

Next ==
    \/ \E r \in Requests : BeforeDispatch(r)
    \/ \E r \in Requests, s \in States \ {"dispatching"} : Observe(r, s)
    \/ RecordSuperseded
    \/ RecordAppend
    \/ AppendFails
    \/ Compact
    \/ CompactFails
    \/ Crash
    \/ ParseLines
    \/ ReadFails

\* The event loop runs what is queued and every file operation returns or
\* throws; nothing is assumed of callers, crashes or restarts.
Fairness ==
    /\ WF_vars(RecordSuperseded)
    /\ WF_vars(RecordAppend \/ AppendFails)
    /\ WF_vars(Compact \/ CompactFails)

Spec == Init /\ [][Next]_vars /\ Fairness

-----------------------------------------------------------------------------
(* Properties.                                                             *)

\* Every variable has its type.
TypeOK ==
    /\ file \in Seq(Lines) /\ open \in BOOLEAN
    /\ up \in BOOLEAN
    /\ DOMAIN latest \subseteq Requests
    /\ latest \in [DOMAIN latest -> States]
    /\ reliable \in BOOLEAN
    /\ writes \in Nat
    /\ chain \in Seq(Records) /\ compacting \in BOOLEAN
    /\ pendingDispatches \subseteq Requests
    /\ sends \in [Requests -> Nat]
    /\ finished \subseteq Requests
    /\ trusted \in BOOLEAN
    /\ past \in {"clean", "doubted", "laundered"}
    /\ calls \in Nat /\ starts \in Nat

\* No ledger entry and a reliable ledger mean that the prompt never crossed the
\* dispatch boundary (DEX-MODE.md:300), whatever was torn, lost or restarted.
\* The code keeps this only until a compaction launders the evidence.
KnownOrUnreliable == up => \A r \in Requests : sends[r] > 0 => Known(r) \/ ~reliable

KnownUnlessLaundered == past # "laundered" => KnownOrUnreliable

\* While every start found the file in order, the gate lets a request through
\* once, over concurrent callers and any number of lives.
SendOnce == past = "clean" => \A r \in Requests : sends[r] <= 1

\* While every start found the file in order, a committed completion is what the
\* ledger says from then on: late events and failures do not overwrite it, and
\* no start reads an older event of the request.
FinishedStands ==
    up /\ past = "clean" =>
        \A r \in finished : Known(r) /\ latest[r] = "completed"

\* A record that throws does not hold up those queued behind it: every dispatch
\* waiting at the gate is let through, refused, or lost with the process.
GateAnswers == \A r \in Requests : Reserved(r) ~> ~Reserved(r)
=============================================================================
