-------------------------- MODULE TloOwnershipStore --------------------------
(***************************************************************************)
(* The ownership fence as it runs: several server processes share one      *)
(* record file and one lock directory (dex/tlo-ownership-durable-store.js) *)
(* and change the record with the fence's `change`: read a snapshot,       *)
(* compute the next state from it, then compareAndSwap.  The swap is a     *)
(* mkdir of the lock, a second read that compares revisions, a rename of   *)
(* a fresh file over the record, and a rmdir.  Processes interleave        *)
(* between these file operations, may crash at any of them, and any of     *)
(* them may fail; a lock directory left behind is never removed.           *)
(*                                                                         *)
(* The file operations a crash cannot tell apart are merged: the private   *)
(* temporary file and its fsync belong to the rename that publishes it.    *)
(***************************************************************************)
EXTENDS TloFence

CONSTANTS
    Procs,          \* server processes that use the store
    MaxClock,       \* bound: the clock stops here
    MaxRevisions,   \* bound: no call starts once the record has this revision
    MaxCrashes      \* bound: crashes of each process

ASSUME StoreBounds ==
    MaxClock \in Nat /\ MaxRevisions \in Nat /\ MaxCrashes \in Nat

\* A process run: the same process before and after a crash is two of these.
Runs == [proc : Procs, epoch : Nat]

ASSUME RunAssumption == Null \notin Runs

VARIABLES
    file,       \* the record file: its revision (0: no file) and its state
    lock,       \* the lock directory: the process run that made it, or Null
    pc,         \* where each process is in its method call
    attempt,    \* the change each process is committing: the revision it
                \* read and the state it wants to write
    epoch,      \* how often each process has crashed
    clock,      \* Date.now()
    receipts,   \* requests with a confirmed final receipt in the Dex ledger
    reserver    \* history: the process run that reserved the turn, or Null

vars == <<file, lock, pc, attempt, epoch, clock, receipts, reserver>>

Run(p) == [proc |-> p, epoch |-> epoch[p]]

NoAttempt == [revision |-> 0, next |-> Empty]

Init ==
    /\ file = [revision |-> 0, state |-> Empty]
    /\ lock = Null
    /\ pc = [p \in Procs |-> "boot"]
    /\ attempt = [p \in Procs |-> NoAttempt]
    /\ epoch = [p \in Procs |-> 0]
    /\ clock = 0
    /\ receipts = {}
    /\ reserver = Null

-----------------------------------------------------------------------------
(* change(): one read of the file, and the transform applied to it.        *)

Free(p) == pc[p] = "idle"

Submit(p, next) ==
    /\ file.revision < MaxRevisions
    /\ attempt' = [attempt EXCEPT ![p] =
          [revision |-> file.revision, next |-> next]]
    /\ pc' = [pc EXCEPT ![p] = "swap"]
    /\ UNCHANGED <<file, lock, epoch, clock, receipts, reserver>>

ClaimInitialBrowser(p, w) ==
    /\ Free(p)
    /\ CanClaimInitialBrowser(file.state)
    /\ Submit(p, Claimed(file.state, w))

PrepareHandoff(p, from, g, to) ==
    /\ Free(p)
    /\ CanPrepareHandoff(file.state, from, g, to)
    /\ Submit(p, Prepared(file.state, to, clock))

AcknowledgeHandoff(p, to) ==
    /\ Free(p)
    /\ CanAcknowledgeHandoff(file.state, to, clock)
    /\ Submit(p, Acknowledged(file.state))

CompleteHandoff(p, from, g) ==
    /\ Free(p)
    /\ CanCompleteHandoff(file.state, from, g)
    /\ Submit(p, Completed(file.state))

CancelPreparedHandoff(p, from, g) ==
    /\ Free(p)
    /\ CanCancelPreparedHandoff(file.state, from, g)
    /\ Submit(p, Cancelled(file.state))

ReserveTurn(p, h, g, r) ==
    /\ Free(p)
    /\ CanReserveTurn(file.state, h, g)
    /\ Submit(p, Reserved(file.state, r))

MarkDispatched(p, h, g, r) ==
    /\ Free(p)
    /\ CanMarkDispatched(file.state, h, g, r)
    /\ Submit(p, InPhase(file.state, "dispatched"))

MarkUncertain(p, r) ==
    /\ Free(p)
    /\ CanMarkUncertain(file.state, r)
    /\ Submit(p, InPhase(file.state, "unknown"))

SettleWithReceipt(p, h, g, r) ==
    /\ Free(p)
    /\ CanSettle(file.state, h, g, r, receipts)
    /\ Submit(p, Settled(file.state))

ReconcileUncertainWithReceipt(p, h, g, r) ==
    /\ Free(p)
    /\ CanReconcile(file.state, h, g, r, receipts)
    /\ Submit(p, Settled(file.state))

-----------------------------------------------------------------------------
(* A starting process runs fenceRestart before it serves anything, and     *)
(* refuses to serve if that throws.  fenceRestart reads twice: once to see *)
(* whether there is a turn to fence, once inside change().                 *)

\* Mutant of BootCheck: takes an admitted turn for one that never left.
BootCheckDispatched(p) ==
    /\ pc[p] = "boot"
    /\ pc' = [pc EXCEPT ![p] =
          IF NeedsFence(file.state) /\ file.state.turn.phase = "dispatched"
          THEN "fence" ELSE "idle"]
    /\ UNCHANGED <<file, lock, attempt, epoch, clock, receipts, reserver>>

BootCheck(p) ==
    /\ pc[p] = "boot"
    /\ pc' = [pc EXCEPT ![p] = IF NeedsFence(file.state) THEN "fence" ELSE "idle"]
    /\ UNCHANGED <<file, lock, attempt, epoch, clock, receipts, reserver>>

\* The transform dereferences the turn: it throws if a receipt settled the
\* turn between the two reads.
BootFence(p) ==
    /\ pc[p] = "fence"
    /\ IF file.state.turn = Null
       THEN /\ pc' = [pc EXCEPT ![p] = "refused"]
            /\ UNCHANGED attempt
       ELSE /\ pc' = [pc EXCEPT ![p] = "bootswap"]
            /\ attempt' = [attempt EXCEPT ![p] =
                  [revision |-> file.revision,
                   next |-> InPhase(file.state, "unknown")]]
    /\ UNCHANGED <<file, lock, epoch, clock, receipts, reserver>>

-----------------------------------------------------------------------------
(* compareAndSwap(): mkdir, read and compare, rename, rmdir.  `swap` steps *)
(* belong to a method call, `bootswap` steps to the boot fence.            *)

\* mkdir fails with EEXIST: the method throws TLO_OWNER_RACE.
LockBusy(p) ==
    /\ pc[p] \in {"swap", "bootswap"}
    /\ lock # Null
    /\ pc' = [pc EXCEPT ![p] = IF @ = "swap" THEN "idle" ELSE "refused"]
    /\ attempt' = [attempt EXCEPT ![p] = NoAttempt]
    /\ UNCHANGED <<file, lock, epoch, clock, receipts, reserver>>

\* Mutant of LockTaken: breaks the lock of a run that no longer exists.
LockTakenOver(p) ==
    /\ pc[p] \in {"swap", "bootswap"}
    /\ lock # Null => lock.epoch # epoch[lock.proc]
    /\ lock' = Run(p)
    /\ pc' = [pc EXCEPT ![p] = IF @ = "swap" THEN "compare" ELSE "bootcompare"]
    /\ UNCHANGED <<file, attempt, epoch, clock, receipts, reserver>>

LockTaken(p) ==
    /\ pc[p] \in {"swap", "bootswap"}
    /\ lock = Null
    /\ lock' = Run(p)
    /\ pc' = [pc EXCEPT ![p] = IF @ = "swap" THEN "compare" ELSE "bootcompare"]
    /\ UNCHANGED <<file, attempt, epoch, clock, receipts, reserver>>

\* Mutant of Compare: trusts the lock and does not read the revision again.
CompareNothing(p) ==
    /\ pc[p] \in {"compare", "bootcompare"}
    /\ pc' = [pc EXCEPT ![p] = IF @ = "compare" THEN "write" ELSE "bootwrite"]
    /\ UNCHANGED <<file, lock, attempt, epoch, clock, receipts, reserver>>

Compare(p) ==
    /\ pc[p] \in {"compare", "bootcompare"}
    /\ LET same == file.revision = attempt[p].revision
       IN  pc' = [pc EXCEPT ![p] =
              CASE same /\ @ = "compare"      -> "write"
                [] same /\ @ = "bootcompare"  -> "bootwrite"
                [] ~same /\ @ = "compare"     -> "unlock"
                [] ~same /\ @ = "bootcompare" -> "bootlost"]
    /\ UNCHANGED <<file, lock, attempt, epoch, clock, receipts, reserver>>

Write(p) ==
    /\ pc[p] \in {"write", "bootwrite"}
    /\ file' = [revision |-> file.revision + 1, state |-> attempt[p].next]
    /\ reserver' = IF attempt[p].next.turn = Null THEN Null
                   ELSE IF file.state.turn = Null THEN Run(p) ELSE reserver
    /\ pc' = [pc EXCEPT ![p] = IF @ = "write" THEN "unlock" ELSE "bootunlock"]
    /\ UNCHANGED <<lock, attempt, epoch, clock, receipts>>

\* The temporary file or the rename fails: the record stays as it was and the
\* method throws.
WriteFails(p) ==
    /\ pc[p] \in {"write", "bootwrite"}
    /\ pc' = [pc EXCEPT ![p] = IF @ = "write" THEN "unlock" ELSE "bootlost"]
    /\ UNCHANGED <<file, lock, attempt, epoch, clock, receipts, reserver>>

\* The finally block; the method then returns, or throws after a lost race.
Unlock(p) ==
    /\ pc[p] \in {"unlock", "bootunlock", "bootlost"}
    /\ lock' = Null
    /\ pc' = [pc EXCEPT ![p] = IF @ = "bootlost" THEN "refused" ELSE "idle"]
    /\ attempt' = [attempt EXCEPT ![p] = NoAttempt]
    /\ UNCHANGED <<file, epoch, clock, receipts, reserver>>

\* rmdir fails: the method throws, even one whose record is in place.
UnlockFails(p) ==
    /\ pc[p] \in {"unlock", "bootunlock", "bootlost"}
    /\ pc' = [pc EXCEPT ![p] = IF @ = "unlock" THEN "idle" ELSE "refused"]
    /\ attempt' = [attempt EXCEPT ![p] = NoAttempt]
    /\ UNCHANGED <<file, lock, epoch, clock, receipts, reserver>>

-----------------------------------------------------------------------------
(* The world around the store.                                             *)

\* The process dies where it stands, or an operator restarts one that
\* refused to serve; files and the lock directory stay.
Crash(p) ==
    /\ epoch[p] < MaxCrashes
    /\ epoch' = [epoch EXCEPT ![p] = @ + 1]
    /\ pc' = [pc EXCEPT ![p] = "boot"]
    /\ attempt' = [attempt EXCEPT ![p] = NoAttempt]
    /\ UNCHANGED <<file, lock, clock, receipts, reserver>>

ConfirmReceipt(r) ==
    /\ r \notin receipts
    /\ receipts' = receipts \cup {r}
    /\ UNCHANGED <<file, lock, pc, attempt, epoch, clock, reserver>>

Tick ==
    /\ clock < MaxClock
    /\ clock' = clock + 1
    /\ UNCHANGED <<file, lock, pc, attempt, epoch, receipts, reserver>>

-----------------------------------------------------------------------------
Owning(p, h, g) ==
    \/ \E to \in Hosts : PrepareHandoff(p, h, g, to)
    \/ CompleteHandoff(p, h, g)
    \/ CancelPreparedHandoff(p, h, g)
    \/ \E r \in Requests :
          \/ ReserveTurn(p, h, g, r)
          \/ MarkDispatched(p, h, g, r)
          \/ SettleWithReceipt(p, h, g, r)
          \/ ReconcileUncertainWithReceipt(p, h, g, r)

Call(p) ==
    \/ \E w \in Browsers : ClaimInitialBrowser(p, w)
    \/ \E h \in Hosts, g \in 1 .. MaxSafeGeneration : Owning(p, h, g)
    \/ \E to \in Hosts : AcknowledgeHandoff(p, to)
    \/ \E r \in Requests : MarkUncertain(p, r)

Swap(p) ==
    \/ LockBusy(p) \/ LockTaken(p)
    \/ Compare(p)
    \/ Write(p) \/ WriteFails(p)
    \/ Unlock(p) \/ UnlockFails(p)

Boot(p) == BootCheck(p) \/ BootFence(p)

Next ==
    \/ \E p \in Procs : Call(p) \/ Boot(p) \/ Swap(p) \/ Crash(p)
    \/ \E r \in Requests : ConfirmReceipt(r)
    \/ Tick

Spec == Init /\ [][Next]_vars

-----------------------------------------------------------------------------
(* Properties.                                                             *)

CallPcs == {"swap", "compare", "write", "unlock"}
BootPcs == {"boot", "fence", "bootswap", "bootcompare", "bootwrite",
            "bootunlock", "bootlost"}
Serving(p) == pc[p] \in CallPcs \cup {"idle"}

TypeOK ==
    /\ file \in [revision : Nat, state : Records]
    /\ lock \in Runs \cup {Null}
    /\ pc \in [Procs -> CallPcs \cup BootPcs \cup {"idle", "refused"}]
    /\ attempt \in [Procs -> [revision : Nat, next : Records]]
    /\ epoch \in [Procs -> Nat]
    /\ clock \in Nat
    /\ receipts \subseteq Requests
    /\ reserver \in Runs \cup {Null}

\* The file implements the atomic record: interleaved snapshots, races,
\* crashes between the rename and the rmdir, and restarts never produce a
\* change the fence's contract does not allow on the record as it then is.
Atomic == INSTANCE TloOwnership WITH fence <- file.state
ImplementsFence == Atomic!Spec

HoldingPcs == {"compare", "write", "unlock",
               "bootcompare", "bootwrite", "bootunlock", "bootlost"}

StaleLock ==
    lock # Null /\ \A p \in Procs : pc[p] \in HoldingPcs => lock # Run(p)

\* A lock left by a crashed run or a failed rmdir is never broken: from then on
\* nobody changes the record or the lock ("never break or retry it
\* automatically").
AmbiguousLockFreezes == [][StaleLock => file' = file /\ lock' = lock]_vars

\* A process that serves after a crash has fenced the turn it had reserved
\* before: it never finds its old turn still admitted or dispatched.
RestartFencesTurn ==
    \A p \in Procs :
        /\ Serving(p)
        /\ reserver # Null
        /\ reserver.proc = p
        /\ reserver.epoch # epoch[p]
        => file.state.turn.phase = "unknown"
=============================================================================
