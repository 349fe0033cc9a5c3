---------------------- MODULE TloOwnershipStore_proofs ----------------------
(***************************************************************************)
(* The file-based fence implements the atomic one, for any number of       *)
(* processes, crashes and failing file operations.                         *)
(*                                                                         *)
(* The argument is the usual one for optimistic concurrency: a process     *)
(* that passes the comparison writes a change that was decided on exactly  *)
(* the record it replaces.  What makes that hold is mutual exclusion by    *)
(* the lock directory between the comparison and the rename, and that a    *)
(* revision never comes back.  The decision itself stays allowed while the *)
(* process waits, because the clock and the receipts only grow.            *)
(***************************************************************************)
EXTENDS TloOwnershipStore, TloFence_proofs

\* What a fence method may make of the record as it now is: the changes the
\* atomic specification allows.
Allowed(n) ==
    \/ \E w \in Browsers :
          CanClaimInitialBrowser(file.state) /\ n = Claimed(file.state, w)
    \/ \E h \in Hosts, g \in 1 .. MaxSafeGeneration :
          \/ \E to \in Hosts, t \in 0 .. clock :
                CanPrepareHandoff(file.state, h, g, to) /\ n = Prepared(file.state, to, t)
          \/ CanCompleteHandoff(file.state, h, g) /\ n = Completed(file.state)
          \/ CanCancelPreparedHandoff(file.state, h, g) /\ n = Cancelled(file.state)
          \/ \E r \in Requests :
                \/ CanReserveTurn(file.state, h, g) /\ n = Reserved(file.state, r)
                \/ /\ CanMarkDispatched(file.state, h, g, r)
                   /\ n = InPhase(file.state, "dispatched")
                \/ /\ \/ CanSettle(file.state, h, g, r, receipts)
                      \/ CanReconcile(file.state, h, g, r, receipts)
                   /\ n = Settled(file.state)
    \/ \E to \in Hosts, t \in 0 .. clock :
          CanAcknowledgeHandoff(file.state, to, t) /\ n = Acknowledged(file.state)
    \/ file.state.turn # Null /\ n = InPhase(file.state, "unknown")

PendingPcs == {"swap", "compare", "write", "bootswap", "bootcompare", "bootwrite"}

Typed ==
    /\ file \in [revision : Nat, state : Records]
    /\ Sound(file.state)
    /\ lock \in Runs \cup {Null}
    /\ pc \in [Procs -> CallPcs \cup BootPcs \cup {"idle", "refused"}]
    /\ attempt \in [Procs -> [revision : Nat, next : Records]]
    /\ epoch \in [Procs -> Nat]
    /\ clock \in Nat
    /\ receipts \subseteq Requests
    /\ reserver \in Runs \cup {Null}

\* Mutual exclusion: who is past mkdir and before rmdir owns the directory.
LockHeld == \A p \in Procs : pc[p] \in HoldingPcs => lock = Run(p)

\* A pending change was decided on a revision that is not in the future and, if
\* that revision is still in the file, is allowed now.
DecisionsValid ==
    \A p \in Procs : pc[p] \in PendingPcs =>
        /\ attempt[p].revision <= file.revision
        /\ attempt[p].revision = file.revision => Allowed(attempt[p].next)

\* Nobody writes between a successful comparison and the rename.
Compared ==
    \A p \in Procs : pc[p] \in {"write", "bootwrite"} =>
        attempt[p].revision = file.revision

IInv == Typed /\ LockHeld /\ DecisionsValid /\ Compared

-----------------------------------------------------------------------------
\* An allowed change keeps the record sound.
LEMMA AllowedSound ==
    ASSUME Sound(file.state), clock \in Nat, NEW n, Allowed(n)
    PROVE  Sound(n)
<1>1. CASE \E w \in Browsers :
              CanClaimInitialBrowser(file.state) /\ n = Claimed(file.state, w)
    BY <1>1, ClaimSound
<1>2. CASE \E h \in Hosts, g \in 1 .. MaxSafeGeneration, to \in Hosts, t \in 0 .. clock :
              CanPrepareHandoff(file.state, h, g, to) /\ n = Prepared(file.state, to, t)
    BY <1>2, PrepareSound
<1>3. CASE \E h \in Hosts, g \in 1 .. MaxSafeGeneration :
              \/ CanCompleteHandoff(file.state, h, g) /\ n = Completed(file.state)
              \/ CanCancelPreparedHandoff(file.state, h, g) /\ n = Cancelled(file.state)
    BY <1>3, CompleteSound, CancelSound
<1>4. CASE \E h \in Hosts, g \in 1 .. MaxSafeGeneration, r \in Requests :
              CanReserveTurn(file.state, h, g) /\ n = Reserved(file.state, r)
    BY <1>4, ReserveSound
<1>5. CASE \E h \in Hosts, g \in 1 .. MaxSafeGeneration, r \in Requests :
              /\ CanMarkDispatched(file.state, h, g, r)
              /\ n = InPhase(file.state, "dispatched")
    BY <1>5, PhaseSound DEF CanMarkDispatched, TurnIn, Phases
<1>6. CASE n = Settled(file.state)
    BY <1>6, SettleSound
<1>7. CASE \E to \in Hosts, t \in 0 .. clock :
              CanAcknowledgeHandoff(file.state, to, t) /\ n = Acknowledged(file.state)
    BY <1>7, AcknowledgeSound
<1>8. CASE file.state.turn # Null /\ n = InPhase(file.state, "unknown")
    BY <1>8, PhaseSound DEF Phases
<1> QED
    BY <1>1, <1>2, <1>3, <1>4, <1>5, <1>6, <1>7, <1>8 DEF Allowed

\* Waiting does not invalidate a decision: it rests on the record, on the clock
\* having reached a time and on receipts having arrived.
LEMMA AllowedStays ==
    ASSUME Typed, NEW n, Allowed(n), file.state' = file.state,
           clock' \in Nat, clock <= clock', receipts \subseteq receipts'
    PROVE  Allowed(n)'
<1>1. \A t \in 0 .. clock : t \in 0 .. clock'
    BY DEF Typed
<1>2. ASSUME NEW h, NEW g, NEW r
      PROVE  /\ CanSettle(file.state, h, g, r, receipts)
                   => CanSettle(file.state, h, g, r, receipts')
             /\ CanReconcile(file.state, h, g, r, receipts)
                   => CanReconcile(file.state, h, g, r, receipts')
    BY DEF CanSettle, CanReconcile
<1> QED
    BY <1>1, <1>2 DEF Allowed

\* Every method call decides on an allowed change.
LEMMA CallSubmits ==
    ASSUME IInv, NEW p \in Procs, Call(p)
    PROVE  \E n : Allowed(n) /\ Free(p) /\ Submit(p, n)
<1> USE DEF IInv, Typed
<1>0. clock \in 0 .. clock
    OBVIOUS
<1>1. CASE \E w \in Browsers : ClaimInitialBrowser(p, w)
    BY <1>1 DEF ClaimInitialBrowser, Allowed
<1>2. CASE \E h \in Hosts, g \in 1 .. MaxSafeGeneration, to \in Hosts :
              PrepareHandoff(p, h, g, to)
    BY <1>0, <1>2 DEF PrepareHandoff, Allowed
<1>3. CASE \E to \in Hosts : AcknowledgeHandoff(p, to)
    BY <1>0, <1>3 DEF AcknowledgeHandoff, Allowed
<1>4. CASE \E h \in Hosts, g \in 1 .. MaxSafeGeneration :
              CompleteHandoff(p, h, g) \/ CancelPreparedHandoff(p, h, g)
    BY <1>4 DEF CompleteHandoff, CancelPreparedHandoff, Allowed
<1>5. CASE \E h \in Hosts, g \in 1 .. MaxSafeGeneration, r \in Requests :
              ReserveTurn(p, h, g, r) \/ MarkDispatched(p, h, g, r)
    BY <1>5 DEF ReserveTurn, MarkDispatched, Allowed
<1>6. CASE \E h \in Hosts, g \in 1 .. MaxSafeGeneration, r \in Requests :
              \/ SettleWithReceipt(p, h, g, r)
              \/ ReconcileUncertainWithReceipt(p, h, g, r)
    BY <1>6 DEF SettleWithReceipt, ReconcileUncertainWithReceipt, Allowed
<1>7. CASE \E r \in Requests : MarkUncertain(p, r)
    BY <1>7 DEF MarkUncertain, CanMarkUncertain, TurnIn, Allowed
<1> QED
    BY <1>1, <1>2, <1>3, <1>4, <1>5, <1>6, <1>7 DEF Call, Owning

-----------------------------------------------------------------------------
LEMMA InitIInv == Init => IInv
<1> SUFFICES ASSUME Init PROVE IInv
    OBVIOUS
<1>1. Empty \in Records
    BY EmptySound DEF Sound
<1>2. Typed
    BY <1>1, EmptySound DEF Init, Typed, NoAttempt, CallPcs, BootPcs
<1> QED
    BY <1>2
       DEF Init, IInv, LockHeld, DecisionsValid, Compared, HoldingPcs, PendingPcs

\* A change of one process's place that leaves the record alone.
LEMMA StepIInv == IInv /\ [Next]_vars => IInv'
<1> SUFFICES ASSUME IInv, [Next]_vars PROVE IInv'
    OBVIOUS
<1> USE DEF IInv
<1>1. ASSUME NEW p \in Procs, NEW n, Allowed(n),
             pc[p] \in {"idle", "fence"}, NEW after \in {"swap", "bootswap"},
             attempt' = [attempt EXCEPT ![p] = [revision |-> file.revision, next |-> n]],
             pc' = [pc EXCEPT ![p] = after],
             UNCHANGED <<file, lock, epoch, clock, receipts, reserver>>
      PROVE IInv'
    <2>1. n \in Records
        BY <1>1, AllowedSound DEF Typed, Sound
    <2>2. Typed'
        BY <1>1, <2>1 DEF Typed, CallPcs, BootPcs
    <2>3. \A q \in Procs : Run(q)' = Run(q)
        BY <1>1 DEF Run
    <2>4. Allowed(n)' /\ \A m : Allowed(m) => Allowed(m)'
        BY <1>1 DEF Allowed
    <2>5. LockHeld' /\ Compared'
        BY <1>1, <2>3 DEF Typed, LockHeld, Compared, HoldingPcs
    <2>6. DecisionsValid'
        BY <1>1, <2>4 DEF Typed, DecisionsValid
    <2> QED
        BY <2>2, <2>5, <2>6
<1>2. ASSUME NEW p \in Procs, Call(p) PROVE IInv'
    <2>1. PICK n : Allowed(n) /\ Free(p) /\ Submit(p, n)
        BY <1>2, CallSubmits
    <2> QED
        BY <1>1, <2>1 DEF Free, Submit
<1>3. ASSUME NEW p \in Procs, BootFence(p), file.state.turn # Null PROVE IInv'
    <2>1. Allowed(InPhase(file.state, "unknown"))
        BY <1>3 DEF Allowed
    <2> QED
        BY <1>1, <1>3, <2>1 DEF BootFence
<1>4. ASSUME NEW p \in Procs,
             \/ BootCheck(p) \/ LockBusy(p) \/ UnlockFails(p)
             \/ BootFence(p) /\ file.state.turn = Null
      PROVE IInv'
    <2>1. NoAttempt \in [revision : Nat, next : Records]
        BY EmptySound DEF NoAttempt, Sound
    <2>2. UNCHANGED <<file, lock, epoch, clock, receipts, reserver>>
        BY <1>4 DEF BootCheck, LockBusy, UnlockFails, BootFence
    <2>3. /\ attempt' \in {attempt, [attempt EXCEPT ![p] = NoAttempt]}
          /\ \E after \in {"idle", "fence", "refused"} : pc' = [pc EXCEPT ![p] = after]
        BY <1>4 DEF BootCheck, LockBusy, UnlockFails, BootFence
    <2>4. Typed'
        BY <2>1, <2>2, <2>3 DEF Typed, CallPcs, BootPcs
    <2>5. \A m : Allowed(m) => Allowed(m)'
        BY <2>2 DEF Allowed
    <2> QED
        BY <2>2, <2>3, <2>4, <2>5
           DEF Typed, LockHeld, DecisionsValid, Compared, Run, HoldingPcs, PendingPcs
<1>5. ASSUME NEW p \in Procs, LockTaken(p) PROVE IInv'
    <2>1. Run(p) \in Runs
        BY DEF Typed, Run, Runs
    <2>2. Typed'
        BY <1>5, <2>1 DEF LockTaken, Typed, CallPcs, BootPcs
    <2>3. \A m : Allowed(m) => Allowed(m)'
        BY <1>5 DEF LockTaken, Allowed
    <2>4. \A q \in Procs : q # p => pc'[q] \notin HoldingPcs
        BY <1>5, <2>1, RunAssumption DEF LockTaken, Typed, LockHeld, Run, Runs
    <2> QED
        BY <1>5, <2>2, <2>3, <2>4
           DEF LockTaken, Typed, LockHeld, DecisionsValid, Compared, Run,
               HoldingPcs, PendingPcs
<1>6. ASSUME NEW p \in Procs, Compare(p) \/ WriteFails(p) PROVE IInv'
    <2>1. /\ pc[p] \in {"compare", "bootcompare", "write", "bootwrite"}
          /\ \E after \in {"write", "bootwrite", "unlock", "bootlost"} :
                /\ pc' = [pc EXCEPT ![p] = after]
                /\ after \in {"write", "bootwrite"}
                      => file.revision = attempt[p].revision
          /\ UNCHANGED <<file, lock, attempt, epoch, clock, receipts, reserver>>
        BY <1>6 DEF Compare, WriteFails, Typed
    <2>2. Typed'
        BY <2>1 DEF Typed, CallPcs, BootPcs
    <2>3. \A m : Allowed(m) => Allowed(m)'
        BY <2>1 DEF Allowed
    <2> QED
        BY <2>1, <2>2, <2>3
           DEF Typed, LockHeld, DecisionsValid, Compared, Run, HoldingPcs, PendingPcs
<1>7. ASSUME NEW p \in Procs, Write(p) PROVE IInv'
    <2>1. Allowed(attempt[p].next) /\ lock = Run(p)
        BY <1>7 DEF Write, DecisionsValid, Compared, LockHeld, PendingPcs, HoldingPcs
    <2>2. Sound(attempt[p].next) /\ attempt[p].next \in Records
        BY <2>1, AllowedSound DEF Typed, Sound
    <2>3. Run(p) \in Runs
        BY DEF Typed, Run, Runs
    <2>4. /\ file' = [revision |-> file.revision + 1, state |-> attempt[p].next]
          /\ reserver' \in {Null, Run(p), reserver}
          /\ \E after \in {"unlock", "bootunlock"} : pc' = [pc EXCEPT ![p] = after]
          /\ UNCHANGED <<lock, attempt, epoch, clock, receipts>>
        BY <1>7 DEF Write
    <2>5. Typed'
        BY <2>2, <2>3, <2>4 DEF Typed, CallPcs, BootPcs
    <2>6. \A q \in Procs : q # p => pc[q] \notin HoldingPcs
        BY <2>1 DEF Typed, LockHeld, Run
    <2>7. LockHeld' /\ Compared'
        BY <2>1, <2>4, <2>6 DEF Typed, LockHeld, Compared, Run, HoldingPcs
    <2>8. DecisionsValid'
        BY <2>4 DEF Typed, DecisionsValid, PendingPcs
    <2> QED
        BY <2>5, <2>7, <2>8
<1>8. ASSUME NEW p \in Procs, Unlock(p) PROVE IInv'
    <2>1. NoAttempt \in [revision : Nat, next : Records]
        BY EmptySound DEF NoAttempt, Sound
    <2>2. /\ lock = Run(p) /\ lock' = Null
          /\ attempt' = [attempt EXCEPT ![p] = NoAttempt]
          /\ \E after \in {"idle", "refused"} : pc' = [pc EXCEPT ![p] = after]
          /\ UNCHANGED <<file, epoch, clock, receipts, reserver>>
        BY <1>8 DEF Unlock, LockHeld, HoldingPcs
    <2>3. Typed'
        BY <2>1, <2>2 DEF Typed, CallPcs, BootPcs
    <2>4. \A m : Allowed(m) => Allowed(m)'
        BY <2>2 DEF Allowed
    <2>5. \A q \in Procs : q # p => pc[q] \notin HoldingPcs
        BY <2>2 DEF Typed, LockHeld, Run
    <2> QED
        BY <2>2, <2>3, <2>4, <2>5
           DEF Typed, LockHeld, DecisionsValid, Compared, Run, HoldingPcs, PendingPcs
<1>9. ASSUME NEW p \in Procs, Crash(p) PROVE IInv'
    <2>1. NoAttempt \in [revision : Nat, next : Records]
        BY EmptySound DEF NoAttempt, Sound
    <2>2. /\ epoch' = [epoch EXCEPT ![p] = epoch[p] + 1]
          /\ attempt' = [attempt EXCEPT ![p] = NoAttempt]
          /\ pc' = [pc EXCEPT ![p] = "boot"]
          /\ UNCHANGED <<file, lock, clock, receipts, reserver>>
        BY <1>9 DEF Crash
    <2>3. Typed'
        BY <2>1, <2>2 DEF Typed, CallPcs, BootPcs
    <2>4. \A m : Allowed(m) => Allowed(m)'
        BY <2>2 DEF Allowed
    <2> QED
        BY <2>2, <2>3, <2>4
           DEF Typed, LockHeld, DecisionsValid, Compared, Run, HoldingPcs, PendingPcs
<1>10. ASSUME \/ \E r \in Requests : ConfirmReceipt(r)
              \/ Tick
       PROVE IInv'
    <2>1. /\ UNCHANGED <<file, lock, pc, attempt, epoch, reserver>>
          /\ clock' \in Nat /\ clock <= clock'
          /\ receipts \subseteq receipts' /\ receipts' \subseteq Requests
        BY <1>10 DEF ConfirmReceipt, Tick, Typed
    <2>2. \A m : Allowed(m) => Allowed(m)'
        BY <2>1, AllowedStays
    <2> QED
        BY <2>1, <2>2 DEF Typed, LockHeld, DecisionsValid, Compared, Run
<1>11. ASSUME UNCHANGED vars PROVE IInv'
    BY <1>11
       DEF vars, Typed, LockHeld, DecisionsValid, Compared, Run, Allowed
<1> QED
    BY <1>2, <1>3, <1>4, <1>5, <1>6, <1>7, <1>8, <1>9, <1>10, <1>11
       DEF Next, Boot, Swap

LEMMA AlwaysIInv == Spec => []IInv
BY InitIInv, StepIInv, PTL DEF Spec

-----------------------------------------------------------------------------
\* Records, processes, lock and clock keep their types.
THEOREM StoreTypeCorrect == Spec => []TypeOK
<1>1. IInv => TypeOK
    BY DEF IInv, Typed, TypeOK
<1> QED
    BY <1>1, AlwaysIInv, PTL

\* Once a lock is ambiguous nobody changes the record or removes the lock.
THEOREM AmbiguousLockIsFinal == Spec => AmbiguousLockFreezes
<1>1. ASSUME IInv, [Next]_vars
      PROVE  [StaleLock => file' = file /\ lock' = lock]_vars
    <2> SUFFICES ASSUME StaleLock PROVE file' = file /\ lock' = lock
        OBVIOUS
    <2>1. \A p \in Procs : pc[p] \notin HoldingPcs /\ lock # Null
        BY <1>1 DEF IInv, LockHeld, StaleLock
    <2>2. \A p \in Procs : ~LockTaken(p) /\ ~Write(p) /\ ~Unlock(p)
        BY <2>1 DEF LockTaken, Write, Unlock, HoldingPcs
    <2>3. ASSUME NEW p \in Procs, Call(p) PROVE UNCHANGED <<file, lock>>
        BY <1>1, <2>3, CallSubmits DEF Submit
    <2> QED
        BY <1>1, <2>2, <2>3
           DEF Next, Boot, Swap, BootCheck, BootFence, LockBusy, Compare,
               WriteFails, UnlockFails, Crash, ConfirmReceipt, Tick, vars
<1> QED
    BY <1>1, AlwaysIInv, PTL DEF Spec, AmbiguousLockFreezes

-----------------------------------------------------------------------------
\* An allowed change is a step of the atomic fence.
LEMMA AllowedImplements ==
    ASSUME IInv, Allowed(file'.state), UNCHANGED <<clock, receipts>>
    PROVE  Atomic!Next
<1> DEFINE s == file.state
           n == file'.state
<1> USE DEF Atomic!Hosts, Atomic!SameKind, Atomic!IsOwner, Atomic!TurnIn,
            Hosts, SameKind, IsOwner, TurnIn
<1>1. CASE \E w \in Browsers : CanClaimInitialBrowser(s) /\ n = Claimed(s, w)
    BY <1>1
       DEF Atomic!Next, Atomic!ClaimInitialBrowser, Atomic!CanClaimInitialBrowser,
           Atomic!Claimed, CanClaimInitialBrowser, Claimed
<1>2. ASSUME NEW h \in Hosts, NEW g \in 1 .. MaxSafeGeneration, NEW to \in Hosts,
             NEW t \in 0 .. clock, CanPrepareHandoff(s, h, g, to), n = Prepared(s, to, t)
      PROVE  Atomic!Owning(h, g)
    BY <1>2
       DEF Atomic!Owning, Atomic!PrepareHandoff, Atomic!CanPrepareHandoff,
           Atomic!Prepared, CanPrepareHandoff, Prepared
<1>3. ASSUME NEW h \in Hosts, NEW g \in 1 .. MaxSafeGeneration,
             CanCompleteHandoff(s, h, g), n = Completed(s)
      PROVE  Atomic!Owning(h, g)
    BY <1>3
       DEF Atomic!Owning, Atomic!CompleteHandoff, Atomic!CanCompleteHandoff,
           Atomic!Completed, CanCompleteHandoff, Completed
<1>4. ASSUME NEW h \in Hosts, NEW g \in 1 .. MaxSafeGeneration,
             CanCancelPreparedHandoff(s, h, g), n = Cancelled(s)
      PROVE  Atomic!Owning(h, g)
    BY <1>4
       DEF Atomic!Owning, Atomic!CancelPreparedHandoff,
           Atomic!CanCancelPreparedHandoff, Atomic!Cancelled,
           CanCancelPreparedHandoff, Cancelled
<1>5. ASSUME NEW h \in Hosts, NEW g \in 1 .. MaxSafeGeneration, NEW r \in Requests,
             CanReserveTurn(s, h, g), n = Reserved(s, r)
      PROVE  Atomic!Owning(h, g)
    BY <1>5
       DEF Atomic!Owning, Atomic!ReserveTurn, Atomic!CanReserveTurn,
           Atomic!Reserved, CanReserveTurn, Reserved
<1>6. ASSUME NEW h \in Hosts, NEW g \in 1 .. MaxSafeGeneration, NEW r \in Requests,
             CanMarkDispatched(s, h, g, r), n = InPhase(s, "dispatched")
      PROVE  Atomic!Owning(h, g)
    BY <1>6
       DEF Atomic!Owning, Atomic!MarkDispatched, Atomic!CanMarkDispatched,
           Atomic!InPhase, CanMarkDispatched, InPhase
<1>7. ASSUME NEW h \in Hosts, NEW g \in 1 .. MaxSafeGeneration, NEW r \in Requests,
             CanSettle(s, h, g, r, receipts), n = Settled(s)
      PROVE  Atomic!Owning(h, g)
    BY <1>7
       DEF Atomic!Owning, Atomic!SettleWithReceipt, Atomic!CanSettle,
           Atomic!Settled, CanSettle, Settled
<1>8. ASSUME NEW h \in Hosts, NEW g \in 1 .. MaxSafeGeneration, NEW r \in Requests,
             CanReconcile(s, h, g, r, receipts), n = Settled(s)
      PROVE  Atomic!Owning(h, g)
    BY <1>8
       DEF Atomic!Owning, Atomic!ReconcileUncertainWithReceipt, Atomic!CanReconcile,
           Atomic!Settled, CanReconcile, Settled
<1>9. CASE \E to \in Hosts, t \in 0 .. clock :
              CanAcknowledgeHandoff(s, to, t) /\ n = Acknowledged(s)
    BY <1>9
       DEF Atomic!Next, Atomic!AcknowledgeHandoff, Atomic!CanAcknowledgeHandoff,
           Atomic!Acknowledged, CanAcknowledgeHandoff, Acknowledged
<1>10. CASE s.turn # Null /\ n = InPhase(s, "unknown")
    BY <1>10 DEF Atomic!Next, Atomic!FenceRestart, Atomic!InPhase, InPhase
<1>11. (\E h \in Hosts, g \in 1 .. MaxSafeGeneration : Atomic!Owning(h, g))
          => Atomic!Next
    BY DEF Atomic!Next
<1> QED
    BY <1>1, <1>2, <1>3, <1>4, <1>5, <1>6, <1>7, <1>8, <1>9, <1>10, <1>11
       DEF Allowed

\* The file implements the atomic record: only the rename changes it, and what
\* the rename publishes is a step of the atomic fence.
THEOREM StoreImplementsFence == Spec => Atomic!Spec
<1>1. Init => Atomic!Init
    BY DEF Init, Atomic!Init, Empty, Atomic!Empty
<1>2. ASSUME IInv, [Next]_vars PROVE [Atomic!Next]_(Atomic!vars)
    <2> USE <1>2 DEF IInv
    <2>1. ASSUME NEW p \in Procs, Write(p) PROVE Atomic!Next
        <3>1. Allowed(attempt[p].next)
            BY <2>1 DEF Write, DecisionsValid, Compared, PendingPcs
        <3>2. file'.state = attempt[p].next /\ UNCHANGED <<clock, receipts>>
            BY <2>1 DEF Write
        <3>3. Allowed(file'.state)
            BY <3>1, <3>2
        <3> QED
            BY <3>2, <3>3, AllowedImplements
    <2>2. ASSUME NEW p \in Procs, Call(p) PROVE UNCHANGED Atomic!vars
        BY <2>2, CallSubmits DEF Submit, Atomic!vars
    <2>3. ASSUME NEW p \in Procs,
                 \/ Boot(p) \/ LockBusy(p) \/ LockTaken(p) \/ Compare(p)
                 \/ WriteFails(p) \/ Unlock(p) \/ UnlockFails(p) \/ Crash(p)
          PROVE UNCHANGED Atomic!vars
        BY <2>3
           DEF Boot, BootCheck, BootFence, LockBusy, LockTaken, Compare, WriteFails,
               Unlock, UnlockFails, Crash, Atomic!vars
    <2>4. ASSUME NEW r \in Requests, ConfirmReceipt(r) PROVE Atomic!Next
        BY <2>4 DEF ConfirmReceipt, Atomic!ConfirmReceipt, Atomic!Next
    <2>5. ASSUME Tick PROVE Atomic!Next
        BY <2>5 DEF Tick, Atomic!Tick, Atomic!Next
    <2>6. ASSUME UNCHANGED vars PROVE UNCHANGED Atomic!vars
        BY <2>6 DEF vars, Atomic!vars
    <2> QED
        BY <2>1, <2>2, <2>3, <2>4, <2>5, <2>6 DEF Next, Swap
<1> QED
    BY <1>1, <1>2, AlwaysIInv, PTL DEF Spec, Atomic!Spec

-----------------------------------------------------------------------------
\* The turn's reserver is recorded as long as the turn is there, a boot fence
\* publishes an unknown turn, and a process serves only after that.
FencedInv ==
    /\ reserver = Null <=> file.state.turn = Null
    /\ \A p \in Procs : pc[p] \in {"bootswap", "bootcompare", "bootwrite"} =>
          attempt[p].next.turn # Null /\ attempt[p].next.turn.phase = "unknown"
    /\ \A p \in Procs : pc[p] = "bootunlock" =>
          file.state.turn # Null /\ file.state.turn.phase = "unknown"
    /\ RestartFencesTurn

\* No method moves an unknown turn to another phase.
LEMMA UnknownStays ==
    ASSUME Typed, NEW n, Allowed(n), n.turn # Null,
           file.state.turn # Null, file.state.turn.phase = "unknown"
    PROVE  n.turn.phase = "unknown"
<1> DEFINE s == file.state
<1>1. s \in Records /\ Sound(s)
    BY DEF Typed
<1>2. CASE \/ n = Settled(s)
           \/ n = InPhase(s, "unknown")
    BY <1>1, <1>2, SettleSound, PhaseSound DEF Phases
<1>3. CASE \E h \in Hosts, g \in 1 .. MaxSafeGeneration :
              CanCancelPreparedHandoff(s, h, g) /\ n = Cancelled(s)
    BY <1>1, <1>3 DEF Cancelled, Records
<1>4. \A h \in Hosts, g \in 1 .. MaxSafeGeneration :
          /\ \A to \in Hosts : ~CanPrepareHandoff(s, h, g, to)
          /\ ~CanCompleteHandoff(s, h, g)
          /\ ~CanReserveTurn(s, h, g)
          /\ \A r \in Requests : ~CanMarkDispatched(s, h, g, r)
    BY DEF CanPrepareHandoff, CanCompleteHandoff, CanReserveTurn,
           CanMarkDispatched, TurnIn
<1>5. ~\E to \in Hosts, t \in 0 .. clock : CanAcknowledgeHandoff(s, to, t)
    BY DEF CanAcknowledgeHandoff
<1>6. ~CanClaimInitialBrowser(s)
    BY DEF CanClaimInitialBrowser
<1> QED
    BY <1>2, <1>3, <1>4, <1>5, <1>6 DEF Allowed

LEMMA StepFencedInv ==
    ASSUME IInv, FencedInv, [Next]_vars
    PROVE  FencedInv'
<1> USE DEF FencedInv, RestartFencesTurn, Serving, CallPcs
<1>0. /\ pc \in [Procs -> CallPcs \cup BootPcs \cup {"idle", "refused"}]
      /\ attempt \in [Procs -> [revision : Nat, next : Records]]
      /\ epoch \in [Procs -> Nat]
    BY DEF IInv, Typed
<1>1. ASSUME NEW p \in Procs, Call(p) PROVE FencedInv'
    <2>1. PICK n : Allowed(n) /\ Free(p) /\ Submit(p, n)
        BY <1>1, CallSubmits
    <2> QED
        BY <1>0, <2>1 DEF Free, Submit
<1>2. ASSUME NEW p \in Procs, BootCheck(p) PROVE FencedInv'
    BY <1>0, <1>2 DEF BootCheck, NeedsFence
<1>3. ASSUME NEW p \in Procs, BootFence(p) PROVE FencedInv'
    <2>1. CASE file.state.turn = Null
        BY <1>0, <1>3, <2>1 DEF BootFence
    <2>2. CASE file.state.turn # Null
        <3>1. /\ InPhase(file.state, "unknown").turn # Null
              /\ InPhase(file.state, "unknown").turn.phase = "unknown"
            BY <2>2, PhaseSound DEF IInv, Typed, Phases
        <3> QED
            BY <1>0, <1>3, <2>2, <3>1 DEF BootFence
    <2> QED
        BY <2>1, <2>2
<1>4. ASSUME NEW p \in Procs,
             LockBusy(p) \/ LockTaken(p) \/ WriteFails(p) \/ UnlockFails(p)
      PROVE FencedInv'
    BY <1>0, <1>4 DEF LockBusy, LockTaken, WriteFails, UnlockFails
<1>5. ASSUME NEW p \in Procs, Compare(p) PROVE FencedInv'
    <2>1. /\ \E after \in {"write", "unlock", "bootwrite", "bootlost"} :
                /\ pc' = [pc EXCEPT ![p] = after]
                /\ after = "bootwrite" => pc[p] = "bootcompare"
                /\ after \in {"write", "unlock"} => pc[p] = "compare"
          /\ UNCHANGED <<file, lock, attempt, epoch, clock, receipts, reserver>>
        BY <1>0, <1>5 DEF Compare
    <2> QED
        BY <1>0, <2>1
<1>6. ASSUME NEW p \in Procs, Write(p) PROVE FencedInv'
    <2> DEFINE n == attempt[p].next
    <2>1. /\ pc[p] \in {"write", "bootwrite"}
          /\ file'.state = n
          /\ reserver' = IF n.turn = Null THEN Null
                         ELSE IF file.state.turn = Null THEN Run(p) ELSE reserver
          /\ pc' = [pc EXCEPT ![p] = IF pc[p] = "write" THEN "unlock" ELSE "bootunlock"]
          /\ UNCHANGED <<lock, attempt, epoch, clock, receipts>>
        BY <1>6 DEF Write
    <2>2. Allowed(n) /\ lock = Run(p)
        BY <2>1
           DEF IInv, DecisionsValid, Compared, LockHeld, PendingPcs, HoldingPcs
    <2>3. \A q \in Procs : q # p => pc[q] \notin HoldingPcs
        BY <2>2 DEF IInv, Typed, LockHeld, Run
    <2>4. file.state.turn # Null /\ file.state.turn.phase = "unknown" /\ n.turn # Null
             => n.turn.phase = "unknown"
        BY <2>2, UnknownStays DEF IInv
    <2>5. Run(p) \in Runs /\ Run(p) # Null
        BY <1>0, RunAssumption DEF Run, Runs
    <2>6. reserver' = Null <=> file'.state.turn = Null
        BY <2>1, <2>5
    <2>7. \A q \in Procs : pc'[q] \in {"bootswap", "bootcompare", "bootwrite"} =>
             attempt'[q].next.turn # Null /\ attempt'[q].next.turn.phase = "unknown"
        BY <1>0, <2>1
    <2>8. \A q \in Procs : pc'[q] = "bootunlock" =>
             file'.state.turn # Null /\ file'.state.turn.phase = "unknown"
        BY <1>0, <2>1, <2>3 DEF HoldingPcs
    <2>9. ASSUME NEW q \in Procs, Serving(q)', reserver' # Null,
                 reserver'.proc = q, reserver'.epoch # epoch'[q]
          PROVE  file'.state.turn.phase = "unknown"
        <3>1. CASE file.state.turn = Null
            BY <2>1, <2>9, <3>1 DEF Run
        <3>2. CASE file.state.turn # Null
            BY <1>0, <2>1, <2>4, <2>9, <3>2
        <3> QED
            BY <3>1, <3>2
    <2> QED
        BY <2>6, <2>7, <2>8, <2>9
<1>7. ASSUME NEW p \in Procs, Unlock(p) PROVE FencedInv'
    BY <1>0, <1>7 DEF Unlock
<1>8. ASSUME NEW p \in Procs, Crash(p) PROVE FencedInv'
    BY <1>0, <1>8 DEF Crash
<1>9. ASSUME (\E r \in Requests : ConfirmReceipt(r)) \/ Tick \/ UNCHANGED vars
      PROVE FencedInv'
    BY <1>9 DEF ConfirmReceipt, Tick, vars
<1> QED
    BY <1>1, <1>2, <1>3, <1>4, <1>5, <1>6, <1>7, <1>8, <1>9 DEF Next, Boot, Swap

\* A process that serves after a crash never finds the turn it had reserved
\* before still admitted or dispatched.
THEOREM RestartAlwaysFences == Spec => []RestartFencesTurn
<1>1. Init => FencedInv
    BY DEF Init, FencedInv, RestartFencesTurn, Empty
<1>2. Spec => []FencedInv
    BY <1>1, AlwaysIInv, StepFencedInv, PTL DEF Spec
<1>3. FencedInv => RestartFencesTurn
    BY DEF FencedInv
<1> QED
    BY <1>2, <1>3, PTL
=============================================================================
