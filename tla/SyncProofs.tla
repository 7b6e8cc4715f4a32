----------------------------- MODULE SyncProofs -----------------------------
(***************************************************************************)
(* Theorems about Sync, for every number of processes and of resources.    *)
(***************************************************************************)
EXTENDS Sync, ProcessProofs

-----------------------------------------------------------------------------
(* The inductive invariant *)

Blocked == LockWaiters \cup CvarWaiters

\* A process that waits in a queue is inside the call that put it there, for that
\* lock; it is in one queue of a cvar.
QueueInv ==
  /\ \A l \in Ids : NoDuplicates(lock_waiting[l]) /\ NoDuplicates(cvar_waiting[l])
  /\ \A l \in Ids : \A p \in Range(lock_waiting[l]) :
       pending[p] = "acquire" /\ awaited_lock[p] = l
  /\ \A c \in Ids : \A p \in Range(cvar_waiting[c]) : pending[p] = "cvar"
  /\ \A c, d \in Ids : c # d => Range(cvar_waiting[c]) \cap Range(cvar_waiting[d]) = {}
  /\ \A p \in Proc : pending[p] \in {"acquire", "cvar"} => awaited_lock[p] \in Ids

\* A process that has left the queue of a lock owns it.
GrantInv ==
  \A p \in Proc : pending[p] = "acquire" /\ p \notin LockWaiters =>
    acquired[awaited_lock[p]] /\ owner_id[awaited_lock[p]] = p

\* Nobody waits for a free lock.
HeldInv == \A l \in Ids : lock_waiting[l] # <<>> => acquired[l]

SyncInv == PlaceInv(Blocked) /\ QueueInv /\ GrantInv /\ HeldInv /\ LockOwnership

-----------------------------------------------------------------------------
(* Type correctness *)

\* What has no part in locks and cvars keeps its type in a step that only changes
\* the rest.
LEMMA UnlockType ==
  ASSUME SyncTypeOK, current_proc \in Proc, NEW l \in Ids, Unlock(l)
  PROVE  /\ locks' \subseteq Ids
         /\ acquired' \in [Ids -> BOOLEAN]
         /\ owner_id' \in [Ids -> Proc \cup {NULL}]
         /\ lock_waiting' \in [Ids -> Seq(Proc)]
         /\ owned_lock_ids' \in [Proc -> Seq(Ids)]
         /\ ReadyAfterUnlock(l) \in Seq(Proc)
<1>. USE DEF SyncTypeOK, ProcessTypeOK
<1>1. PICK rest \in WithoutId(owned_lock_ids[current_proc], l) :
    /\ IF lock_waiting[l] = <<>>
       THEN /\ acquired' = [acquired EXCEPT ![l] = FALSE]
            /\ owned_lock_ids' = [owned_lock_ids EXCEPT ![current_proc] = rest]
            /\ UNCHANGED <<owner_id, lock_waiting>>
       ELSE /\ owner_id' = [owner_id EXCEPT ![l] = Heir(l)]
            /\ lock_waiting' = [lock_waiting EXCEPT ![l] = Tail(@)]
            /\ owned_lock_ids' =
                 [p \in Proc |-> CASE p = current_proc -> rest
                                  [] p = Heir(l)      -> Append(owned_lock_ids[p], l)
                                  [] OTHER            -> owned_lock_ids[p]]
            /\ UNCHANGED acquired
    /\ UNCHANGED locks
  BY DEF Unlock
<1>2. rest \in Seq(Ids)
  BY WithoutIdFacts
<1>3. CASE lock_waiting[l] = <<>>
  <2>1. acquired' \in [Ids -> BOOLEAN]
    BY <1>1, <1>3, Zenon
  <2>2. owned_lock_ids' \in [Proc -> Seq(Ids)]
    BY <1>1, <1>2, <1>3
  <2>. QED BY <1>1, <1>3, <2>1, <2>2 DEF ReadyAfterUnlock
<1>4. CASE lock_waiting[l] # <<>>
  <2>1. Heir(l) \in Proc /\ Tail(lock_waiting[l]) \in Seq(Proc)
    BY <1>4, HeadTailFacts DEF Heir
  <2>2. owned_lock_ids' \in [Proc -> Seq(Ids)]
    <3>1. \A p \in Proc : Append(owned_lock_ids[p], l) \in Seq(Ids)
      BY AppendFacts
    <3>2. \A p \in Proc : owned_lock_ids[p] \in Seq(Ids)
      OBVIOUS
    <3>3. owned_lock_ids' =
            [p \in Proc |-> CASE p = current_proc -> rest
                             [] p = Heir(l)      -> Append(owned_lock_ids[p], l)
                             [] OTHER            -> owned_lock_ids[p]]
      BY <1>1, <1>4
    <3>. QED BY ONLY <1>2, <3>1, <3>2, <3>3
  <2>3. ReadyAfterUnlock(l) \in Seq(Proc)
    BY <1>4, <2>1, AppendFacts DEF ReadyAfterUnlock
  <2>. QED BY <1>1, <1>4, <2>1, <2>2, <2>3
<1>. QED BY <1>3, <1>4

LEMMA AcquireType ==
  ASSUME SyncTypeOK, current_proc \in Proc, NEW l \in Ids, Acquire(l),
         UNCHANGED <<machine, clockVars, familyVars, next_synch_resource_id, cvarVars>>
  PROVE  SyncTypeOK'
<1>. USE DEF SyncTypeOK, ProcessTypeOK, clockVars, familyVars, cvarVars, schedVars,
             ResourcesTypeOK
<1>1. CASE (l \notin locks \/ Holds(l)) /\ AcquireReturns /\ UNCHANGED lockVars
  BY <1>1 DEF AcquireReturns, lockVars
<1>2. CASE /\ ~acquired[l]
           /\ acquired' = [acquired EXCEPT ![l] = TRUE]
           /\ owner_id' = [owner_id EXCEPT ![l] = current_proc]
           /\ owned_lock_ids' = [owned_lock_ids EXCEPT ![current_proc] = Append(@, l)]
           /\ AcquireReturns
           /\ UNCHANGED <<locks, lock_waiting>>
  <2>1. acquired' \in [Ids -> BOOLEAN]
    BY <1>2, Zenon
  <2>2. owned_lock_ids' \in [Proc -> Seq(Ids)]
    BY <1>2, AppendFacts
  <2>. QED BY <1>2, <2>1, <2>2 DEF AcquireReturns
<1>3. CASE /\ lock_waiting' = [lock_waiting EXCEPT ![l] = Queued(l)]
           /\ pending' = [pending EXCEPT ![current_proc] = "acquire"]
           /\ awaited_lock' = [awaited_lock EXCEPT ![current_proc] = l]
           /\ SwitchToNextProc(ready_queue)
           /\ UNCHANGED <<locks, acquired, owner_id, owned_lock_ids>>
  <2>1. ready_queue' \in Seq(Proc) /\ current_proc' \in Proc \cup {IDLE_PID}
    BY <1>3, SwitchType
  <2>2. lock_waiting' \in [Ids -> Seq(Proc)]
    BY <1>3, AppendFacts DEF Queued
  <2>. QED BY <1>3, <2>1, <2>2
<1>. QED BY <1>1, <1>2, <1>3 DEF Acquire

\* What SyncExit does to the locks when every release succeeds; passed is the list
\* of those that somebody waits for.
PassesOn(passed) ==
  LET owned == owned_lock_ids[current_proc]
  IN /\ acquired' = [l \in Ids |-> acquired[l] /\
                       (l \in Range(owned) => lock_waiting[l] # <<>>)]
     /\ owner_id' = [l \in Ids |-> IF l \in Range(passed) THEN Heir(l) ELSE owner_id[l]]
     /\ lock_waiting' = [l \in Ids |-> IF l \in Range(passed) THEN Tail(lock_waiting[l])
                                        ELSE lock_waiting[l]]
     /\ owned_lock_ids' =
          [p \in Proc |->
             CASE p = current_proc -> <<>>
               [] \E l \in Range(passed) : Heir(l) = p ->
                    Append(owned_lock_ids[p], CHOOSE l \in Range(passed) : Heir(l) = p)
               [] OTHER -> owned_lock_ids[p]]
     /\ UNCHANGED <<machine, locks>>

HeirsOf(passed) == [i \in DOMAIN passed |-> Heir(passed[i])]

\* The two ways an exit ends, and what is known of the list of locks passed on.
LEMMA SyncExitCases ==
  ASSUME SyncTypeOK, SyncExit
  PROVE  /\ current_proc \in Proc /\ pending[current_proc] = "user"
         /\ UNCHANGED <<clockVars, pending, abandoned_pcbs, next_pid,
                        next_synch_resource_id, cvarVars, awaited_lock>>
         /\ \/ /\ \A l \in Range(owned_lock_ids[current_proc]) : Holds(l)
               /\ \E passed \in Seq(Ids) :
                    /\ Range(passed) = {l \in Range(owned_lock_ids[current_proc]) :
                                           lock_waiting[l] # <<>>}
                    /\ NoDuplicates(owned_lock_ids[current_proc]) => NoDuplicates(passed)
                    /\ PassesOn(passed)
                    /\ LeaveFamily(ready_queue \o HeirsOf(passed))
            \/ /\ ~ \A l \in Range(owned_lock_ids[current_proc]) : l \in locks /\ Holds(l)
               /\ machine' = "hung"
               /\ UNCHANGED <<lockVars, schedVars, pcbs, live_parent, live_children,
                              zombie_children, waiting_on_children>>
<1>. DEFINE owned == owned_lock_ids[current_proc]
            Passed == {i \in DOMAIN owned : lock_waiting[owned[i]] # <<>>}
<1>1. current_proc \in Proc /\ pending[current_proc] = "user"
  BY DEF SyncExit, Calling, UserMode, SyncTypeOK, ProcessTypeOK
<1>2. UNCHANGED <<clockVars, pending, abandoned_pcbs, next_pid,
                  next_synch_resource_id, cvarVars, awaited_lock>>
  BY DEF SyncExit
<1>3. CASE \A l \in Range(owned) : l \in locks /\ Holds(l)
  <2>1. PICK passed \in SublistAt(owned, Passed) :
             /\ PassesOn(passed) /\ LeaveFamily(ready_queue \o HeirsOf(passed))
    BY <1>3 DEF SyncExit, PassesOn, HeirsOf
  <2>2. owned \in Seq(Ids) /\ Passed \in SUBSET DOMAIN owned
    BY <1>1 DEF SyncTypeOK
  <2>3. /\ passed \in Seq(Ids)
        /\ Range(passed) = {owned[i] : i \in Passed}
        /\ NoDuplicates(owned) => NoDuplicates(passed)
    BY <2>2, SublistFacts
  <2>4. Range(passed) = {l \in Range(owned) : lock_waiting[l] # <<>>}
    BY <2>2, <2>3 DEF Range
  <2>. QED BY <1>1, <1>2, <1>3, <2>1, <2>3, <2>4
<1>4. CASE ~ \A l \in Range(owned) : l \in locks /\ Holds(l)
  BY <1>1, <1>2, <1>4 DEF SyncExit
<1>. QED BY <1>3, <1>4

LEMMA HeirsType ==
  ASSUME SyncTypeOK, NEW passed \in Seq(Ids),
         \A l \in Range(passed) : lock_waiting[l] # <<>>
  PROVE  /\ \A l \in Range(passed) : Heir(l) \in Proc /\ Heir(l) \in Range(lock_waiting[l])
         /\ HeirsOf(passed) \in Seq(Proc)
         /\ Range(HeirsOf(passed)) = {Heir(l) : l \in Range(passed)}
<1>1. \A l \in Range(passed) : l \in Ids /\ lock_waiting[l] \in Seq(Proc)
  BY EmptyFacts DEF SyncTypeOK
<1>2. \A l \in Range(passed) : Heir(l) \in Proc /\ Heir(l) \in Range(lock_waiting[l])
  BY <1>1, HeadTailFacts DEF Heir
<1>3. Len(passed) \in Nat /\ DOMAIN passed = 1..Len(passed)
  OBVIOUS
<1>4. \A i \in 1..Len(passed) : Heir(passed[i]) \in Proc
  BY <1>2, <1>3 DEF Range
<1>5. HeirsOf(passed) \in Seq(Proc)
  BY <1>3, <1>4, IsASeq DEF HeirsOf
<1>6. Range(HeirsOf(passed)) = {Heir(l) : l \in Range(passed)}
  BY DEF HeirsOf, Range
<1>. QED BY <1>2, <1>5, <1>6

LEMMA SyncExitType == SyncTypeOK /\ SyncExit => SyncTypeOK'
<1>. SUFFICES ASSUME SyncTypeOK, SyncExit PROVE SyncTypeOK'
  OBVIOUS
<1>1. /\ current_proc \in Proc
      /\ UNCHANGED <<clockVars, pending, abandoned_pcbs, next_pid,
                     next_synch_resource_id, cvarVars, awaited_lock>>
  BY SyncExitCases
<1>2. ASSUME NEW passed \in Seq(Ids),
             Range(passed) = {l \in Range(owned_lock_ids[current_proc]) :
                                lock_waiting[l] # <<>>},
             PassesOn(passed), LeaveFamily(ready_queue \o HeirsOf(passed))
      PROVE  SyncTypeOK'
  <2>1. /\ \A l \in Range(passed) : Heir(l) \in Proc
        /\ HeirsOf(passed) \in Seq(Proc)
    BY <1>2, HeirsType
  <2>2. ready_queue \o HeirsOf(passed) \in Seq(Proc)
    BY <2>1, ConcatFacts DEF SyncTypeOK, ProcessTypeOK
  <2>3. ProcessTypeOK({"running", "halted", "aborted", "hung"},
                      {"user", "wait", "acquire", "cvar"})'
    BY <1>1, <1>2, <2>2, LeaveFamilyType DEF SyncTypeOK, PassesOn
  <2>4. acquired' \in [Ids -> BOOLEAN] /\ owner_id' \in [Ids -> Proc \cup {NULL}]
    BY <1>2, <2>1 DEF PassesOn, SyncTypeOK
  <2>5. lock_waiting' \in [Ids -> Seq(Proc)]
    <3>1. \A l \in Range(passed) : Tail(lock_waiting[l]) \in Seq(Proc)
      BY <1>2, HeadTailFacts, EmptyFacts DEF SyncTypeOK
    <3>. QED BY <1>2, <3>1 DEF PassesOn, SyncTypeOK
  <2>6. owned_lock_ids' \in [Proc -> Seq(Ids)]
    <3>1. \A p \in Proc : owned_lock_ids[p] \in Seq(Ids)
      BY DEF SyncTypeOK
    <3>2. \A p \in Proc : (\E l \in Range(passed) : Heir(l) = p) =>
             Append(owned_lock_ids[p], CHOOSE l \in Range(passed) : Heir(l) = p) \in Seq(Ids)
      <4>. SUFFICES ASSUME NEW p \in Proc, \E l \in Range(passed) : Heir(l) = p
                    PROVE  Append(owned_lock_ids[p],
                                  CHOOSE l \in Range(passed) : Heir(l) = p) \in Seq(Ids)
        OBVIOUS
      <4>1. (CHOOSE l \in Range(passed) : Heir(l) = p) \in Range(passed)
        OBVIOUS
      <4>2. Range(passed) \subseteq Ids
        BY EmptyFacts
      <4>. QED BY <3>1, <4>1, <4>2, AppendFacts
    <3>. QED BY <1>2, <3>1, <3>2, EmptyFacts DEF PassesOn
  <2>. QED BY <1>1, <1>2, <2>3, <2>4, <2>5, <2>6
       DEF SyncTypeOK, ResourcesTypeOK, cvarVars, PassesOn
<1>3. CASE /\ machine' = "hung"
           /\ UNCHANGED <<lockVars, schedVars, pcbs, live_parent, live_children,
                          zombie_children, waiting_on_children>>
  BY <1>1, <1>3 DEF SyncTypeOK, ProcessTypeOK, ResourcesTypeOK, lockVars, schedVars,
                    clockVars, cvarVars
<1>. QED BY <1>2, <1>3, SyncExitCases

LEMMA SyncTypeInit == SyncInit => SyncTypeOK
<1>. SUFFICES ASSUME SyncInit PROVE SyncTypeOK
  OBVIOUS
<1>1. ProcessTypeOK({"running", "halted", "aborted", "hung"},
                    {"user", "wait", "acquire", "cvar"})
  BY ProcessAssumption, PidFacts, EmptyFacts
     DEF SyncInit, ProcessInit, ProcessTypeOK, Proc, INIT_PID, IDLE_PID
<1>. QED BY <1>1, ResourcesAssumption
     DEF SyncInit, SyncTypeOK, ResourcesInit, ResourcesTypeOK, NULL

LEMMA SyncTypeStep == SyncTypeOK /\ [SyncNext]_vars => SyncTypeOK'
<1>. SUFFICES ASSUME SyncTypeOK, [SyncNext]_vars PROVE SyncTypeOK'
  OBVIOUS
<1>. USE DEF SyncTypeOK, ResourcesTypeOK
<1>. DEFINE M == {"running", "halted", "aborted", "hung"}
            P == {"user", "wait", "acquire", "cvar"}
<1>0. Calling => current_proc \in Proc
  BY DEF Calling, ProcessTypeOK
<1>1. CASE ProcessHandlers /\ UNCHANGED syncVars
  <2>1. ProcessTypeOK(M, P)'
    BY <1>1, HandlersType
  <2>. QED BY <1>1, <2>1 DEF syncVars, lockVars, cvarVars
<1>2. CASE KernelLockInit \/ KernelCvarInit
  <2>1. ProcessTypeOK(M, P)'
    BY <1>2 DEF KernelLockInit, KernelCvarInit, ProcessTypeOK, processVars, schedVars, clockVars,
                familyVars
  <2>2. next_synch_resource_id' \in 1..MaxId + 1
    BY <1>2, ResourcesAssumption DEF KernelLockInit, KernelCvarInit, NewId, Ids
  <2>. QED BY <1>2, <2>1, <2>2 DEF KernelLockInit, KernelCvarInit, NewId, lockVars, cvarVars
<1>3. ASSUME NEW l \in Ids, KernelAcquire(l) PROVE SyncTypeOK'
  BY <1>0, <1>3, AcquireType DEF KernelAcquire
<1>4. CASE KernelAcquireReturns
  BY <1>4 DEF KernelAcquireReturns, AcquireReturns, Abort, Resuming, ProcessTypeOK, schedVars,
              clockVars, familyVars, lockVars, cvarVars
<1>5. ASSUME NEW l \in Ids, KernelRelease(l) PROVE SyncTypeOK'
  <2>1. CASE InOwnedList(l)
    <3>1. Unlock(l) /\ ready_queue' = ReadyAfterUnlock(l)
      BY <1>5, <2>1 DEF KernelRelease
    <3>2. /\ locks' \subseteq Ids
          /\ acquired' \in [Ids -> BOOLEAN]
          /\ owner_id' \in [Ids -> Proc \cup {NULL}]
          /\ lock_waiting' \in [Ids -> Seq(Proc)]
          /\ owned_lock_ids' \in [Proc -> Seq(Ids)]
          /\ ReadyAfterUnlock(l) \in Seq(Proc)
      BY <1>0, <1>5, <3>1, UnlockType DEF KernelRelease
    <3>. QED BY <1>5, <2>1, <3>1, <3>2
         DEF KernelRelease, ProcessTypeOK, clockVars, familyVars, cvarVars
  <2>2. CASE ~InOwnedList(l)
    BY <1>5, <2>2 DEF KernelRelease, Abort, ProcessTypeOK, schedVars, clockVars, familyVars,
                      lockVars, cvarVars
  <2>. QED BY <2>1, <2>2
<1>6. ASSUME NEW c \in Ids, KernelCvarSignal(c) PROVE SyncTypeOK'
  <2>1. /\ Head(cvar_waiting[c]) \in Proc /\ Tail(cvar_waiting[c]) \in Seq(Proc)
        /\ ready_queue \in Seq(Proc)
    BY <1>6, HeadTailFacts DEF KernelCvarSignal, ProcessTypeOK
  <2>2. ready_queue' \in Seq(Proc)
    BY <1>6, <2>1, AppendFacts DEF KernelCvarSignal
  <2>. QED BY <1>6, <2>1, <2>2 DEF KernelCvarSignal, ProcessTypeOK, clockVars, familyVars,
                                   lockVars
<1>7. ASSUME NEW c \in Ids, KernelCvarBroadcast(c) PROVE SyncTypeOK'
  <2>1. ready_queue' \in Seq(Proc)
    BY <1>7, ConcatFacts DEF KernelCvarBroadcast, ProcessTypeOK
  <2>. QED BY <1>7, <2>1, EmptyFacts DEF KernelCvarBroadcast, ProcessTypeOK, clockVars,
                                   familyVars, lockVars
<1>8. ASSUME NEW c \in Ids, NEW l \in Ids, KernelCvarWait(c, l) PROVE SyncTypeOK'
  <2>1. CASE InOwnedList(l)
    <3>1. /\ Unlock(l) /\ SwitchToNextProc(ReadyAfterUnlock(l)) /\ machine' = machine
          /\ cvar_waiting' = [cvar_waiting EXCEPT ![c] = Append(@, current_proc)]
          /\ pending' = [pending EXCEPT ![current_proc] = "cvar"]
          /\ awaited_lock' = [awaited_lock EXCEPT ![current_proc] = l]
          /\ UNCHANGED <<clockVars, familyVars, next_synch_resource_id, cvars>>
      BY <1>8, <2>1 DEF KernelCvarWait
    <3>2. /\ locks' \subseteq Ids
          /\ acquired' \in [Ids -> BOOLEAN]
          /\ owner_id' \in [Ids -> Proc \cup {NULL}]
          /\ lock_waiting' \in [Ids -> Seq(Proc)]
          /\ owned_lock_ids' \in [Proc -> Seq(Ids)]
          /\ ReadyAfterUnlock(l) \in Seq(Proc)
      BY <1>0, <1>8, <3>1, UnlockType DEF KernelCvarWait
    <3>3. ready_queue' \in Seq(Proc) /\ current_proc' \in Proc \cup {IDLE_PID}
      BY <3>1, <3>2, SwitchType
    <3>4. current_proc \in Proc
      BY <1>0, <1>8 DEF KernelCvarWait
    <3>5. cvar_waiting' \in [Ids -> Seq(Proc)]
      BY <3>1, <3>4, AppendFacts
    <3>6. pending' \in [Proc -> P] /\ awaited_lock' \in [Proc -> Ids \cup {NULL}]
      BY <3>1 DEF ProcessTypeOK
    <3>. QED BY <3>1, <3>2, <3>3, <3>5, <3>6 DEF ProcessTypeOK, clockVars, familyVars
  <2>2. CASE ~InOwnedList(l)
    BY <1>8, <2>2 DEF KernelCvarWait, Abort, ProcessTypeOK, schedVars, clockVars, familyVars,
                      lockVars
  <2>. QED BY <2>1, <2>2
<1>9. CASE KernelCvarWaitResumes
  <2>1. current_proc \in Proc
    BY <1>9 DEF KernelCvarWaitResumes, Resuming, ProcessTypeOK
  <2>2. CASE awaited_lock[current_proc] \in Ids
    BY <1>9, <2>1, <2>2, AcquireType DEF KernelCvarWaitResumes
  <2>3. CASE awaited_lock[current_proc] \notin Ids
    BY <1>9, <2>1, <2>3 DEF KernelCvarWaitResumes, Acquire, AcquireReturns, ProcessTypeOK,
         schedVars, clockVars, familyVars, lockVars, cvarVars
  <2>. QED BY <2>2, <2>3
<1>10. ASSUME NEW id \in Ids, KernelReclaim(id) PROVE SyncTypeOK'
  BY <1>10 DEF KernelReclaim, ProcessTypeOK, processVars, schedVars, clockVars, familyVars
<1>11. CASE SyncExit
  BY <1>11, SyncExitType
<1>12. CASE HaltByInit /\ UNCHANGED <<schedVars, clockVars, pending, familyVars, syncVars>>
  BY <1>12 DEF HaltByInit, ProcessTypeOK, schedVars, clockVars, familyVars, syncVars,
               lockVars, cvarVars
<1>13. CASE UNCHANGED vars
  BY <1>13 DEF vars, processVars, ProcessTypeOK, schedVars, clockVars, familyVars, syncVars,
               lockVars, cvarVars
<1>. QED BY <1>1, <1>2, <1>3, <1>4, <1>5, <1>6, <1>7, <1>8, <1>9, <1>10, <1>11, <1>12, <1>13
     DEF SyncNext, SyncHandlers

\* Every variable keeps its type (SyncSpec => []SyncTypeOK).
THEOREM SyncTypeCorrect == SyncSpec => []SyncTypeOK
BY SyncTypeInit, SyncTypeStep, PTL DEF SyncSpec

-----------------------------------------------------------------------------
(* Steps that leave the queues alone *)

\* What SyncInv says does not depend on locks, cvars, machine and the next id.
LEMMA SyncInvUnchanged ==
  ASSUME SyncInv,
         UNCHANGED <<current_proc, ready_queue, clock_block_procs, waiting_on_children,
                     next_pid, pending, awaited_lock, acquired, owner_id, lock_waiting,
                     owned_lock_ids, cvar_waiting>>
  PROVE  SyncInv' /\ Live(Blocked)' = Live(Blocked)
<1>1. UNCHANGED <<LockWaiters, CvarWaiters, Blocked>>
  BY DEF LockWaiters, CvarWaiters, Blocked
<1>2. PlaceInv(Blocked)'
  BY <1>1 DEF SyncInv, PlaceInv, OnePlaceWith, Unborn, Live, Running, Waiters
<1>3. QueueInv' /\ GrantInv' /\ HeldInv' /\ LockOwnership'
  BY <1>1 DEF SyncInv, QueueInv, GrantInv, HeldInv, LockOwnership
<1>4. Live(Blocked)' = Live(Blocked)
  BY <1>1 DEF Live, Running, Waiters
<1>. QED BY <1>2, <1>3, <1>4 DEF SyncInv

LEMMA HandlersInv ==
  ASSUME SyncTypeOK, SyncInv, ProcessHandlers, UNCHANGED syncVars
  PROVE  SyncInv' /\ Live(Blocked) \subseteq Live(Blocked)'
<1>1. UNCHANGED <<acquired, owner_id, lock_waiting, owned_lock_ids, cvar_waiting,
                  awaited_lock>>
  BY DEF syncVars, lockVars, cvarVars
<1>2. UNCHANGED <<LockWaiters, CvarWaiters, Blocked>>
  BY <1>1 DEF LockWaiters, CvarWaiters, Blocked
<1>3. PICK e : e = Blocked
  OBVIOUS
<1>4. PlaceInv(e)' /\ Live(e) \subseteq Live(e)'
  BY <1>3, HandlersPlace DEF SyncInv, SyncTypeOK
<1>5. PlaceInv(Blocked)' /\ Live(Blocked) \subseteq Live(Blocked)'
  BY <1>2, <1>3, <1>4 DEF PlaceInv, OnePlaceWith, Unborn, Live
<1>6. \A p \in Proc : /\ pending'[p] = "acquire" <=> pending[p] = "acquire"
                      /\ pending'[p] = "cvar" <=> pending[p] = "cvar"
  BY HandlersPending DEF SyncTypeOK
<1>7. \A l \in Ids : Range(lock_waiting[l]) \subseteq Proc /\ Range(cvar_waiting[l]) \subseteq Proc
  BY EmptyFacts DEF SyncTypeOK
<1>8. QueueInv'
  BY <1>1, <1>6, <1>7 DEF SyncInv, QueueInv
<1>9. GrantInv' /\ HeldInv' /\ LockOwnership'
  BY <1>1, <1>2, <1>6 DEF SyncInv, GrantInv, HeldInv, LockOwnership
<1>. QED BY <1>5, <1>8, <1>9 DEF SyncInv

-----------------------------------------------------------------------------
(* KernelAcquire and its second half *)

\* The current process goes back to user mode; the other queues stay.
LEMMA ReturnInv ==
  ASSUME SyncTypeOK, SyncInv, NEW me \in Proc, me = current_proc,
         UNCHANGED <<current_proc, ready_queue, clock_block_procs, waiting_on_children,
                     next_pid, lock_waiting, cvar_waiting>>,
         pending' = [pending EXCEPT ![me] = "user"],
         awaited_lock' = [awaited_lock EXCEPT ![me] = NULL]
  PROVE  /\ PlaceInv(Blocked)' /\ QueueInv'
         /\ UNCHANGED <<LockWaiters, CvarWaiters, Live(Blocked)>>
<1>1. UNCHANGED <<LockWaiters, CvarWaiters, Blocked>>
  BY DEF LockWaiters, CvarWaiters, Blocked
<1>2. UNCHANGED Live(Blocked)
  BY <1>1 DEF Live, Running, Waiters
<1>3. PlaceInv(Blocked)
  BY DEF SyncInv
<1>4. me \in Live(Blocked) /\ me \notin Blocked
  <2>. PICK e : e = Blocked
    OBVIOUS
  <2>. QED BY <1>3, CurrentFacts
<1>5. \A p \in Proc \ {me} : pending'[p] = pending[p] /\ awaited_lock'[p] = awaited_lock[p]
  BY DEF SyncTypeOK
<1>6. pending'[me] = "user"
  BY DEF SyncTypeOK, ProcessTypeOK
<1>7. PlaceInv(Blocked)'
  BY <1>1, <1>2, <1>3, <1>4, <1>5 DEF PlaceInv, OnePlaceWith, Unborn, Running, Waiters
<1>8. \A l \in Ids : /\ Range(lock_waiting[l]) \subseteq Proc \ {me}
                     /\ Range(cvar_waiting[l]) \subseteq Proc \ {me}
  BY <1>4, EmptyFacts DEF SyncTypeOK, Blocked, LockWaiters, CvarWaiters
<1>9. QueueInv'
  BY <1>5, <1>6, <1>8 DEF SyncInv, QueueInv
<1>. QED BY <1>1, <1>2, <1>7, <1>9

\* The current process returns and no lock has changed.
LEMMA ReturnsUnchanged ==
  ASSUME SyncTypeOK, SyncInv, current_proc \in Proc, AcquireReturns, UNCHANGED lockVars,
         UNCHANGED <<clockVars, familyVars, cvarVars>>
  PROVE  SyncInv' /\ UNCHANGED Live(Blocked)
<1>. PICK me \in Proc : me = current_proc
  OBVIOUS
<1>1. /\ PlaceInv(Blocked)' /\ QueueInv'
      /\ UNCHANGED <<LockWaiters, CvarWaiters, Live(Blocked)>>
  BY ReturnInv DEF AcquireReturns, schedVars, clockVars, familyVars, cvarVars, lockVars
<1>2. \A p \in Proc : pending'[p] = "acquire" =>
         pending[p] = "acquire" /\ awaited_lock'[p] = awaited_lock[p]
  BY DEF AcquireReturns, SyncTypeOK, ProcessTypeOK
<1>3. GrantInv' /\ HeldInv' /\ LockOwnership'
  BY <1>1, <1>2 DEF SyncInv, GrantInv, HeldInv, LockOwnership, lockVars
<1>. QED BY <1>1, <1>3 DEF SyncInv

LEMMA AcquireInv ==
  ASSUME SyncTypeOK, SyncInv, current_proc \in Proc, NEW l \in Ids, Acquire(l),
         UNCHANGED <<clockVars, familyVars, cvarVars>>
  PROVE  SyncInv' /\ UNCHANGED Live(Blocked)
<1>. PICK me \in Proc : me = current_proc
  OBVIOUS
<1>. PICK e : e = Blocked
  OBVIOUS
<1>0. /\ me \notin e /\ PlaceInv(e)
      /\ UNCHANGED <<clock_block_procs, waiting_on_children, next_pid, cvar_waiting,
                     CvarWaiters>>
  BY CurrentFacts DEF SyncInv, clockVars, familyVars, cvarVars, CvarWaiters
<1>1. CASE AcquireReturns /\ UNCHANGED lockVars
  BY <1>1, ReturnsUnchanged
<1>2. CASE /\ ~acquired[l]
           /\ acquired' = [acquired EXCEPT ![l] = TRUE]
           /\ owner_id' = [owner_id EXCEPT ![l] = current_proc]
           /\ owned_lock_ids' = [owned_lock_ids EXCEPT ![current_proc] = Append(@, l)]
           /\ AcquireReturns
           /\ UNCHANGED <<locks, lock_waiting>>
  <2>1. /\ PlaceInv(Blocked)' /\ QueueInv'
        /\ UNCHANGED <<LockWaiters, CvarWaiters, Live(Blocked)>>
    BY <1>0, <1>2, ReturnInv DEF AcquireReturns, schedVars
  <2>2. \A p \in Proc : pending'[p] = "acquire" =>
           pending[p] = "acquire" /\ awaited_lock'[p] = awaited_lock[p]
    BY <1>2 DEF AcquireReturns, SyncTypeOK, ProcessTypeOK
  <2>3. \A m \in Ids : /\ acquired'[m] <=> acquired[m] \/ m = l
                       /\ acquired[m] => m # l /\ owner_id'[m] = owner_id[m]
    <3>1. \A m \in Ids : acquired'[m] = IF m = l THEN TRUE ELSE acquired[m]
      BY <1>2, Zenon DEF SyncTypeOK
    <3>2. \A m \in Ids : acquired[m] => m # l
      BY <1>2
    <3>3. \A m \in Ids : m # l => owner_id'[m] = owner_id[m]
      BY <1>2 DEF SyncTypeOK
    <3>. QED BY <3>1, <3>2, <3>3
  <2>4. GrantInv'
    <3>. SUFFICES ASSUME NEW p \in Proc, pending'[p] = "acquire", p \notin LockWaiters'
                  PROVE  /\ acquired'[awaited_lock'[p]]
                         /\ owner_id'[awaited_lock'[p]] = p
      BY DEF GrantInv
    <3>1. /\ pending[p] = "acquire" /\ p \notin LockWaiters
          /\ awaited_lock'[p] = awaited_lock[p]
      BY <2>1, <2>2
    <3>2. /\ acquired[awaited_lock[p]] /\ owner_id[awaited_lock[p]] = p
          /\ awaited_lock[p] \in Ids
      BY <3>1 DEF SyncInv, GrantInv, QueueInv
    <3>. QED BY <2>3, <3>1, <3>2
  <2>5. HeldInv'
    BY <1>2, <2>3 DEF SyncInv, HeldInv
  <2>6. LockOwnership'
    <3>1. /\ \A m \in Ids, p \in Proc :
               m \in Range(owned_lock_ids[p]) <=> acquired[m] /\ owner_id[m] = p
          /\ \A p \in Proc : NoDuplicates(owned_lock_ids[p])
      BY DEF SyncInv, LockOwnership
    <3>2. l \notin Range(owned_lock_ids[me])
      BY <1>2, <3>1
    <3>3. /\ Range(owned_lock_ids'[me]) = Range(owned_lock_ids[me]) \cup {l}
          /\ NoDuplicates(owned_lock_ids'[me])
      <4>1. owned_lock_ids'[me] = Append(owned_lock_ids[me], l)
        BY <1>2 DEF SyncTypeOK
      <4>2. owned_lock_ids[me] \in Seq(Ids)
        BY DEF SyncTypeOK
      <4>. QED BY <3>1, <3>2, <4>1, <4>2, AppendFacts
    <3>4. \A p \in Proc \ {me} : owned_lock_ids'[p] = owned_lock_ids[p]
      BY <1>2 DEF SyncTypeOK
    <3>5. owner_id'[l] = me
      BY <1>2 DEF SyncTypeOK
    <3>6. ASSUME NEW m \in Ids, NEW p \in Proc
          PROVE  m \in Range(owned_lock_ids'[p]) <=> acquired'[m] /\ owner_id'[m] = p
      <4>1. CASE m = l
        BY <2>3, <3>1, <3>3, <3>4, <3>5, <4>1, <1>2
      <4>2. CASE m # l
        <5>1. acquired'[m] <=> acquired[m]
          BY <2>3, <4>2
        <5>2. owner_id'[m] = owner_id[m]
          BY <1>2, <4>2 DEF SyncTypeOK
        <5>. QED BY <3>1, <3>3, <3>4, <4>2, <5>1, <5>2
      <4>. QED BY <4>1, <4>2
    <3>. QED BY <3>1, <3>3, <3>4, <3>6 DEF LockOwnership
  <2>. QED BY <2>1, <2>4, <2>5, <2>6 DEF SyncInv
<1>3. CASE /\ acquired[l]
           /\ lock_waiting' = [lock_waiting EXCEPT ![l] = Queued(l)]
           /\ pending' = [pending EXCEPT ![current_proc] = "acquire"]
           /\ awaited_lock' = [awaited_lock EXCEPT ![current_proc] = l]
           /\ SwitchToNextProc(ready_queue)
           /\ UNCHANGED <<locks, acquired, owner_id, owned_lock_ids>>
  <2>1. /\ \A m \in Ids : /\ Range(lock_waiting[m]) \subseteq Proc \ {me}
                          /\ Range(cvar_waiting[m]) \subseteq Proc \ {me}
        /\ \A m \in Ids : NoDuplicates(lock_waiting[m])
    BY <1>0, EmptyFacts
       DEF SyncTypeOK, Blocked, LockWaiters, CvarWaiters, SyncInv, QueueInv
  <2>2. /\ Range(lock_waiting'[l]) = Range(lock_waiting[l]) \cup {me}
        /\ NoDuplicates(lock_waiting'[l])
        /\ \A m \in Ids \ {l} : lock_waiting'[m] = lock_waiting[m]
    <3>1. lock_waiting'[l] = Append(lock_waiting[l], me) /\ lock_waiting[l] \in Seq(Proc)
      BY <1>3 DEF Queued, SyncTypeOK
    <3>2. \A m \in Ids \ {l} : lock_waiting'[m] = lock_waiting[m]
      BY <1>3 DEF SyncTypeOK
    <3>. QED BY <2>1, <3>1, <3>2, AppendFacts
  <2>3. LockWaiters' = LockWaiters \cup {me}
    BY <2>2 DEF LockWaiters
  <2>4. \A p \in Proc : /\ p # me => /\ pending'[p] = pending[p]
                                     /\ awaited_lock'[p] = awaited_lock[p]
                        /\ p = me => pending'[p] = "acquire" /\ awaited_lock'[p] = l
    BY <1>3 DEF SyncTypeOK, ProcessTypeOK
  <2>5. Blocked' = e \cup {me}
    BY <1>0, <2>3 DEF Blocked
  <2>6. PlaceInv(e \cup {me})' /\ Live(e \cup {me})' = Live(e)
    <3>1. ready_queue \in Seq(Proc) /\ NoDuplicates(ready_queue)
      BY <1>0 DEF SyncTypeOK, ProcessTypeOK, PlaceInv, OnePlaceWith
    <3>. PICK nobody : nobody = {}
      OBVIOUS
    <3>2. /\ e = e \cup nobody /\ e \cap nobody = {}
          /\ Range(ready_queue) = Range(ready_queue) \cup nobody
      OBVIOUS
    <3>3. \A p \in Proc \ {me} : pending'[p] = pending[p]
      BY <2>4
    <3>4. SwitchToNextProc(ready_queue)
      BY <1>3
    <3>. QED BY ONLY <1>0, <3>1, <3>2, <3>3, <3>4, me \in Proc, me = current_proc, BlockPlace
  <2>7. PlaceInv(Blocked)' /\ Live(Blocked)' = Live(Blocked)
    BY <2>5, <2>6 DEF PlaceInv, OnePlaceWith, Unborn, Live
  <2>8. QueueInv'
    BY <1>0, <2>1, <2>2, <2>4 DEF SyncInv, QueueInv
  <2>9. GrantInv'
    BY <1>3, <2>3, <2>4 DEF SyncInv, GrantInv
  <2>10. HeldInv' /\ LockOwnership'
    BY <1>3, <2>2 DEF SyncInv, HeldInv, LockOwnership
  <2>. QED BY <2>7, <2>8, <2>9, <2>10 DEF SyncInv
<1>. QED BY <1>1, <1>2, <1>3 DEF Acquire

-----------------------------------------------------------------------------
(* KernelRelease, and the calls on cvars *)

\* Who is woken by a release of lock l.
Heirs(l) == IF lock_waiting[l] = <<>> THEN {} ELSE {Heir(l)}

\* What a release does to the queues of the locks and to the ready queue.
LEMMA UnlockQueues ==
  ASSUME SyncTypeOK, SyncInv, NEW me \in Proc, me = current_proc, NEW l \in Ids, Unlock(l)
  PROVE  /\ \A m \in Ids : /\ Range(lock_waiting'[m]) = Range(lock_waiting[m]) \ Heirs(l)
                           /\ NoDuplicates(lock_waiting'[m])
                           /\ lock_waiting'[m] # <<>> => lock_waiting[m] # <<>>
         /\ LockWaiters' = LockWaiters \ Heirs(l)
         /\ Heirs(l) \subseteq LockWaiters /\ Heirs(l) \cap CvarWaiters = {}
         /\ Heirs(l) \subseteq Proc \ {me}
         /\ \A p \in Heirs(l) : pending[p] = "acquire" /\ awaited_lock[p] = l
         /\ ReadyAfterUnlock(l) \in Seq(Proc)
         /\ NoDuplicates(ReadyAfterUnlock(l))
         /\ Range(ReadyAfterUnlock(l)) = Range(ready_queue) \cup Heirs(l)
<1>1. /\ \A m \in Ids : lock_waiting[m] \in Seq(Proc) /\ NoDuplicates(lock_waiting[m])
      /\ \A m \in Ids : \A p \in Range(lock_waiting[m]) :
           pending[p] = "acquire" /\ awaited_lock[p] = m
      /\ \A c \in Ids : \A p \in Range(cvar_waiting[c]) : pending[p] = "cvar"
      /\ ready_queue \in Seq(Proc) /\ NoDuplicates(ready_queue)
      /\ LockWaiters \cap Range(ready_queue) = {}
      /\ me \notin LockWaiters
  <2>1. me \notin LockWaiters
    <3>. PICK e : e = Blocked
      OBVIOUS
    <3>. QED BY CurrentFacts DEF SyncInv, Blocked
  <2>2. LockWaiters \cap Range(ready_queue) = {} /\ NoDuplicates(ready_queue)
    BY DEF SyncInv, PlaceInv, OnePlaceWith, Blocked
  <2>. QED BY <2>1, <2>2 DEF SyncInv, QueueInv, SyncTypeOK, ProcessTypeOK
<1>2. CASE lock_waiting[l] = <<>>
  <2>1. Heirs(l) = {} /\ ReadyAfterUnlock(l) = ready_queue
    BY <1>2 DEF Heirs, ReadyAfterUnlock
  <2>2. UNCHANGED <<lock_waiting, LockWaiters>>
    BY <1>2 DEF Unlock, LockWaiters
  <2>. QED BY <1>1, <2>1, <2>2
<1>3. CASE lock_waiting[l] # <<>>
  <2>1. Heirs(l) = {Heir(l)} /\ ReadyAfterUnlock(l) = Append(ready_queue, Heir(l))
    BY <1>3 DEF Heirs, ReadyAfterUnlock
  <2>2. /\ Heir(l) \in Proc /\ Heir(l) \in Range(lock_waiting[l])
        /\ Range(lock_waiting[l]) = Range(Tail(lock_waiting[l])) \cup {Heir(l)}
        /\ NoDuplicates(Tail(lock_waiting[l])) /\ Heir(l) \notin Range(Tail(lock_waiting[l]))
    BY <1>1, <1>3, HeadTailFacts DEF Heir
  <2>3. pending[Heir(l)] = "acquire" /\ awaited_lock[Heir(l)] = l
    BY <1>1, <2>2, Zenon
  <2>4. lock_waiting' = [lock_waiting EXCEPT ![l] = Tail(@)]
    BY <1>3 DEF Unlock
  <2>5. /\ lock_waiting'[l] = Tail(lock_waiting[l])
        /\ \A m \in Ids \ {l} : lock_waiting'[m] = lock_waiting[m]
    BY <2>4 DEF SyncTypeOK
  <2>6. \A m \in Ids \ {l} : Heir(l) \notin Range(lock_waiting[m])
    BY <1>1, <2>3, Zenon
  <2>7. \A m \in Ids : /\ Range(lock_waiting'[m]) = Range(lock_waiting[m]) \ {Heir(l)}
                       /\ NoDuplicates(lock_waiting'[m])
                       /\ lock_waiting'[m] # <<>> => lock_waiting[m] # <<>>
    BY <1>1, <1>3, <2>2, <2>5, <2>6
  <2>8. LockWaiters' = LockWaiters \ {Heir(l)} /\ Heir(l) \in LockWaiters
    <3>1. Heir(l) \in LockWaiters
      BY <2>2 DEF LockWaiters
    <3>. QED BY <2>7, <3>1 DEF LockWaiters
  <2>9. Heir(l) \notin CvarWaiters
    BY <1>1, <2>3 DEF CvarWaiters
  <2>10. /\ ReadyAfterUnlock(l) \in Seq(Proc)
        /\ NoDuplicates(ReadyAfterUnlock(l))
        /\ Range(ReadyAfterUnlock(l)) = Range(ready_queue) \cup {Heir(l)}
    BY <1>1, <2>1, <2>2, <2>8, AppendFacts
  <2>11. Heirs(l) \subseteq Proc \ {me} /\ Heirs(l) \subseteq LockWaiters
    BY <1>1, <2>1, <2>2, <2>8
  <2>12. \A p \in Heirs(l) : pending[p] = "acquire" /\ awaited_lock[p] = l
    BY <2>1, <2>3
  <2>. QED BY ONLY <2>1, <2>7, <2>8, <2>9, <2>10, <2>11, <2>12
<1>. QED BY <1>2, <1>3

\* What it does to the records of the owner.
LEMMA UnlockOwner ==
  ASSUME SyncTypeOK, SyncInv, NEW me \in Proc, me = current_proc, NEW l \in Ids,
         Holds(l), Unlock(l)
  PROVE  /\ LockOwnership' /\ HeldInv'
         /\ \A m \in Ids \ {l} : acquired'[m] = acquired[m] /\ owner_id'[m] = owner_id[m]
         /\ \A p \in Heirs(l) : acquired'[l] /\ owner_id'[l] = p
<1>1. /\ \A m \in Ids, p \in Proc :
           m \in Range(owned_lock_ids[p]) <=> acquired[m] /\ owner_id[m] = p
      /\ \A p \in Proc : NoDuplicates(owned_lock_ids[p]) /\ owned_lock_ids[p] \in Seq(Ids)
      /\ acquired[l] /\ owner_id[l] = me
  BY DEF SyncInv, LockOwnership, SyncTypeOK, Holds
<1>2. PICK rest \in WithoutId(owned_lock_ids[current_proc], l) :
    /\ IF lock_waiting[l] = <<>>
       THEN /\ acquired' = [acquired EXCEPT ![l] = FALSE]
            /\ owned_lock_ids' = [owned_lock_ids EXCEPT ![current_proc] = rest]
            /\ UNCHANGED <<owner_id, lock_waiting>>
       ELSE /\ owner_id' = [owner_id EXCEPT ![l] = Heir(l)]
            /\ lock_waiting' = [lock_waiting EXCEPT ![l] = Tail(@)]
            /\ owned_lock_ids' =
                 [p \in Proc |-> CASE p = current_proc -> rest
                                  [] p = Heir(l)      -> Append(owned_lock_ids[p], l)
                                  [] OTHER            -> owned_lock_ids[p]]
            /\ UNCHANGED acquired
    /\ UNCHANGED locks
  BY DEF Unlock
<1>3. Range(rest) = Range(owned_lock_ids[me]) \ {l} /\ NoDuplicates(rest)
  BY <1>1, WithoutIdFacts
<1>4. \A m \in Ids : lock_waiting'[m] # <<>> => lock_waiting[m] # <<>>
  BY UnlockQueues
<1>5. CASE lock_waiting[l] = <<>>
  <2>1. \A m \in Ids : acquired'[m] = IF m = l THEN FALSE ELSE acquired[m]
    BY <1>2, <1>5, Zenon DEF SyncTypeOK
  <2>2. /\ \A p \in Proc \ {me} : owned_lock_ids'[p] = owned_lock_ids[p]
        /\ owned_lock_ids'[me] = rest
        /\ owner_id' = owner_id /\ Heirs(l) = {} /\ lock_waiting' = lock_waiting
    BY <1>2, <1>5 DEF SyncTypeOK, Heirs
  <2>3. LockOwnership'
    <3>1. ASSUME NEW m \in Ids, NEW p \in Proc
          PROVE  m \in Range(owned_lock_ids'[p]) <=> acquired'[m] /\ owner_id'[m] = p
      <4>1. CASE m = l
        <5>1. ~acquired'[l] /\ l \notin Range(rest)
          BY <1>3, <2>1
        <5>2. l \in Range(owned_lock_ids[p]) => p = me
          BY <1>1
        <5>3. l \notin Range(owned_lock_ids'[p])
          BY <2>2, <5>1, <5>2
        <5>. QED BY <4>1, <5>1, <5>3
      <4>2. CASE m # l
        <5>1. acquired'[m] <=> acquired[m]
          BY <2>1, <4>2
        <5>. QED BY <1>1, <1>3, <2>2, <4>2, <5>1
      <4>. QED BY <4>1, <4>2
    <3>. QED BY <1>1, <1>3, <2>2, <3>1 DEF LockOwnership
  <2>4. \A m \in Ids \ {l} : acquired'[m] = acquired[m] /\ owner_id'[m] = owner_id[m]
    BY <2>1, <2>2, Zenon
  <2>5. HeldInv'
    <3>. SUFFICES ASSUME NEW m \in Ids, lock_waiting'[m] # <<>> PROVE acquired'[m]
      BY DEF HeldInv
    <3>1. m # l /\ acquired[m]
      BY <1>5, <2>2 DEF SyncInv, HeldInv
    <3>. QED BY <2>1, <3>1
  <2>. QED BY <2>2, <2>3, <2>4, <2>5
<1>6. CASE lock_waiting[l] # <<>>
  <2>1. /\ Heirs(l) = {Heir(l)} /\ Heir(l) \in Proc \ {me}
        /\ acquired' = acquired
        /\ owner_id'[l] = Heir(l)
        /\ \A m \in Ids \ {l} : owner_id'[m] = owner_id[m]
    <3>1. Heirs(l) = {Heir(l)} /\ Heir(l) \in Proc \ {me}
      BY <1>6, UnlockQueues DEF Heirs
    <3>. QED BY <1>2, <1>6, <3>1 DEF SyncTypeOK
  <2>2. owned_lock_ids' =
                 [p \in Proc |-> CASE p = current_proc -> rest
                                  [] p = Heir(l)      -> Append(owned_lock_ids[p], l)
                                  [] OTHER            -> owned_lock_ids[p]]
    BY <1>2, <1>6
  <2>3. /\ owned_lock_ids'[me] = rest
        /\ owned_lock_ids'[Heir(l)] = Append(owned_lock_ids[Heir(l)], l)
        /\ \A p \in Proc \ {me, Heir(l)} : owned_lock_ids'[p] = owned_lock_ids[p]
    BY ONLY <2>1, <2>2, me = current_proc, me \in Proc
  <2>4. /\ Range(owned_lock_ids'[Heir(l)]) = Range(owned_lock_ids[Heir(l)]) \cup {l}
        /\ NoDuplicates(owned_lock_ids'[Heir(l)])
    <3>1. l \notin Range(owned_lock_ids[Heir(l)])
      BY <1>1, <2>1
    <3>. QED BY <1>1, <2>1, <2>3, <3>1, AppendFacts
  <2>5. LockOwnership'
    <3>1. ASSUME NEW m \in Ids, NEW p \in Proc
          PROVE  m \in Range(owned_lock_ids'[p]) <=> acquired'[m] /\ owner_id'[m] = p
      <4>1. CASE p = me
        BY <1>1, <1>3, <2>1, <2>3, <4>1
      <4>2. CASE p = Heir(l)
        BY <1>1, <2>1, <2>4, <4>2
      <4>3. CASE p \notin {me, Heir(l)}
        BY <1>1, <2>1, <2>3, <4>3
      <4>. QED BY <4>1, <4>2, <4>3
    <3>2. \A p \in Proc : NoDuplicates(owned_lock_ids'[p])
      BY <1>1, <1>3, <2>3, <2>4
    <3>. QED BY <3>1, <3>2 DEF LockOwnership
  <2>6. HeldInv'
    BY <1>4, <2>1 DEF SyncInv, HeldInv
  <2>. QED BY <1>1, <2>1, <2>5, <2>6
<1>. QED BY <1>5, <1>6

LEMMA ReleaseInv ==
  ASSUME SyncTypeOK, SyncInv, NEW l \in Ids, KernelRelease(l), InOwnedList(l)
  PROVE  SyncInv' /\ UNCHANGED Live(Blocked)
<1>1. /\ current_proc \in Proc /\ Holds(l) /\ Unlock(l) /\ ready_queue' = ReadyAfterUnlock(l)
      /\ UNCHANGED <<current_proc, clock_block_procs, waiting_on_children, next_pid, pending,
                     cvar_waiting, awaited_lock, CvarWaiters>>
  BY DEF KernelRelease, Calling, SyncTypeOK, ProcessTypeOK, clockVars, familyVars, cvarVars,
         CvarWaiters
<1>. PICK me \in Proc : me = current_proc
  BY <1>1
<1>. PICK e, f, w : e = Blocked /\ f = Blocked \ Heirs(l) /\ w = Heirs(l)
  OBVIOUS
<1>2. /\ \A m \in Ids : /\ Range(lock_waiting'[m]) = Range(lock_waiting[m]) \ w
                        /\ NoDuplicates(lock_waiting'[m])
      /\ LockWaiters' = LockWaiters \ w
      /\ w \subseteq LockWaiters /\ w \cap CvarWaiters = {}
      /\ \A p \in w : pending[p] = "acquire" /\ awaited_lock[p] = l
      /\ NoDuplicates(ready_queue')
      /\ Range(ready_queue') = Range(ready_queue) \cup w
  BY <1>1, UnlockQueues
<1>3. Blocked' = f
  BY <1>1, <1>2 DEF Blocked
<1>4. PlaceInv(f)' /\ Live(f)' = Live(e)
  <2>1. e = f \cup w /\ f \cap w = {} /\ PlaceInv(e)
    BY <1>2 DEF SyncInv, Blocked
  <2>. QED BY ONLY <1>1, <1>2, <2>1, WakePlace
<1>5. PlaceInv(Blocked)' /\ Live(Blocked)' = Live(Blocked)
  BY <1>3, <1>4 DEF PlaceInv, OnePlaceWith, Unborn, Live
<1>6. QueueInv'
  BY <1>1, <1>2 DEF SyncInv, QueueInv
<1>7. /\ LockOwnership' /\ HeldInv'
      /\ \A m \in Ids \ {l} : acquired'[m] = acquired[m] /\ owner_id'[m] = owner_id[m]
      /\ \A p \in w : acquired'[l] /\ owner_id'[l] = p
  BY <1>1, UnlockOwner
<1>8. \A p \in Proc : pending[p] = "acquire" /\ p \notin LockWaiters =>
         /\ awaited_lock[p] \in Ids \ {l}
         /\ acquired[awaited_lock[p]] /\ owner_id[awaited_lock[p]] = p
  <2>1. pending[me] = "user"
    BY <1>1 DEF KernelRelease, Calling, UserMode
  <2>2. owner_id[l] = me
    BY <1>1 DEF Holds
  <2>. QED BY <2>1, <2>2 DEF SyncInv, QueueInv, GrantInv
<1>9. GrantInv'
  BY <1>1, <1>2, <1>7, <1>8 DEF GrantInv
<1>. QED BY <1>5, <1>6, <1>7, <1>9 DEF SyncInv

LEMMA SignalInv ==
  ASSUME SyncTypeOK, SyncInv, NEW c \in Ids, KernelCvarSignal(c)
  PROVE  SyncInv' /\ UNCHANGED Live(Blocked)
<1>1. /\ cvar_waiting' = [cvar_waiting EXCEPT ![c] = Tail(@)]
      /\ ready_queue' = Append(ready_queue, Head(cvar_waiting[c]))
      /\ cvar_waiting[c] # <<>>
      /\ UNCHANGED <<current_proc, clock_block_procs, waiting_on_children, next_pid, pending,
                     lock_waiting, acquired, owner_id, owned_lock_ids, awaited_lock,
                     LockWaiters>>
  BY DEF KernelCvarSignal, clockVars, familyVars, lockVars, LockWaiters
<1>. PICK h : h = Head(cvar_waiting[c])
  OBVIOUS
<1>2. /\ h \in Proc /\ h \in Range(cvar_waiting[c])
      /\ Range(cvar_waiting[c]) = Range(Tail(cvar_waiting[c])) \cup {h}
      /\ NoDuplicates(Tail(cvar_waiting[c])) /\ h \notin Range(Tail(cvar_waiting[c]))
  BY <1>1, HeadTailFacts DEF SyncTypeOK, SyncInv, QueueInv
<1>3. /\ cvar_waiting'[c] = Tail(cvar_waiting[c])
      /\ \A d \in Ids \ {c} : cvar_waiting'[d] = cvar_waiting[d]
  BY <1>1 DEF SyncTypeOK
<1>4. \A d \in Ids \ {c} : h \notin Range(cvar_waiting[d])
  BY <1>2 DEF SyncInv, QueueInv
<1>5. \A d \in Ids : /\ Range(cvar_waiting'[d]) = Range(cvar_waiting[d]) \ {h}
                     /\ NoDuplicates(cvar_waiting'[d])
  BY <1>2, <1>3, <1>4 DEF SyncInv, QueueInv
<1>6. CvarWaiters' = CvarWaiters \ {h} /\ h \in CvarWaiters
  <2>1. h \in CvarWaiters
    BY <1>2 DEF CvarWaiters
  <2>. QED BY <1>5, <2>1 DEF CvarWaiters
<1>7. pending[h] = "cvar" /\ h \notin LockWaiters
  <2>1. pending[h] = "cvar"
    BY <1>2 DEF SyncInv, QueueInv
  <2>. QED BY <2>1 DEF SyncInv, QueueInv, LockWaiters
<1>. PICK e, f, w : e = Blocked /\ f = Blocked \ {h} /\ w = {h}
  OBVIOUS
<1>8. Blocked' = f
  BY <1>1, <1>6, <1>7 DEF Blocked
<1>9. PlaceInv(f)' /\ Live(f)' = Live(e)
  <2>1. e = f \cup w /\ f \cap w = {} /\ PlaceInv(e)
    BY <1>6 DEF SyncInv, Blocked
  <2>2. /\ ready_queue \in Seq(Proc) /\ NoDuplicates(ready_queue)
        /\ h \notin Range(ready_queue)
    BY <1>6 DEF SyncTypeOK, ProcessTypeOK, SyncInv, PlaceInv, OnePlaceWith, Blocked
  <2>3. NoDuplicates(ready_queue') /\ Range(ready_queue') = Range(ready_queue) \cup w
    BY <1>1, <1>2, <2>2, AppendFacts
  <2>. QED BY ONLY <1>1, <2>1, <2>3, WakePlace
<1>10. PlaceInv(Blocked)' /\ Live(Blocked)' = Live(Blocked)
  BY <1>8, <1>9 DEF PlaceInv, OnePlaceWith, Unborn, Live
<1>11. QueueInv'
  <2>1. \A b, d \in Ids : b # d => Range(cvar_waiting'[b]) \cap Range(cvar_waiting'[d]) = {}
    <3>1. \A b, d \in Ids : b # d => Range(cvar_waiting[b]) \cap Range(cvar_waiting[d]) = {}
      BY DEF SyncInv, QueueInv
    <3>. QED BY ONLY <1>5, <3>1
  <2>2. \A d \in Ids : \A p \in Range(cvar_waiting'[d]) : pending'[p] = "cvar"
    BY <1>1, <1>5 DEF SyncInv, QueueInv
  <2>. QED BY <1>1, <1>5, <2>1, <2>2 DEF SyncInv, QueueInv
<1>12. GrantInv' /\ HeldInv' /\ LockOwnership'
  BY <1>1 DEF SyncInv, GrantInv, HeldInv, LockOwnership
<1>. QED BY <1>10, <1>11, <1>12 DEF SyncInv

LEMMA BroadcastInv ==
  ASSUME SyncTypeOK, SyncInv, NEW c \in Ids, KernelCvarBroadcast(c)
  PROVE  SyncInv' /\ UNCHANGED Live(Blocked)
<1>1. /\ cvar_waiting' = [cvar_waiting EXCEPT ![c] = <<>>]
      /\ ready_queue' = ready_queue \o cvar_waiting[c]
      /\ UNCHANGED <<current_proc, clock_block_procs, waiting_on_children, next_pid, pending,
                     lock_waiting, acquired, owner_id, owned_lock_ids, awaited_lock,
                     LockWaiters>>
  BY DEF KernelCvarBroadcast, clockVars, familyVars, lockVars, LockWaiters
<1>. PICK e, f, w : /\ e = Blocked /\ f = Blocked \ Range(cvar_waiting[c])
                    /\ w = Range(cvar_waiting[c])
  OBVIOUS
<1>2. /\ cvar_waiting'[c] = <<>>
      /\ \A d \in Ids \ {c} : cvar_waiting'[d] = cvar_waiting[d]
  BY <1>1 DEF SyncTypeOK
<1>3. \A d \in Ids : /\ Range(cvar_waiting'[d]) = Range(cvar_waiting[d]) \ w
                     /\ NoDuplicates(cvar_waiting'[d])
  BY <1>2, EmptyFacts DEF SyncInv, QueueInv
<1>4. CvarWaiters' = CvarWaiters \ w /\ w \subseteq CvarWaiters
  <2>1. w \subseteq CvarWaiters
    BY DEF CvarWaiters
  <2>. QED BY <1>3, <2>1 DEF CvarWaiters
<1>5. w \cap LockWaiters = {}
  BY DEF SyncInv, QueueInv, LockWaiters
<1>6. Blocked' = f
  BY <1>1, <1>4, <1>5 DEF Blocked
<1>7. PlaceInv(f)' /\ Live(f)' = Live(e)
  <2>1. e = f \cup w /\ f \cap w = {} /\ PlaceInv(e)
    BY <1>4 DEF SyncInv, Blocked
  <2>2. /\ ready_queue \in Seq(Proc) /\ NoDuplicates(ready_queue)
        /\ Range(ready_queue) \cap w = {}
        /\ cvar_waiting[c] \in Seq(Proc) /\ NoDuplicates(cvar_waiting[c])
    BY <1>4 DEF SyncTypeOK, ProcessTypeOK, SyncInv, PlaceInv, OnePlaceWith, QueueInv, Blocked
  <2>3. NoDuplicates(ready_queue') /\ Range(ready_queue') = Range(ready_queue) \cup w
    BY <1>1, <2>2, ConcatFacts
  <2>. QED BY ONLY <1>1, <2>1, <2>3, WakePlace
<1>8. PlaceInv(Blocked)' /\ Live(Blocked)' = Live(Blocked)
  BY <1>6, <1>7 DEF PlaceInv, OnePlaceWith, Unborn, Live
<1>9. QueueInv'
  <2>1. \A b, d \in Ids : b # d => Range(cvar_waiting'[b]) \cap Range(cvar_waiting'[d]) = {}
    <3>1. \A b, d \in Ids : b # d => Range(cvar_waiting[b]) \cap Range(cvar_waiting[d]) = {}
      BY DEF SyncInv, QueueInv
    <3>. QED BY ONLY <1>3, <3>1
  <2>2. \A d \in Ids : \A p \in Range(cvar_waiting'[d]) : pending'[p] = "cvar"
    BY <1>1, <1>3 DEF SyncInv, QueueInv
  <2>. QED BY <1>1, <1>3, <2>1, <2>2 DEF SyncInv, QueueInv
<1>10. GrantInv' /\ HeldInv' /\ LockOwnership'
  BY <1>1 DEF SyncInv, GrantInv, HeldInv, LockOwnership
<1>. QED BY <1>8, <1>9, <1>10 DEF SyncInv

LEMMA CvarWaitInv ==
  ASSUME SyncTypeOK, SyncInv, NEW c \in Ids, NEW l \in Ids, KernelCvarWait(c, l),
         InOwnedList(l)
  PROVE  SyncInv' /\ UNCHANGED Live(Blocked)
<1>1. /\ current_proc \in Proc /\ pending[current_proc] = "user" /\ Holds(l) /\ Unlock(l)
      /\ cvar_waiting' = [cvar_waiting EXCEPT ![c] = Append(@, current_proc)]
      /\ pending' = [pending EXCEPT ![current_proc] = "cvar"]
      /\ awaited_lock' = [awaited_lock EXCEPT ![current_proc] = l]
      /\ SwitchToNextProc(ReadyAfterUnlock(l))
      /\ UNCHANGED <<clock_block_procs, waiting_on_children, next_pid>>
  BY DEF KernelCvarWait, Calling, UserMode, SyncTypeOK, ProcessTypeOK, clockVars, familyVars
<1>. PICK me \in Proc : me = current_proc
  BY <1>1
<1>. PICK e, f, w, rq : /\ e = Blocked /\ f = Blocked \ Heirs(l) /\ w = Heirs(l)
                        /\ rq = ReadyAfterUnlock(l)
  OBVIOUS
<1>2. /\ \A m \in Ids : /\ Range(lock_waiting'[m]) = Range(lock_waiting[m]) \ w
                        /\ NoDuplicates(lock_waiting'[m])
      /\ LockWaiters' = LockWaiters \ w
      /\ w \subseteq LockWaiters /\ w \cap CvarWaiters = {}
      /\ w \subseteq Proc \ {me}
      /\ \A p \in w : pending[p] = "acquire" /\ awaited_lock[p] = l
      /\ rq \in Seq(Proc) /\ NoDuplicates(rq)
      /\ Range(rq) = Range(ready_queue) \cup w
  BY <1>1, UnlockQueues
<1>3. /\ LockOwnership' /\ HeldInv'
      /\ \A m \in Ids \ {l} : acquired'[m] = acquired[m] /\ owner_id'[m] = owner_id[m]
      /\ \A p \in w : acquired'[l] /\ owner_id'[l] = p
  BY <1>1, UnlockOwner
<1>4. PlaceInv(e) /\ me \notin e
  BY CurrentFacts DEF SyncInv
<1>5. \A m \in Ids : /\ Range(lock_waiting[m]) \subseteq Proc \ {me}
                     /\ Range(cvar_waiting[m]) \subseteq Proc \ {me}
  BY <1>4, EmptyFacts DEF SyncTypeOK, Blocked, LockWaiters, CvarWaiters
<1>6. /\ Range(cvar_waiting'[c]) = Range(cvar_waiting[c]) \cup {me}
      /\ NoDuplicates(cvar_waiting'[c])
      /\ \A d \in Ids \ {c} : cvar_waiting'[d] = cvar_waiting[d]
  <2>1. /\ cvar_waiting'[c] = Append(cvar_waiting[c], me)
        /\ cvar_waiting[c] \in Seq(Proc) /\ NoDuplicates(cvar_waiting[c])
        /\ \A d \in Ids \ {c} : cvar_waiting'[d] = cvar_waiting[d]
    BY <1>1 DEF SyncTypeOK, SyncInv, QueueInv
  <2>. QED BY <1>5, <2>1, AppendFacts
<1>7. CvarWaiters' = CvarWaiters \cup {me}
  BY <1>6 DEF CvarWaiters
<1>8. \A p \in Proc : /\ p # me => /\ pending'[p] = pending[p]
                                   /\ awaited_lock'[p] = awaited_lock[p]
                      /\ p = me => pending'[p] = "cvar" /\ awaited_lock'[p] = l
  BY <1>1 DEF SyncTypeOK, ProcessTypeOK
<1>9. Blocked' = f \cup {me}
  BY <1>2, <1>7 DEF Blocked
<1>10. PlaceInv(f \cup {me})' /\ Live(f \cup {me})' = Live(e)
  <2>1. e = f \cup w /\ f \cap w = {}
    BY <1>2 DEF Blocked
  <2>2. /\ rq \in Seq(Proc) /\ NoDuplicates(rq) /\ Range(rq) = Range(ready_queue) \cup w
        /\ SwitchToNextProc(rq)
        /\ UNCHANGED <<clock_block_procs, waiting_on_children, next_pid>>
    BY <1>1, <1>2
  <2>3. \A p \in Proc \ {me} : pending'[p] = pending[p]
    BY <1>8
  <2>. QED BY ONLY <1>4, <2>1, <2>2, <2>3, me \in Proc, me = current_proc, BlockPlace
<1>11. PlaceInv(Blocked)' /\ Live(Blocked)' = Live(Blocked)
  BY <1>9, <1>10 DEF PlaceInv, OnePlaceWith, Unborn, Live
<1>12. QueueInv'
  <2>1. \A m \in Ids : \A p \in Range(lock_waiting'[m]) :
           pending'[p] = "acquire" /\ awaited_lock'[p] = m
    BY <1>2, <1>5, <1>8 DEF SyncInv, QueueInv
  <2>2. \A d \in Ids : NoDuplicates(cvar_waiting'[d])
    BY <1>6 DEF SyncInv, QueueInv
  <2>3. \A d \in Ids : \A p \in Range(cvar_waiting'[d]) : pending'[p] = "cvar"
    BY <1>5, <1>6, <1>8 DEF SyncInv, QueueInv
  <2>4. \A b, d \in Ids : b # d => Range(cvar_waiting'[b]) \cap Range(cvar_waiting'[d]) = {}
    <3>1. \A b, d \in Ids : b # d => Range(cvar_waiting[b]) \cap Range(cvar_waiting[d]) = {}
      BY DEF SyncInv, QueueInv
    <3>. QED BY ONLY <1>5, <1>6, <3>1
  <2>5. \A p \in Proc : pending'[p] \in {"acquire", "cvar"} => awaited_lock'[p] \in Ids
    BY <1>8 DEF SyncInv, QueueInv
  <2>. QED BY <1>2, <2>1, <2>2, <2>3, <2>4, <2>5 DEF QueueInv
<1>13. GrantInv'
  <2>1. owner_id[l] = me
    BY <1>1 DEF Holds
  <2>2. \A p \in Proc \ {me} : pending[p] = "acquire" /\ p \notin LockWaiters =>
           /\ awaited_lock[p] \in Ids \ {l}
           /\ acquired[awaited_lock[p]] /\ owner_id[awaited_lock[p]] = p
    BY <2>1 DEF SyncInv, QueueInv, GrantInv
  <2>. SUFFICES ASSUME NEW p \in Proc, pending'[p] = "acquire", p \notin LockWaiters'
                PROVE  acquired'[awaited_lock'[p]] /\ owner_id'[awaited_lock'[p]] = p
    BY DEF GrantInv
  <2>3. p # me /\ pending[p] = "acquire" /\ awaited_lock'[p] = awaited_lock[p]
    BY <1>8
  <2>4. CASE p \in w
    BY <1>2, <1>3, <2>3, <2>4
  <2>5. CASE p \notin w
    <3>1. p \notin LockWaiters
      BY <1>2, <2>5
    <3>. QED BY <1>3, <2>2, <2>3, <3>1
  <2>. QED BY <2>4, <2>5
<1>. QED BY <1>3, <1>11, <1>12, <1>13 DEF SyncInv

-----------------------------------------------------------------------------
(* KernelExit of an owner *)

\* Each lock that somebody waits for has one heir, and no process is heir of two.
LEMMA HeirFacts ==
  ASSUME SyncTypeOK, SyncInv, NEW me \in Proc, me = current_proc, NEW passed \in Seq(Ids),
         \A l \in Range(passed) : lock_waiting[l] # <<>>
  PROVE  /\ \A l \in Range(passed) :
              /\ Heir(l) \in Range(lock_waiting[l]) /\ Heir(l) \in Proc \ {me}
              /\ pending[Heir(l)] = "acquire" /\ awaited_lock[Heir(l)] = l
         /\ \A l \in Range(passed), m \in Ids : Heir(l) \in Range(lock_waiting[m]) => l = m
         /\ Range(HeirsOf(passed)) \subseteq LockWaiters
         /\ Range(HeirsOf(passed)) \cap CvarWaiters = {}
         /\ NoDuplicates(passed) => NoDuplicates(HeirsOf(passed))
<1>1. /\ \A l \in Range(passed) : Heir(l) \in Proc /\ Heir(l) \in Range(lock_waiting[l])
      /\ Range(HeirsOf(passed)) = {Heir(l) : l \in Range(passed)}
      /\ Range(passed) \subseteq Ids
  BY HeirsType, EmptyFacts
<1>2. /\ \A l \in Ids : \A p \in Range(lock_waiting[l]) :
           pending[p] = "acquire" /\ awaited_lock[p] = l
      /\ \A c \in Ids : \A p \in Range(cvar_waiting[c]) : pending[p] = "cvar"
  BY DEF SyncInv, QueueInv
<1>3. me \notin LockWaiters
  <2>. PICK e : e = Blocked
    OBVIOUS
  <2>. QED BY CurrentFacts DEF SyncInv, Blocked
<1>4. \A l \in Range(passed) :
        /\ Heir(l) \in Range(lock_waiting[l]) /\ Heir(l) \in Proc
        /\ pending[Heir(l)] = "acquire" /\ awaited_lock[Heir(l)] = l
  BY <1>1, <1>2, Zenon
<1>5. \A l \in Range(passed) : Heir(l) \in LockWaiters /\ Heir(l) # me
  BY <1>1, <1>3, <1>4 DEF LockWaiters
<1>6. \A l \in Range(passed), m \in Ids : Heir(l) \in Range(lock_waiting[m]) => l = m
  <2>. SUFFICES ASSUME NEW l \in Range(passed), NEW m \in Ids,
                       Heir(l) \in Range(lock_waiting[m])
                PROVE  l = m
    OBVIOUS
  <2>1. awaited_lock[Heir(l)] = m
    BY <1>2
  <2>. QED BY <1>4, <2>1
<1>7. Range(HeirsOf(passed)) \cap CvarWaiters = {}
  <2>1. \A l \in Range(passed) : Heir(l) \notin CvarWaiters
    BY <1>2, <1>4 DEF CvarWaiters
  <2>. QED BY <1>1, <2>1
<1>8. NoDuplicates(passed) => NoDuplicates(HeirsOf(passed))
  <2>1. \A i \in DOMAIN passed : passed[i] \in Range(passed) /\ HeirsOf(passed)[i] = Heir(passed[i])
    BY DEF Range, HeirsOf
  <2>2. DOMAIN HeirsOf(passed) = DOMAIN passed
    BY DEF HeirsOf
  <2>3. \A i, j \in DOMAIN passed : HeirsOf(passed)[i] = HeirsOf(passed)[j] =>
                                      passed[i] = passed[j]
    BY <1>4, <2>1
  <2>. QED BY <2>2, <2>3 DEF NoDuplicates
<1>. QED BY <1>1, <1>4, <1>5, <1>6, <1>7, <1>8

LEMMA PassesOnInv ==
  ASSUME SyncTypeOK, SyncInv, NEW me \in Proc, me = current_proc, NEW passed \in Seq(Ids),
         \A l \in Range(owned_lock_ids[me]) : Holds(l),
         Range(passed) = {l \in Range(owned_lock_ids[me]) : lock_waiting[l] # <<>>},
         NoDuplicates(passed), pending[me] = "user",
         PassesOn(passed), LeaveFamily(ready_queue \o HeirsOf(passed)),
         UNCHANGED <<clockVars, pending, next_pid, cvarVars, awaited_lock>>
  PROVE  SyncInv' /\ Live(Blocked)' = Live(Blocked) \ {me}
<1>. PICK e, f, w, rq : /\ e = Blocked /\ f = Blocked \ Range(HeirsOf(passed))
                        /\ w = Range(HeirsOf(passed)) /\ rq = ready_queue \o HeirsOf(passed)
  OBVIOUS
<1>1. /\ \A l \in Range(passed) :
           /\ Heir(l) \in Range(lock_waiting[l]) /\ Heir(l) \in Proc \ {me}
           /\ pending[Heir(l)] = "acquire" /\ awaited_lock[Heir(l)] = l
      /\ \A l \in Range(passed), m \in Ids : Heir(l) \in Range(lock_waiting[m]) => l = m
      /\ w \subseteq LockWaiters /\ w \cap CvarWaiters = {}
      /\ NoDuplicates(HeirsOf(passed))
  BY HeirFacts
<1>2. HeirsOf(passed) \in Seq(Proc) /\ w = {Heir(l) : l \in Range(passed)}
  BY HeirsType
<1>3. /\ Range(passed) \subseteq Ids
      /\ \A l \in Range(passed) : /\ acquired[l] /\ owner_id[l] = me /\ lock_waiting[l] # <<>>
                                  /\ l \in Range(owned_lock_ids[me])
  BY EmptyFacts DEF Holds
<1>4. /\ \A m \in Ids : acquired'[m] <=>
            acquired[m] /\ (m \in Range(owned_lock_ids[me]) => lock_waiting[m] # <<>>)
      /\ \A m \in Ids : owner_id'[m] = IF m \in Range(passed) THEN Heir(m) ELSE owner_id[m]
      /\ \A m \in Ids : lock_waiting'[m] = IF m \in Range(passed) THEN Tail(lock_waiting[m])
                                           ELSE lock_waiting[m]
  BY DEF PassesOn
<1>5. \A m \in Ids : /\ Range(lock_waiting'[m]) = Range(lock_waiting[m]) \ w
                     /\ NoDuplicates(lock_waiting'[m])
                     /\ lock_waiting'[m] # <<>> => lock_waiting[m] # <<>>
  <2>. SUFFICES ASSUME NEW m \in Ids
                PROVE  /\ Range(lock_waiting'[m]) = Range(lock_waiting[m]) \ w
                       /\ NoDuplicates(lock_waiting'[m])
                       /\ lock_waiting'[m] # <<>> => lock_waiting[m] # <<>>
    OBVIOUS
  <2>1. lock_waiting[m] \in Seq(Proc) /\ NoDuplicates(lock_waiting[m])
    BY DEF SyncTypeOK, SyncInv, QueueInv
  <2>2. CASE m \in Range(passed)
    <3>1. /\ Range(lock_waiting[m]) = Range(Tail(lock_waiting[m])) \cup {Heir(m)}
          /\ NoDuplicates(Tail(lock_waiting[m])) /\ Heir(m) \notin Range(Tail(lock_waiting[m]))
      BY <1>3, <2>1, <2>2, HeadTailFacts DEF Heir
    <3>2. Range(lock_waiting[m]) \cap w = {Heir(m)}
      BY <1>1, <1>2, <2>2
    <3>. QED BY <1>3, <1>4, <2>2, <3>1, <3>2
  <2>3. CASE m \notin Range(passed)
    <3>1. Range(lock_waiting[m]) \cap w = {}
      BY <1>1, <1>2, <2>3
    <3>. QED BY <1>4, <2>1, <2>3, <3>1
  <2>. QED BY <2>2, <2>3
<1>6. LockWaiters' = LockWaiters \ w
  BY <1>5 DEF LockWaiters
<1>7. UNCHANGED <<cvar_waiting, CvarWaiters, clock_block_procs, pending, next_pid,
                  awaited_lock>>
  BY DEF cvarVars, clockVars, CvarWaiters
<1>8. Blocked' = f
  BY <1>1, <1>6, <1>7 DEF Blocked
<1>9. PlaceInv(e)
  BY DEF SyncInv
<1>10. /\ OnePlaceWith(f)'
       /\ Live(f)' = Live(e) \ {me}
  <2>1. e = f \cup w /\ f \cap w = {}
    BY <1>1 DEF Blocked
  <2>2. /\ ready_queue \in Seq(Proc) /\ NoDuplicates(ready_queue)
        /\ Range(ready_queue) \cap w = {}
    BY <1>9, <2>1 DEF SyncTypeOK, ProcessTypeOK, PlaceInv, OnePlaceWith
  <2>3. /\ rq \in Seq(Proc) /\ NoDuplicates(rq)
        /\ Range(rq) = Range(ready_queue) \cup w
    <3>. PICK h : h = HeirsOf(passed)
      OBVIOUS
    <3>1. /\ h \in Seq(Proc) /\ NoDuplicates(h) /\ w = Range(h)
          /\ rq = ready_queue \o h
      BY <1>1, <1>2
    <3>. QED BY ONLY <2>2, <3>1, ConcatFacts
  <2>4. /\ NoDuplicates(clock_block_procs)
        /\ Range(clock_block_procs) \cap Range(rq) = {}
        /\ Waiters \cap (Range(rq) \cup Range(clock_block_procs)) = {}
        /\ f \cap (Range(rq) \cup Range(clock_block_procs) \cup Waiters) = {}
    BY <1>9, <2>1, <2>3 DEF PlaceInv, OnePlaceWith
  <2>5. /\ ProcessTypeOK({"running", "halted", "aborted", "hung"},
                         {"user", "wait", "acquire", "cvar"})
        /\ LeaveFamily(rq) /\ UNCHANGED clockVars
    BY DEF SyncTypeOK
  <2>6. /\ OnePlaceWith(f)'
        /\ Live(f)' = Range(rq) \cup Range(clock_block_procs) \cup Waiters \cup f
    BY ONLY <2>3, <2>4, <2>5, me \in Proc, me = current_proc, LeaveFamilyPlace
  <2>7. Live(f)' = Live(e) \ {me}
    BY <1>9, <2>1, <2>3, <2>6, CurrentFacts DEF Live
  <2>. QED BY <2>6, <2>7
<1>11. PlaceInv(Blocked)' /\ Live(Blocked)' = Live(Blocked) \ {me}
  BY <1>7, <1>8, <1>9, <1>10 DEF PlaceInv, OnePlaceWith, Unborn, Live
<1>12. QueueInv'
  <2>1. \A m \in Ids : \A p \in Range(lock_waiting'[m]) :
           pending'[p] = "acquire" /\ awaited_lock'[p] = m
    <3>1. \A m \in Ids : \A p \in Range(lock_waiting[m]) :
             pending[p] = "acquire" /\ awaited_lock[p] = m
      BY DEF SyncInv, QueueInv
    <3>. QED BY ONLY <1>5, <1>7, <3>1
  <2>2. /\ \A m \in Ids : NoDuplicates(cvar_waiting[m])
        /\ \A c \in Ids : \A p \in Range(cvar_waiting[c]) : pending[p] = "cvar"
        /\ \A c, d \in Ids : c # d => Range(cvar_waiting[c]) \cap Range(cvar_waiting[d]) = {}
        /\ \A p \in Proc : pending[p] \in {"acquire", "cvar"} => awaited_lock[p] \in Ids
    BY DEF SyncInv, QueueInv
  <2>. QED BY ONLY <1>5, <1>7, <2>1, <2>2 DEF QueueInv
<1>13. HeldInv'
  <2>1. \A m \in Ids : lock_waiting'[m] # <<>> => acquired[m] /\ lock_waiting[m] # <<>>
    BY <1>5 DEF SyncInv, HeldInv
  <2>. QED BY <1>4, <2>1 DEF HeldInv
<1>14. GrantInv'
  <2>. SUFFICES ASSUME NEW p \in Proc, pending[p] = "acquire", p \notin LockWaiters'
                PROVE  acquired'[awaited_lock[p]] /\ owner_id'[awaited_lock[p]] = p
    BY <1>7 DEF GrantInv
  <2>1. awaited_lock[p] \in Ids
    BY DEF SyncInv, QueueInv
  <2>2. CASE p \in w
    <3>1. PICK l \in Range(passed) : p = Heir(l)
      BY <1>2, <2>2
    <3>2. awaited_lock[p] = l /\ acquired[l] /\ lock_waiting[l] # <<>>
      BY <1>1, <1>3, <3>1
    <3>. QED BY <1>4, <2>1, <3>1, <3>2
  <2>3. CASE p \notin w
    <3>1. p \notin LockWaiters
      BY <1>6, <2>3
    <3>2. acquired[awaited_lock[p]] /\ owner_id[awaited_lock[p]] = p
      BY <3>1 DEF SyncInv, GrantInv
    <3>3. awaited_lock[p] \notin Range(owned_lock_ids[me])
      BY <3>2 DEF Holds
    <3>. QED BY <1>3, <1>4, <2>1, <3>2, <3>3
  <2>. QED BY <2>2, <2>3
<1>15. LockOwnership'
  <2>1. /\ \A m \in Ids, p \in Proc :
             m \in Range(owned_lock_ids[p]) <=> acquired[m] /\ owner_id[m] = p
        /\ \A p \in Proc : NoDuplicates(owned_lock_ids[p]) /\ owned_lock_ids[p] \in Seq(Ids)
    BY DEF SyncInv, LockOwnership, SyncTypeOK
  <2>2. owned_lock_ids' =
          [p \in Proc |->
             CASE p = me -> <<>>
               [] \E l \in Range(passed) : Heir(l) = p ->
                    Append(owned_lock_ids[p], CHOOSE l \in Range(passed) : Heir(l) = p)
               [] OTHER -> owned_lock_ids[p]]
    BY DEF PassesOn
  <2>3. owned_lock_ids'[me] = <<>>
    <3>1. ~ \E l \in Range(passed) : Heir(l) = me
      BY <1>1
    <3>. QED BY ONLY <2>2, <3>1, me \in Proc
  <2>4. \A l \in Range(passed) :
           /\ Heir(l) \in Proc \ {me}
           /\ owned_lock_ids'[Heir(l)] = Append(owned_lock_ids[Heir(l)], l)
           /\ Range(owned_lock_ids'[Heir(l)]) = Range(owned_lock_ids[Heir(l)]) \cup {l}
           /\ NoDuplicates(owned_lock_ids'[Heir(l)])
    <3>. SUFFICES ASSUME NEW l \in Range(passed), NEW p, p = Heir(l)
                  PROVE  /\ p \in Proc \ {me}
                         /\ owned_lock_ids'[p] = Append(owned_lock_ids[p], l)
                         /\ Range(owned_lock_ids'[p]) = Range(owned_lock_ids[p]) \cup {l}
                         /\ NoDuplicates(owned_lock_ids'[p])
      OBVIOUS
    <3>1. p \in Proc \ {me} /\ \A m \in Range(passed) : Heir(m) = p <=> m = l
      BY <1>1, <1>3
    <3>2. (CHOOSE m \in Range(passed) : Heir(m) = p) = l
      BY <3>1
    <3>3. \E m \in Range(passed) : Heir(m) = p
      BY <3>1
    <3>4. owned_lock_ids'[p] = Append(owned_lock_ids[p], l)
      BY ONLY <2>2, <3>1, <3>2, <3>3
    <3>. PICK q : q = owned_lock_ids[p]
      OBVIOUS
    <3>5. q \in Seq(Ids) /\ NoDuplicates(q) /\ l \in Ids /\ l \notin Range(q)
      BY <1>3, <2>1, <3>1
    <3>6. /\ Range(Append(q, l)) = Range(q) \cup {l}
          /\ NoDuplicates(Append(q, l))
      BY ONLY <3>5, AppendFacts
    <3>. QED BY <3>1, <3>4, <3>6
  <2>5. \A p \in Proc \ {me} : p \notin w => owned_lock_ids'[p] = owned_lock_ids[p]
    <3>. SUFFICES ASSUME NEW p \in Proc \ {me}, p \notin w
                  PROVE  owned_lock_ids'[p] = owned_lock_ids[p]
      OBVIOUS
    <3>1. ~ \E m \in Range(passed) : Heir(m) = p
      BY <1>2
    <3>. QED BY ONLY <2>2, <3>1, p \in Proc \ {me}
  <2>6. \A m \in Ids, p \in Proc \ {me} :
           m \in Range(owned_lock_ids'[p]) <=>
             m \in Range(owned_lock_ids[p]) \/ (m \in Range(passed) /\ Heir(m) = p)
    <3>. SUFFICES ASSUME NEW m \in Ids, NEW p \in Proc \ {me}
                  PROVE  m \in Range(owned_lock_ids'[p]) <=>
                           m \in Range(owned_lock_ids[p]) \/ (m \in Range(passed) /\ Heir(m) = p)
      OBVIOUS
    <3>1. CASE p \in w
      <4>1. PICK l \in Range(passed) : p = Heir(l)
        BY <1>2, <3>1
      <4>2. Range(owned_lock_ids'[p]) = Range(owned_lock_ids[p]) \cup {l}
        BY <2>4, <4>1
      <4>3. m \in Range(passed) => (Heir(m) = p <=> m = l)
        BY <1>1, <1>3, <4>1
      <4>. QED BY <4>1, <4>2, <4>3
    <3>2. CASE p \notin w
      BY <1>2, <2>5, <3>2
    <3>. QED BY <3>1, <3>2
  <2>7. \A m \in Ids : m \in Range(passed) =>
           acquired'[m] /\ owner_id'[m] = Heir(m) /\ Heir(m) # me /\ owner_id[m] = me
    BY <1>1, <1>3, <1>4
  <2>8. \A m \in Ids : m \notin Range(passed) =>
           /\ owner_id'[m] = owner_id[m]
           /\ owner_id[m] # me => (acquired'[m] <=> acquired[m])
           /\ owner_id[m] = me => ~acquired'[m]
    <3>. SUFFICES ASSUME NEW m \in Ids, m \notin Range(passed)
                  PROVE  /\ owner_id'[m] = owner_id[m]
                         /\ owner_id[m] # me => (acquired'[m] <=> acquired[m])
                         /\ owner_id[m] = me => ~acquired'[m]
      OBVIOUS
    <3>1. m \in Range(owned_lock_ids[me]) <=> acquired[m] /\ owner_id[m] = me
      BY <2>1
    <3>2. m \in Range(owned_lock_ids[me]) => lock_waiting[m] = <<>>
      OBVIOUS
    <3>3. acquired'[m] <=>
            acquired[m] /\ (m \in Range(owned_lock_ids[me]) => lock_waiting[m] # <<>>)
      BY <1>4
    <3>. QED BY <1>4, <3>1, <3>2, <3>3
  <2>9. ASSUME NEW m \in Ids, NEW p \in Proc
        PROVE  m \in Range(owned_lock_ids'[p]) <=> acquired'[m] /\ owner_id'[m] = p
    <3>1. CASE p = me
      <4>1. m \notin Range(owned_lock_ids'[p])
        BY <2>3, <3>1, EmptyFacts
      <4>. QED BY <2>7, <2>8, <3>1, <4>1
    <3>2. CASE p # me /\ m \in Range(passed)
      <4>1. m \notin Range(owned_lock_ids[p])
        BY <2>1, <2>7, <3>2
      <4>2. m \in Range(owned_lock_ids'[p]) <=> Heir(m) = p
        BY <2>6, <3>2, <4>1
      <4>. QED BY <2>7, <3>2, <4>2
    <3>3. CASE p # me /\ m \notin Range(passed)
      <4>1. m \in Range(owned_lock_ids'[p]) <=> m \in Range(owned_lock_ids[p])
        BY <2>6, <3>3
      <4>2. m \in Range(owned_lock_ids[p]) <=> acquired[m] /\ owner_id[m] = p
        BY <2>1
      <4>. QED BY <2>8, <3>3, <4>1, <4>2
    <3>. QED BY <3>1, <3>2, <3>3
  <2>10. ASSUME NEW p \in Proc PROVE NoDuplicates(owned_lock_ids'[p])
    <3>1. CASE p = me
      BY <2>3, <3>1, EmptyFacts
    <3>2. CASE p \in w
      BY <1>2, <2>4, <3>2
    <3>3. CASE p # me /\ p \notin w
      BY <2>1, <2>5, <3>3
    <3>. QED BY <3>1, <3>2, <3>3
  <2>. QED BY <2>9, <2>10 DEF LockOwnership
<1>. QED BY <1>11, <1>12, <1>13, <1>14, <1>15 DEF SyncInv

LEMMA SyncExitInv ==
  ASSUME SyncTypeOK, SyncInv, SyncExit
  PROVE  /\ SyncInv'
         /\ \/ UNCHANGED <<acquired, owner_id, Live(Blocked)>>
            \/ /\ Live(Blocked)' = Live(Blocked) \ {current_proc}
               /\ owned_lock_ids'[current_proc] = <<>>
<1>. PICK me \in Proc : me = current_proc
  BY SyncExitCases
<1>1. /\ pending[me] = "user"
      /\ UNCHANGED <<clockVars, pending, next_pid, cvarVars, awaited_lock>>
  BY SyncExitCases
<1>2. CASE /\ \A l \in Range(owned_lock_ids[me]) : Holds(l)
           /\ \E passed \in Seq(Ids) :
                /\ Range(passed) = {l \in Range(owned_lock_ids[me]) : lock_waiting[l] # <<>>}
                /\ NoDuplicates(owned_lock_ids[me]) => NoDuplicates(passed)
                /\ PassesOn(passed)
                /\ LeaveFamily(ready_queue \o HeirsOf(passed))
  <2>1. PICK passed \in Seq(Ids) :
                /\ Range(passed) = {l \in Range(owned_lock_ids[me]) : lock_waiting[l] # <<>>}
                /\ NoDuplicates(owned_lock_ids[me]) => NoDuplicates(passed)
                /\ PassesOn(passed)
                /\ LeaveFamily(ready_queue \o HeirsOf(passed))
    BY <1>2
  <2>2. NoDuplicates(passed) /\ \A l \in Range(passed) : lock_waiting[l] # <<>>
    BY <2>1 DEF SyncInv, LockOwnership
  <2>3. SyncInv' /\ Live(Blocked)' = Live(Blocked) \ {me}
    BY <1>1, <1>2, <2>1, <2>2, PassesOnInv
  <2>4. owned_lock_ids'[me] = <<>>
    <3>1. ~ \E l \in Range(passed) : Heir(l) = me
      BY <2>2, HeirFacts
    <3>2. owned_lock_ids' =
            [p \in Proc |->
               CASE p = me -> <<>>
                 [] \E l \in Range(passed) : Heir(l) = p ->
                      Append(owned_lock_ids[p], CHOOSE l \in Range(passed) : Heir(l) = p)
                 [] OTHER -> owned_lock_ids[p]]
      BY <2>1 DEF PassesOn
    <3>. QED BY ONLY <3>1, <3>2, me \in Proc
  <2>. QED BY <2>3, <2>4
<1>3. CASE UNCHANGED <<lockVars, schedVars, waiting_on_children>>
  BY <1>1, <1>3, SyncInvUnchanged DEF lockVars, schedVars, clockVars, cvarVars
<1>. QED BY <1>2, <1>3, SyncExitCases

-----------------------------------------------------------------------------
(* The invariant *)

LEMMA SyncInvInit == SyncInit => SyncInv
<1>. SUFFICES ASSUME SyncInit PROVE SyncInv
  OBVIOUS
<1>1. Blocked = {}
  BY EmptyFacts DEF SyncInit, Blocked, LockWaiters, CvarWaiters
<1>2. PlaceInv(Blocked)
  BY <1>1, PlaceInit DEF SyncInit, PlaceInv, OnePlaceWith, Unborn, Live
<1>3. /\ \A p \in Proc : pending[p] = "user"
      /\ \A l \in Ids : /\ lock_waiting[l] = <<>> /\ cvar_waiting[l] = <<>>
                        /\ ~acquired[l]
      /\ \A p \in Proc : owned_lock_ids[p] = <<>>
  BY DEF SyncInit, ProcessInit
<1>4. QueueInv /\ GrantInv /\ HeldInv /\ LockOwnership
  BY <1>3, EmptyFacts DEF QueueInv, GrantInv, HeldInv, LockOwnership
<1>. QED BY <1>2, <1>4 DEF SyncInv

\* An owner never has a lock that is missing from its list, so the asserts of
\* KernelAcquire and KernelRelease hold where they are evaluated.
LEMMA LockAsserts ==
  ASSUME SyncTypeOK, SyncInv
  PROVE  /\ KernelAcquireReturns => AcquireReturns /\ UNCHANGED machine
         /\ \A l \in Ids : KernelRelease(l) => InOwnedList(l)
         /\ \A c, l \in Ids : KernelCvarWait(c, l) => InOwnedList(l)
<1>1. \A l \in Ids : current_proc \in Proc /\ Holds(l) => InOwnedList(l)
  BY DEF SyncInv, LockOwnership, Holds, InOwnedList
<1>2. machine = "running" /\ current_proc # IDLE_PID => current_proc \in Proc
  BY DEF SyncTypeOK, ProcessTypeOK
<1>3. ASSUME KernelAcquireReturns PROVE AcquireReturns /\ UNCHANGED machine
  <2>1. current_proc \in Proc /\ pending[current_proc] = "acquire"
    BY <1>2, <1>3 DEF KernelAcquireReturns, Resuming
  <2>2. current_proc \notin LockWaiters
    <3>. PICK e : e = Blocked
      OBVIOUS
    <3>. QED BY <2>1, CurrentFacts DEF SyncInv, Blocked
  <2>3. awaited_lock[current_proc] \in Ids /\ Holds(awaited_lock[current_proc])
    BY <2>1, <2>2 DEF SyncInv, QueueInv, GrantInv, Holds
  <2>4. awaited_lock[current_proc] \in Range(owned_lock_ids[current_proc])
    BY <1>1, <2>1, <2>3 DEF InOwnedList
  <2>. QED BY <1>3, <2>3, <2>4 DEF KernelAcquireReturns
<1>4. ASSUME NEW l \in Ids, KernelRelease(l) PROVE InOwnedList(l)
  BY <1>1, <1>2, <1>4 DEF KernelRelease, Calling, UserMode
<1>5. ASSUME NEW c \in Ids, NEW l \in Ids, KernelCvarWait(c, l) PROVE InOwnedList(l)
  BY <1>1, <1>2, <1>5 DEF KernelCvarWait, Calling, UserMode
<1>. QED BY <1>3, <1>4, <1>5

LEMMA SyncHandlersInv ==
  ASSUME SyncTypeOK, SyncInv, SyncHandlers
  PROVE  SyncInv' /\ Live(Blocked) \subseteq Live(Blocked)'
<1>1. CASE ProcessHandlers /\ UNCHANGED syncVars
  BY <1>1, HandlersInv
<1>2. CASE KernelLockInit
  BY <1>2, SyncInvUnchanged DEF KernelLockInit, processVars, schedVars, clockVars, familyVars,
                                cvarVars
<1>3. ASSUME NEW l \in Ids, KernelAcquire(l) PROVE SyncInv' /\ UNCHANGED Live(Blocked)
  <2>1. current_proc \in Proc
    BY <1>3 DEF KernelAcquire, Calling, SyncTypeOK, ProcessTypeOK
  <2>. QED BY <1>3, <2>1, AcquireInv DEF KernelAcquire
<1>4. CASE KernelAcquireReturns
  <2>1. current_proc \in Proc
    BY <1>4 DEF KernelAcquireReturns, Resuming, SyncTypeOK, ProcessTypeOK
  <2>2. AcquireReturns /\ UNCHANGED <<clockVars, familyVars, cvarVars, lockVars>>
    BY <1>4, LockAsserts DEF KernelAcquireReturns
  <2>. QED BY <2>1, <2>2, ReturnsUnchanged
<1>5. ASSUME NEW l \in Ids, KernelRelease(l) PROVE SyncInv' /\ UNCHANGED Live(Blocked)
  BY <1>5, LockAsserts, ReleaseInv
<1>6. CASE KernelCvarInit
  BY <1>6, SyncInvUnchanged DEF KernelCvarInit, processVars, schedVars, clockVars, familyVars,
                                lockVars
<1>7. ASSUME NEW c \in Ids, NEW l \in Ids, KernelCvarWait(c, l)
      PROVE  SyncInv' /\ UNCHANGED Live(Blocked)
  BY <1>7, LockAsserts, CvarWaitInv
<1>8. CASE KernelCvarWaitResumes
  <2>1. current_proc \in Proc /\ awaited_lock[current_proc] \in Ids
    BY <1>8 DEF KernelCvarWaitResumes, Resuming, SyncTypeOK, ProcessTypeOK, SyncInv, QueueInv
  <2>2. Acquire(awaited_lock[current_proc]) /\ UNCHANGED <<clockVars, familyVars, cvarVars>>
    BY <1>8 DEF KernelCvarWaitResumes
  <2>. QED BY <2>1, <2>2, AcquireInv
<1>9. ASSUME NEW id \in Ids, KernelReclaim(id) PROVE SyncInv' /\ UNCHANGED Live(Blocked)
  BY <1>9, SyncInvUnchanged DEF KernelReclaim, processVars, schedVars, clockVars, familyVars
<1>. QED BY <1>1, <1>2, <1>3, <1>4, <1>5, <1>6, <1>7, <1>8, <1>9, SignalInv, BroadcastInv
     DEF SyncHandlers

\* A step that is no call: the machine has stopped, or stops.
LEMMA SyncStopInv ==
  ASSUME SyncInv,
         UNCHANGED <<schedVars, clockVars, pending, familyVars, syncVars>>
  PROVE  SyncInv' /\ UNCHANGED Live(Blocked)
BY SyncInvUnchanged DEF schedVars, clockVars, familyVars, syncVars, lockVars, cvarVars

LEMMA SyncInvStep == SyncTypeOK /\ SyncInv /\ [SyncNext]_vars => SyncInv'
BY SyncHandlersInv, SyncExitInv, SyncStopInv DEF SyncNext, vars, processVars

LEMMA SyncInvariant == SyncSpec => []SyncInv
BY SyncInvInit, SyncInvStep, SyncTypeCorrect, PTL DEF SyncSpec

-----------------------------------------------------------------------------
(* The theorems *)

\* A blocked process is in one queue, once (SyncSpec => []SyncOnePlace): release,
\* signal, broadcast and exit move it to the ready queue exactly once.
THEOREM SyncOnePlaceAlways == SyncSpec => []SyncOnePlace
<1>1. SyncInv => SyncOnePlace
  <2>. SUFFICES ASSUME SyncInv PROVE SyncOnePlace
    OBVIOUS
  <2>1. OnePlaceWith(LockWaiters \cup CvarWaiters)
    BY DEF SyncInv, PlaceInv, Blocked
  <2>2. LockWaiters \cap CvarWaiters = {}
    BY DEF SyncInv, QueueInv, LockWaiters, CvarWaiters
  <2>3. \A l, m \in Ids :
          l # m => /\ Range(lock_waiting[l]) \cap Range(lock_waiting[m]) = {}
                   /\ Range(cvar_waiting[l]) \cap Range(cvar_waiting[m]) = {}
    <3>1. \A l \in Ids : \A p \in Range(lock_waiting[l]) : awaited_lock[p] = l
      BY DEF SyncInv, QueueInv
    <3>2. \A l, m \in Ids : l # m => Range(cvar_waiting[l]) \cap Range(cvar_waiting[m]) = {}
      BY DEF SyncInv, QueueInv
    <3>. QED BY ONLY <3>1, <3>2
  <2>. QED BY <2>1, <2>2, <2>3 DEF SyncOnePlace, SyncInv, QueueInv
<1>. QED BY <1>1, SyncInvariant, PTL

\* The owner recorded in a lock and the owner's list of locks agree
\* (SyncSpec => []LockOwnership), as KernelRelease asserts and KernelExit assumes.
THEOREM LockOwnershipAlways == SyncSpec => []LockOwnership
<1>1. SyncInv => LockOwnership
  BY DEF SyncInv
<1>. QED BY <1>1, SyncInvariant, PTL

LEMMA SyncAssertStep ==
  ASSUME SyncTypeOK, SyncInv, AssertInv, [SyncNext]_vars
  PROVE  AssertInv'
<1>. USE DEF AssertInv, WokenHasZombie
<1>1. CASE ProcessHandlers
  BY <1>1, HandlersAssert DEF SyncTypeOK, SyncInv
<1>2. ASSUME NEW l \in Ids, KernelAcquire(l) PROVE AssertInv'
  BY <1>2 DEF KernelAcquire, Acquire, AcquireReturns, familyVars, SyncTypeOK, ProcessTypeOK,
              Calling, UserMode
<1>3. CASE KernelAcquireReturns
  BY <1>3, LockAsserts DEF KernelAcquireReturns, AcquireReturns, familyVars, SyncTypeOK,
              ProcessTypeOK
<1>4. ASSUME NEW l \in Ids, KernelRelease(l) PROVE AssertInv'
  BY <1>4, LockAsserts DEF KernelRelease, familyVars
<1>5. ASSUME NEW c \in Ids, NEW l \in Ids, KernelCvarWait(c, l) PROVE AssertInv'
  BY <1>5, LockAsserts DEF KernelCvarWait, familyVars, SyncTypeOK, ProcessTypeOK
<1>6. CASE KernelCvarWaitResumes
  BY <1>6 DEF KernelCvarWaitResumes, Resuming, Acquire, AcquireReturns, familyVars,
              SyncTypeOK, ProcessTypeOK
<1>7. CASE SyncExit
  <2>1. CASE machine' = "hung" /\ UNCHANGED <<pending, waiting_on_children, zombie_children>>
    BY <2>1
  <2>2. CASE /\ UNCHANGED <<machine, pending>>
             /\ \E rq : LeaveFamily(rq)
    <3>1. Calling
      BY <1>7 DEF SyncExit
    <3>2. current_proc \in Proc /\ pending[current_proc] # "wait"
      BY <3>1 DEF Calling, UserMode, SyncTypeOK, ProcessTypeOK
    <3>. QED BY <2>2, <3>2, LeaveFamilyAssert DEF SyncTypeOK
  <2>. QED BY <1>7, <2>1, <2>2, SyncExitCases DEF PassesOn
<1>8. CASE UNCHANGED <<machine, pending, familyVars>>
  BY <1>8 DEF familyVars
<1>9. CASE HaltByInit /\ UNCHANGED <<schedVars, clockVars, pending, familyVars, syncVars>>
  BY <1>9 DEF HaltByInit, familyVars
<1>10. ASSUME NEW c \in Ids, KernelCvarSignal(c) \/ KernelCvarBroadcast(c) \/ KernelReclaim(c)
       PROVE  AssertInv'
  BY <1>10 DEF KernelCvarSignal, KernelCvarBroadcast, KernelReclaim, processVars, familyVars
<1>11. CASE KernelLockInit \/ KernelCvarInit \/ UNCHANGED vars
  BY <1>11 DEF KernelLockInit, KernelCvarInit, vars, processVars, familyVars
<1>. QED BY <1>1, <1>2, <1>3, <1>4, <1>5, <1>6, <1>7, <1>8, <1>9, <1>10, <1>11
     DEF SyncNext, SyncHandlers

\* No assert of KernelWait, KernelAcquire or KernelRelease fails
\* (SyncSpec => []SyncAssertsHold), whatever is reclaimed and whoever exits.
THEOREM SyncAssertsHoldAlways == SyncSpec => []SyncAssertsHold
<1>1. SyncInit => AssertInv
  BY DEF SyncInit, ProcessInit, AssertInv, WokenHasZombie
<1>2. SyncTypeOK /\ SyncInv /\ AssertInv /\ [SyncNext]_vars => AssertInv'
  BY SyncAssertStep
<1>3. AssertInv => SyncAssertsHold
  BY DEF AssertInv, SyncAssertsHold
<1>. QED BY <1>1, <1>2, <1>3, SyncInvariant, SyncTypeCorrect, PTL DEF SyncSpec

-----------------------------------------------------------------------------
(* Owners are alive *)

OwnerLive == \A l \in Ids : acquired[l] => owner_id[l] \in Live(Blocked)

\* The handlers change the owner of a lock in Acquire and Unlock only.
LEMMA LockChanges ==
  ASSUME SyncTypeOK, SyncInv, SyncHandlers
  PROVE  \/ UNCHANGED <<acquired, owner_id>>
         \/ /\ current_proc \in Proc
            /\ \E m \in Ids : Acquire(m) \/ (Holds(m) /\ Unlock(m))
<1>. DEFINE Changes(m) == Acquire(m) \/ (Holds(m) /\ Unlock(m))
            Keeps == acquired' = acquired /\ owner_id' = owner_id
<1>1. machine = "running" /\ current_proc # IDLE_PID => current_proc \in Proc
  BY DEF SyncTypeOK, ProcessTypeOK
<1>2. ASSUME NEW m \in Ids, KernelAcquire(m)
      PROVE  current_proc \in Proc /\ Changes(m)
  <2>1. Acquire(m)
    BY <1>2 DEF KernelAcquire
  <2>2. current_proc \in Proc
    BY <1>1, <1>2 DEF KernelAcquire, Calling, UserMode
  <2>. QED BY <2>1, <2>2
<1>3. ASSUME KernelCvarWaitResumes
      PROVE  current_proc \in Proc /\ \E m \in Ids : Changes(m)
  <2>1. current_proc \in Proc /\ awaited_lock[current_proc] \in Ids
    BY <1>1, <1>3 DEF KernelCvarWaitResumes, Resuming, SyncInv, QueueInv
  <2>2. Acquire(awaited_lock[current_proc])
    BY <1>3 DEF KernelCvarWaitResumes
  <2>3. Changes(awaited_lock[current_proc])
    BY <2>2
  <2>. HIDE DEF Changes
  <2>. QED BY <2>1, <2>3
<1>4. ASSUME NEW m \in Ids, KernelRelease(m)
      PROVE  current_proc \in Proc /\ Changes(m)
  BY <1>1, <1>4, LockAsserts DEF KernelRelease, Calling, UserMode
<1>5. ASSUME NEW c \in Ids, NEW m \in Ids, KernelCvarWait(c, m)
       PROVE  current_proc \in Proc /\ Changes(m)
  BY <1>1, <1>5, LockAsserts DEF KernelCvarWait, Calling, UserMode
<1>6. ASSUME ProcessHandlers, UNCHANGED syncVars PROVE Keeps
  BY <1>6 DEF syncVars, lockVars
<1>7. ASSUME KernelLockInit \/ KernelAcquireReturns \/ KernelCvarInit PROVE Keeps
  BY <1>7 DEF KernelLockInit, KernelAcquireReturns, KernelCvarInit, lockVars
<1>8. ASSUME NEW c \in Ids, KernelCvarSignal(c) \/ KernelCvarBroadcast(c) \/ KernelReclaim(c)
       PROVE  Keeps
  BY <1>8 DEF KernelCvarSignal, KernelCvarBroadcast, KernelReclaim, lockVars
<1>9. Keeps \/ (current_proc \in Proc /\ \E m \in Ids : Changes(m))
  <2>. HIDE DEF Changes, Keeps
  <2>. QED BY <1>2, <1>3, <1>4, <1>5, <1>6, <1>7, <1>8 DEF SyncHandlers
<1>. QED BY <1>9

\* A handler makes nobody an owner but the current process and processes that wait.
LEMMA HandlersOwner ==
  ASSUME SyncTypeOK, SyncInv, SyncHandlers, NEW l \in Ids, acquired'[l]
  PROVE  \/ acquired[l] /\ owner_id'[l] = owner_id[l]
         \/ owner_id'[l] \in Live(Blocked)
<1>1. current_proc \in Proc => current_proc \in Live(Blocked)
  BY PidFacts DEF Live, Running
<1>2. LockWaiters \subseteq Live(Blocked)
  BY DEF Live, Blocked
<1>3. CASE UNCHANGED <<acquired, owner_id>>
  BY <1>3
<1>4. ASSUME NEW m \in Ids, Acquire(m), current_proc \in Proc
      PROVE  \/ acquired[l] /\ owner_id'[l] = owner_id[l]
             \/ owner_id'[l] \in Live(Blocked)
  <2>1. CASE UNCHANGED <<acquired, owner_id>>
    BY <2>1
  <2>2. CASE /\ acquired' = [acquired EXCEPT ![m] = TRUE]
             /\ owner_id' = [owner_id EXCEPT ![m] = current_proc]
    <3>1. CASE l = m
      BY <1>1, <1>4, <2>2, <3>1 DEF SyncTypeOK
    <3>2. CASE l # m
      <4>1. acquired'[l] = acquired[l] /\ owner_id'[l] = owner_id[l]
        BY <2>2, <3>2, Zenon DEF SyncTypeOK
      <4>. QED BY <4>1
    <3>. QED BY <3>1, <3>2
  <2>. QED BY <1>4, <2>1, <2>2 DEF Acquire, lockVars
<1>5. ASSUME NEW m \in Ids, Unlock(m), Holds(m), current_proc \in Proc
      PROVE  \/ acquired[l] /\ owner_id'[l] = owner_id[l]
             \/ owner_id'[l] \in Live(Blocked)
  <2>1. CASE l # m
    BY <1>5, <2>1, UnlockOwner
  <2>2. CASE l = m /\ lock_waiting[m] = <<>>
    <3>1. acquired' = [acquired EXCEPT ![m] = FALSE] /\ acquired \in [Ids -> BOOLEAN]
      BY <1>5, <2>2 DEF Unlock, SyncTypeOK
    <3>2. ~acquired'[m]
      BY <3>1, Zenon
    <3>. QED BY <2>2, <3>2
  <2>3. CASE l = m /\ lock_waiting[m] # <<>>
    <3>1. owner_id'[l] = Heir(l)
      BY <1>5, <2>3 DEF Unlock, SyncTypeOK
    <3>2. Heir(l) \in LockWaiters
      BY <1>5, <2>3, UnlockQueues DEF Heirs
    <3>. QED BY <1>2, <3>1, <3>2
  <2>. QED BY <2>1, <2>2, <2>3
<1>. QED BY <1>3, <1>4, <1>5, LockChanges

\* KernelExit makes nobody an owner but processes that wait.
LEMMA ExitOwner ==
  ASSUME SyncTypeOK, SyncInv, OwnerLive, SyncExit, NEW l \in Ids, acquired'[l]
  PROVE  owner_id'[l] \in Live(Blocked)
<1>. PICK me \in Proc : me = current_proc
  BY SyncExitCases
<1>1. CASE UNCHANGED lockVars
  BY <1>1 DEF lockVars, OwnerLive
<1>2. ASSUME NEW passed \in Seq(Ids),
             Range(passed) = {m \in Range(owned_lock_ids[me]) : lock_waiting[m] # <<>>},
             PassesOn(passed)
      PROVE  owner_id'[l] \in Live(Blocked)
  <2>1. acquired[l] /\ owner_id'[l] = IF l \in Range(passed) THEN Heir(l) ELSE owner_id[l]
    BY <1>2 DEF PassesOn
  <2>2. CASE l \in Range(passed)
    <3>1. Range(HeirsOf(passed)) \subseteq LockWaiters
      BY <1>2, HeirFacts
    <3>2. Heir(l) \in Range(HeirsOf(passed))
      BY <1>2, <2>2, HeirsType
    <3>. QED BY <2>1, <2>2, <3>1, <3>2 DEF Live, Blocked
  <2>3. CASE l \notin Range(passed)
    BY <2>1, <2>3 DEF OwnerLive
  <2>. QED BY <2>2, <2>3
<1>. QED BY <1>1, <1>2, SyncExitCases

LEMMA OwnerLiveStep ==
  ASSUME SyncTypeOK, SyncInv, OwnerLive, [SyncNext]_vars
  PROVE  OwnerLive'
<1>1. CASE SyncHandlers
  <2>. SUFFICES ASSUME NEW l \in Ids, acquired'[l]
                PROVE  owner_id'[l] \in Live(Blocked)'
    BY DEF OwnerLive
  <2>1. Live(Blocked) \subseteq Live(Blocked)'
    BY <1>1, SyncHandlersInv
  <2>2. acquired[l] => owner_id[l] \in Live(Blocked)
    BY DEF OwnerLive
  <2>. QED BY <1>1, <2>1, <2>2, HandlersOwner
<1>2. CASE SyncExit
  <2>. SUFFICES ASSUME NEW l \in Ids, acquired'[l]
                PROVE  owner_id'[l] \in Live(Blocked)'
    BY DEF OwnerLive
  <2>1. CASE UNCHANGED <<acquired, owner_id, Live(Blocked)>>
    BY <2>1 DEF OwnerLive
  <2>2. CASE /\ Live(Blocked)' = Live(Blocked) \ {current_proc}
             /\ owned_lock_ids'[current_proc] = <<>>
    <3>1. current_proc \in Proc /\ LockOwnership'
      BY <1>2, SyncExitInv, SyncExitCases DEF SyncInv
    <3>2. owner_id'[l] # current_proc
      BY <2>2, <3>1, EmptyFacts DEF LockOwnership
    <3>3. owner_id'[l] \in Live(Blocked)
      BY <1>2, ExitOwner
    <3>. QED BY <2>2, <3>2, <3>3
  <2>. QED BY <1>2, <2>1, <2>2, SyncExitInv
<1>3. CASE UNCHANGED <<schedVars, clockVars, pending, familyVars, syncVars>>
  BY <1>3, SyncStopInv DEF OwnerLive, syncVars, lockVars
<1>. QED BY <1>1, <1>2, <1>3 DEF SyncNext, vars, processVars

\* Nobody waits for a free lock, and the owner of a lock is alive
\* (SyncSpec => []WaitersHaveLiveOwner): KernelExit passes every lock on.
THEOREM WaitersHaveLiveOwnerAlways == SyncSpec => []WaitersHaveLiveOwner
<1>1. SyncInit => OwnerLive
  BY DEF SyncInit, OwnerLive
<1>2. SyncTypeOK /\ SyncInv /\ OwnerLive /\ [SyncNext]_vars => OwnerLive'
  BY OwnerLiveStep
<1>3. SyncInv /\ OwnerLive => WaitersHaveLiveOwner
  BY DEF SyncInv, HeldInv, OwnerLive, WaitersHaveLiveOwner, Blocked
<1>. QED BY <1>1, <1>2, <1>3, SyncInvariant, SyncTypeCorrect, PTL DEF SyncSpec

-----------------------------------------------------------------------------
(* The loop of KernelExit *)

\* Only a reclaimed lock keeps KernelExit in its loop
\* (SyncSpec => []HungOnlyByReclaim).
THEOREM HungOnlyByReclaimAlways == SyncSpec => []HungOnlyByReclaim
<1>1. SyncInit => HungOnlyByReclaim
  BY DEF SyncInit, ProcessInit, HungOnlyByReclaim
<1>2. SyncTypeOK /\ SyncInv /\ HungOnlyByReclaim /\ [SyncNext]_vars => HungOnlyByReclaim'
  <2>. SUFFICES ASSUME SyncTypeOK, SyncInv, HungOnlyByReclaim, [SyncNext]_vars,
                       machine' = "hung"
                PROVE  \E l \in Range(owned_lock_ids'[current_proc']) : l \notin locks'
    BY DEF HungOnlyByReclaim
  <2>1. CASE UNCHANGED vars
    BY <2>1 DEF vars, processVars, schedVars, syncVars, lockVars, HungOnlyByReclaim
  <2>2. CASE SyncHandlers
    <3>1. machine = "running"
      BY <2>2 DEF SyncHandlers, ProcessHandlers, TrapClock, KernelDelay, KernelFork,
           KernelForkFails, KernelWaitCollects, KernelWaitBlocks, KernelWaitReturns,
           KernelLockInit, KernelAcquire, KernelAcquireReturns, KernelRelease, KernelCvarInit,
           KernelCvarSignal, KernelCvarBroadcast, KernelCvarWait, KernelCvarWaitResumes,
           KernelReclaim, Calling, UserMode, Resuming
    <3>2. machine' \in {"running", "aborted"}
      BY <2>2, <3>1 DEF SyncHandlers, ProcessHandlers, TrapClock, KernelDelay, KernelFork,
           KernelForkFails, KernelWaitCollects, KernelWaitBlocks, KernelWaitReturns,
           KernelLockInit, KernelAcquire, KernelAcquireReturns, KernelRelease, KernelCvarInit,
           KernelCvarSignal, KernelCvarBroadcast, KernelCvarWait, KernelCvarWaitResumes,
           KernelReclaim, Abort, processVars
    <3>. QED BY <3>2
  <2>3. CASE SyncExit
    <3>1. machine = "running"
      BY <2>3 DEF SyncExit, Calling, UserMode
    <3>2. /\ ~ \A l \in Range(owned_lock_ids[current_proc]) : l \in locks /\ Holds(l)
          /\ UNCHANGED <<lockVars, schedVars>>
      BY <2>3, <3>1, SyncExitCases DEF PassesOn
    <3>3. PICK l \in Range(owned_lock_ids[current_proc]) : ~(l \in locks /\ Holds(l))
      BY <3>2
    <3>4. l \in Ids /\ current_proc \in Proc
      BY <2>3, SyncExitCases, EmptyFacts DEF SyncTypeOK
    <3>5. Holds(l)
      BY <3>3, <3>4 DEF SyncInv, LockOwnership, Holds
    <3>. QED BY <3>2, <3>3, <3>5 DEF lockVars, schedVars
  <2>4. CASE HaltByInit
    BY <2>4 DEF HaltByInit
  <2>. QED BY <2>1, <2>2, <2>3, <2>4 DEF SyncNext
<1>. QED BY <1>1, <1>2, SyncInvariant, SyncTypeCorrect, PTL DEF SyncSpec

-----------------------------------------------------------------------------
(* What a step may never do *)

LEMMA HandlersBarging ==
  ASSUME SyncTypeOK, SyncInv, SyncHandlers, NEW l \in Ids, lock_waiting[l] # <<>>
  PROVE  acquired'[l] /\ owner_id'[l] \in {owner_id[l], Heir(l)}
<1>1. acquired[l]
  BY DEF SyncInv, HeldInv
<1>2. CASE UNCHANGED <<acquired, owner_id>>
  BY <1>1, <1>2
<1>3. ASSUME NEW m \in Ids, Acquire(m), current_proc \in Proc
      PROVE  acquired'[l] /\ owner_id'[l] \in {owner_id[l], Heir(l)}
  <2>1. CASE UNCHANGED <<acquired, owner_id>>
    BY <1>1, <2>1
  <2>2. CASE /\ ~acquired[m]
             /\ acquired' = [acquired EXCEPT ![m] = TRUE]
             /\ owner_id' = [owner_id EXCEPT ![m] = current_proc]
    <3>1. l # m
      BY <1>1, <2>2
    <3>2. acquired'[l] = acquired[l] /\ owner_id'[l] = owner_id[l]
      BY <2>2, <3>1, Zenon DEF SyncTypeOK
    <3>. QED BY <1>1, <3>2
  <2>. QED BY <1>3, <2>1, <2>2 DEF Acquire, lockVars
<1>4. ASSUME NEW m \in Ids, Unlock(m), Holds(m), current_proc \in Proc
      PROVE  acquired'[l] /\ owner_id'[l] \in {owner_id[l], Heir(l)}
  <2>1. CASE l # m
    BY <1>1, <1>4, <2>1, UnlockOwner
  <2>2. CASE l = m
    <3>1. Heirs(m) = {Heir(l)}
      BY <2>2 DEF Heirs
    <3>. QED BY <1>4, <2>2, <3>1, UnlockOwner
  <2>. QED BY <2>1, <2>2
<1>. QED BY <1>2, <1>3, <1>4, LockChanges

LEMMA ExitBarging ==
  ASSUME SyncTypeOK, SyncInv, SyncExit, NEW l \in Ids, lock_waiting[l] # <<>>
  PROVE  acquired'[l] /\ owner_id'[l] \in {owner_id[l], Heir(l)}
<1>1. acquired[l]
  BY DEF SyncInv, HeldInv
<1>2. CASE UNCHANGED lockVars
  BY <1>1, <1>2 DEF lockVars
<1>3. ASSUME NEW passed \in Seq(Ids), PassesOn(passed)
      PROVE  acquired'[l] /\ owner_id'[l] \in {owner_id[l], Heir(l)}
  <2>1. owner_id'[l] = IF l \in Range(passed) THEN Heir(l) ELSE owner_id[l]
    BY <1>3 DEF PassesOn
  <2>2. acquired' = [m \in Ids |-> acquired[m] /\
                       (m \in Range(owned_lock_ids[current_proc]) => lock_waiting[m] # <<>>)]
    BY <1>3 DEF PassesOn
  <2>3. acquired'[l]
    BY <1>1, <2>2
  <2>. QED BY <2>1, <2>3
<1>. QED BY <1>2, <1>3, SyncExitCases

\* A lock that somebody waits for goes to the one who has waited longest and to
\* nobody else (SyncSpec => NoBarging).
THEOREM NoBargingAlways == SyncSpec => NoBarging
<1>1. SyncTypeOK /\ SyncInv /\ [SyncNext]_vars =>
        [\A l \in Ids : lock_waiting[l] # <<>> /\ (owner_id'[l] # owner_id[l] \/ ~acquired'[l]) =>
           acquired'[l] /\ owner_id'[l] = Head(lock_waiting[l])]_vars
  <2>. SUFFICES ASSUME SyncTypeOK, SyncInv, [SyncNext]_vars,
                       NEW l \in Ids, lock_waiting[l] # <<>>
                PROVE  acquired'[l] /\ owner_id'[l] \in {owner_id[l], Head(lock_waiting[l])}
    OBVIOUS
  <2>1. CASE SyncHandlers
    BY <2>1, HandlersBarging DEF Heir
  <2>2. CASE SyncExit
    BY <2>2, ExitBarging DEF Heir
  <2>3. CASE UNCHANGED syncVars
    BY <2>3 DEF syncVars, lockVars, SyncInv, HeldInv
  <2>. QED BY <2>1, <2>2, <2>3 DEF SyncNext, vars
<1>. QED BY <1>1, SyncInvariant, SyncTypeCorrect, PTL DEF SyncSpec, NoBarging

LEMMA ReturnsStep ==
  ASSUME SyncTypeOK, SyncInv, [SyncNext]_vars, NEW p \in Proc, NEW l, l = awaited_lock[p],
         pending[p] \in {"acquire", "cvar"}, pending'[p] = "user", l \in locks
  PROVE  acquired'[l] /\ owner_id'[l] = p
<1>1. CASE UNCHANGED pending
  BY <1>1
<1>2. CASE ProcessHandlers
  BY <1>2, HandlersPending DEF SyncTypeOK
<1>3. ASSUME Calling, NEW v, v \in {"acquire", "cvar", "user"},
             pending' = [pending EXCEPT ![current_proc] = v]
      PROVE  FALSE
  BY <1>3 DEF Calling, UserMode, SyncTypeOK, ProcessTypeOK
<1>4. ASSUME NEW m \in Ids, KernelAcquire(m) PROVE FALSE
  BY <1>1, <1>3, <1>4 DEF KernelAcquire, Acquire, AcquireReturns
<1>5. ASSUME NEW c \in Ids, NEW m \in Ids, KernelCvarWait(c, m) PROVE FALSE
  BY <1>3, <1>5, LockAsserts DEF KernelCvarWait
<1>6. CASE KernelAcquireReturns
  <2>1. AcquireReturns /\ Holds(awaited_lock[current_proc]) /\ UNCHANGED lockVars
    BY <1>6, LockAsserts DEF KernelAcquireReturns, Abort
  <2>2. p = current_proc
    BY <2>1 DEF AcquireReturns, SyncTypeOK, ProcessTypeOK
  <2>. QED BY <2>1, <2>2 DEF Holds, lockVars
<1>7. CASE KernelCvarWaitResumes
  <2>1. p = current_proc
    BY <1>7 DEF KernelCvarWaitResumes, Acquire, AcquireReturns, SyncTypeOK, ProcessTypeOK
  <2>2. Acquire(l)
    BY <1>7, <2>1 DEF KernelCvarWaitResumes
  <2>3. CASE Holds(l) /\ UNCHANGED lockVars
    BY <2>1, <2>3 DEF Holds, lockVars
  <2>4. CASE /\ acquired' = [acquired EXCEPT ![l] = TRUE]
             /\ owner_id' = [owner_id EXCEPT ![l] = current_proc]
    <3>1. l \in Ids
      BY DEF SyncTypeOK
    <3>. QED BY <2>1, <2>4, <3>1 DEF SyncTypeOK
  <2>5. pending' # [pending EXCEPT ![current_proc] = "acquire"]
    BY <2>1 DEF SyncTypeOK, ProcessTypeOK
  <2>. QED BY <2>2, <2>3, <2>4, <2>5 DEF Acquire
<1>. QED BY <1>1, <1>2, <1>4, <1>5, <1>6, <1>7, SyncExitCases
     DEF SyncNext, SyncHandlers, KernelLockInit, KernelRelease, KernelCvarInit,
         KernelCvarSignal, KernelCvarBroadcast, KernelReclaim, vars, processVars

\* A process that blocked for a lock, or gave it up in KernelCvarWait, comes back
\* to user mode as its owner unless it was reclaimed (SyncSpec => ReturnsWithLock).
THEOREM ReturnsWithLockAlways == SyncSpec => ReturnsWithLock
<1>1. SyncTypeOK /\ SyncInv /\ [SyncNext]_vars =>
        [\A p \in Proc : LET l == awaited_lock[p] IN
           (pending[p] \in {"acquire", "cvar"} /\ pending'[p] = "user" /\ l \in locks) =>
           (acquired'[l] /\ owner_id'[l] = p)]_vars
  BY ReturnsStep
<1>. QED BY <1>1, SyncInvariant, SyncTypeCorrect, PTL DEF SyncSpec, ReturnsWithLock

=============================================================================
