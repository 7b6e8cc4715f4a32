-------------------------------- MODULE Sync --------------------------------
(***************************************************************************)
(* Locks and condition variables (SystemCalls.c, Lock.c, CVar.c) on top of *)
(* the processes of Process.                                               *)
(*                                                                         *)
(* A Lock or CVar is never freed.  KernelReclaim takes it out of the list  *)
(* locks or cvars, after which no call finds it any more, while blocked    *)
(* processes stay in its waiting_procs.                                    *)
(***************************************************************************)
EXTENDS Resources

VARIABLES
  locks,              \* ids in the list locks
  acquired,
  owner_id,           \* keeps its last value while the lock is free
  lock_waiting,       \* waiting_procs of a lock
  owned_lock_ids,
  cvars,              \* ids in the list cvars
  cvar_waiting,       \* waiting_procs of a cvar
  awaited_lock        \* lock_id of the KernelAcquire or KernelCvarWait a process is in

lockVars == <<locks, acquired, owner_id, lock_waiting, owned_lock_ids>>
cvarVars == <<cvars, cvar_waiting>>
syncVars == <<next_synch_resource_id, lockVars, cvarVars, awaited_lock>>
vars == <<processVars, syncVars>>

SyncTypeOK ==
  /\ ProcessTypeOK({"running", "halted", "aborted", "hung"},
                   {"user", "wait", "acquire", "cvar"})
  /\ ResourcesTypeOK
  /\ locks \subseteq Ids
  /\ acquired \in [Ids -> BOOLEAN]
  /\ owner_id \in [Ids -> Proc \cup {NULL}]
  /\ lock_waiting \in [Ids -> Seq(Proc)]
  /\ owned_lock_ids \in [Proc -> Seq(Ids)]
  /\ cvars \subseteq Ids
  /\ cvar_waiting \in [Ids -> Seq(Proc)]
  /\ awaited_lock \in [Proc -> Ids \cup {NULL}]

SyncInit ==
  /\ ProcessInit
  /\ ResourcesInit
  /\ locks = {}
  /\ acquired = [l \in Ids |-> FALSE]
  /\ owner_id = [l \in Ids |-> NULL]
  /\ lock_waiting = [l \in Ids |-> <<>>]
  /\ owned_lock_ids = [p \in Proc |-> <<>>]
  /\ cvars = {}
  /\ cvar_waiting = [c \in Ids |-> <<>>]
  /\ awaited_lock = [p \in Proc |-> NULL]

-----------------------------------------------------------------------------
(* Locks *)

KernelLockInit ==
  /\ Calling
  /\ NewId
  /\ locks' = locks \cup {next_synch_resource_id}
  /\ UNCHANGED <<processVars, acquired, owner_id, lock_waiting, owned_lock_ids,
                 cvarVars, awaited_lock>>

Holds(l) == acquired[l] /\ owner_id[l] = current_proc

\* The handler is done: with the lock, or with an error.
AcquireReturns ==
  /\ pending' = [pending EXCEPT ![current_proc] = "user"]
  /\ awaited_lock' = [awaited_lock EXCEPT ![current_proc] = NULL]
  /\ UNCHANGED schedVars

\* Mutant: ListPush in place of ListEnqueue.
QueuedInFront(l) == <<current_proc>> \o lock_waiting[l]

\* The queue for lock l once the caller has joined it.
Queued(l) == Append(lock_waiting[l], current_proc)

\* KernelAcquire(l) as a system call, or as the second half of KernelCvarWait.
Acquire(l) ==
  \/ /\ l \notin locks \/ Holds(l)
     /\ AcquireReturns
     /\ UNCHANGED lockVars
  \/ /\ l \in locks
     /\ ~acquired[l]
     /\ acquired' = [acquired EXCEPT ![l] = TRUE]
     /\ owner_id' = [owner_id EXCEPT ![l] = current_proc]
     /\ owned_lock_ids' = [owned_lock_ids EXCEPT ![current_proc] = Append(@, l)]
     /\ AcquireReturns
     /\ UNCHANGED <<locks, lock_waiting>>
  \/ /\ l \in locks
     /\ acquired[l]
     /\ ~Holds(l)
     /\ lock_waiting' = [lock_waiting EXCEPT ![l] = Queued(l)]
     /\ pending' = [pending EXCEPT ![current_proc] = "acquire"]
     /\ awaited_lock' = [awaited_lock EXCEPT ![current_proc] = l]
     /\ SwitchToNextProc(ready_queue)
     /\ UNCHANGED <<locks, acquired, owner_id, owned_lock_ids>>

KernelAcquire(l) ==
  /\ Calling
  /\ Acquire(l)
  /\ UNCHANGED <<machine, clockVars, familyVars, next_synch_resource_id, cvarVars>>

\* A process that was blocked in KernelAcquire runs again; the three asserts.
KernelAcquireReturns ==
  LET l == awaited_lock[current_proc]
  IN /\ Resuming("acquire")
     /\ IF Holds(l) /\ l \in Range(owned_lock_ids[current_proc])
        THEN AcquireReturns /\ UNCHANGED machine
        ELSE Abort(<<pending, awaited_lock, schedVars>>)
     /\ UNCHANGED <<clockVars, familyVars, next_synch_resource_id, lockVars, cvarVars>>

\* Mutant: the process that came last.
HeirLast(l) == lock_waiting[l][Len(lock_waiting[l])]

\* Who gets lock l when it is released.
Heir(l) == Head(lock_waiting[l])

\* The part of KernelRelease(l) that follows its checks.  The lock goes to the
\* process that has waited longest, if there is one.
Unlock(l) ==
  \E rest \in WithoutId(owned_lock_ids[current_proc], l) :
    /\ IF lock_waiting[l] = <<>>
       THEN /\ acquired' = [acquired EXCEPT ![l] = FALSE]
            /\ owned_lock_ids' = [owned_lock_ids EXCEPT ![current_proc] = rest]
            /\ UNCHANGED <<owner_id, lock_waiting>>
       ELSE /\ owner_id' = [owner_id EXCEPT ![l] = Heir(l)]
            /\ lock_waiting' = [lock_waiting EXCEPT ![l] = Tail(@)]
            /\ owned_lock_ids' =
                 [p \in Proc |-> CASE p = current_proc -> rest
                                  [] p = Heir(l)      -> Append(owned_lock_ids[p], l)
                                  [] OTHER            -> owned_lock_ids[p]]
            /\ UNCHANGED acquired
    /\ UNCHANGED locks

\* Mutant: all waiters are made ready.
ReadyAfterUnlockAll(l) == ready_queue \o lock_waiting[l]

ReadyAfterUnlock(l) ==
  IF lock_waiting[l] = <<>> THEN ready_queue ELSE Append(ready_queue, Heir(l))

\* assert(released_lock)
InOwnedList(l) == l \in Range(owned_lock_ids[current_proc])

KernelRelease(l) ==
  /\ Calling
  /\ l \in locks
  /\ Holds(l)
  /\ IF InOwnedList(l)
     THEN /\ Unlock(l)
          /\ ready_queue' = ReadyAfterUnlock(l)
          /\ UNCHANGED <<machine, current_proc>>
     ELSE Abort(<<lockVars, schedVars>>)
  /\ UNCHANGED <<clockVars, pending, familyVars, next_synch_resource_id, cvarVars,
                 awaited_lock>>

-----------------------------------------------------------------------------
(* Condition variables *)

KernelCvarInit ==
  /\ Calling
  /\ NewId
  /\ cvars' = cvars \cup {next_synch_resource_id}
  /\ UNCHANGED <<processVars, lockVars, cvar_waiting, awaited_lock>>

KernelCvarSignal(c) ==
  /\ Calling
  /\ c \in cvars
  /\ cvar_waiting[c] # <<>>
  /\ cvar_waiting' = [cvar_waiting EXCEPT ![c] = Tail(@)]
  /\ ready_queue' = Append(ready_queue, Head(cvar_waiting[c]))
  /\ UNCHANGED <<machine, current_proc, clockVars, pending, familyVars,
                 next_synch_resource_id, lockVars, cvars, awaited_lock>>

KernelCvarBroadcast(c) ==
  /\ Calling
  /\ c \in cvars
  /\ cvar_waiting' = [cvar_waiting EXCEPT ![c] = <<>>]
  /\ ready_queue' = ready_queue \o cvar_waiting[c]
  /\ UNCHANGED <<machine, current_proc, clockVars, pending, familyVars,
                 next_synch_resource_id, lockVars, cvars, awaited_lock>>

\* Up to the context switch: the lock is released and the process queued in one step.
KernelCvarWait(c, l) ==
  /\ Calling
  /\ c \in cvars
  /\ l \in locks
  /\ Holds(l)
  /\ IF InOwnedList(l)
     THEN /\ Unlock(l)
          /\ cvar_waiting' = [cvar_waiting EXCEPT ![c] = Append(@, current_proc)]
          /\ pending' = [pending EXCEPT ![current_proc] = "cvar"]
          /\ awaited_lock' = [awaited_lock EXCEPT ![current_proc] = l]
          /\ SwitchToNextProc(ReadyAfterUnlock(l))
          /\ UNCHANGED machine
     ELSE Abort(<<lockVars, schedVars, cvar_waiting, pending, awaited_lock>>)
  /\ UNCHANGED <<clockVars, familyVars, next_synch_resource_id, cvars>>

\* Mutant: returns without taking the lock again.
KernelCvarWaitForgetsLock ==
  /\ Resuming("cvar")
  /\ AcquireReturns
  /\ UNCHANGED <<machine, clockVars, familyVars, next_synch_resource_id, cvarVars, lockVars>>

\* After the signal: take the lock again, blocking for it if need be.
KernelCvarWaitResumes ==
  /\ Resuming("cvar")
  /\ Acquire(awaited_lock[current_proc])
  /\ UNCHANGED <<machine, clockVars, familyVars, next_synch_resource_id, cvarVars>>

-----------------------------------------------------------------------------
(* Reclaim and exit *)

\* KernelReclaim of a lock or a cvar.  ListRemoveById comes before the checks, so
\* the resource is out of its list whether the call then succeeds or fails.
KernelReclaim(id) ==
  /\ Calling
  /\ id \in locks \cup cvars
  /\ locks' = locks \ {id}
  /\ cvars' = cvars \ {id}
  /\ UNCHANGED <<processVars, next_synch_resource_id, acquired, owner_id, lock_waiting,
                 owned_lock_ids, cvar_waiting, awaited_lock>>

\* Mutant: the locks are not released.
SyncExitKeepsLocks ==
  /\ Calling
  /\ current_proc # INIT_PID
  /\ LeaveFamily(ready_queue)
  /\ UNCHANGED <<machine, clockVars, pending, abandoned_pcbs, next_pid, syncVars>>

\* KernelExit of any process but init.  Each turn of its loop releases the first
\* lock of owned_lock_ids; when that release fails the list does not change and
\* the loop never ends.  No process waits for two locks, so each heir gets one.
SyncExit ==
  LET owned == owned_lock_ids[current_proc]
      Passed == {i \in DOMAIN owned : lock_waiting[owned[i]] # <<>>}
  IN /\ Calling
     /\ current_proc # INIT_PID
     /\ IF \A l \in Range(owned) : l \in locks /\ Holds(l)
        THEN \E passed \in SublistAt(owned, Passed) :
             /\ acquired' = [l \in Ids |-> acquired[l] /\
                               (l \in Range(owned) => lock_waiting[l] # <<>>)]
             /\ owner_id' = [l \in Ids |-> IF l \in Range(passed) THEN Heir(l) ELSE owner_id[l]]
             /\ lock_waiting' = [l \in Ids |-> IF l \in Range(passed) THEN Tail(lock_waiting[l])
                                                ELSE lock_waiting[l]]
             /\ owned_lock_ids' =
                  [p \in Proc |->
                     CASE p = current_proc -> <<>>
                       [] \E l \in Range(passed) : Heir(l) = p ->
                            Append(owned_lock_ids[p], CHOOSE l \in Range(passed) : Heir(l) = p)
                       [] OTHER -> owned_lock_ids[p]]
             /\ LeaveFamily(ready_queue \o [i \in DOMAIN passed |-> Heir(passed[i])])
             /\ UNCHANGED <<machine, locks>>
        ELSE machine' = "hung" /\ UNCHANGED <<lockVars, schedVars, pcbs, live_parent,
                live_children, zombie_children, waiting_on_children>>
     /\ UNCHANGED <<clockVars, pending, abandoned_pcbs, next_pid, next_synch_resource_id,
                    cvarVars, awaited_lock>>

-----------------------------------------------------------------------------
(* The specification *)

SyncHandlers ==
  \/ ProcessHandlers /\ UNCHANGED syncVars
  \/ KernelLockInit
  \/ \E l \in Ids : KernelAcquire(l)
  \/ KernelAcquireReturns
  \/ \E l \in Ids : KernelRelease(l)
  \/ KernelCvarInit
  \/ \E c \in Ids : KernelCvarSignal(c)
  \/ \E c \in Ids : KernelCvarBroadcast(c)
  \/ \E c, l \in Ids : KernelCvarWait(c, l)
  \/ KernelCvarWaitResumes
  \/ \E id \in Ids : KernelReclaim(id)

SyncNext ==
  \/ SyncHandlers
  \/ SyncExit
  \/ HaltByInit /\ UNCHANGED <<schedVars, clockVars, pending, familyVars, syncVars>>
  \/ machine \in {"halted", "hung"} /\ UNCHANGED vars

\* A clock interrupt that arrives in the kernel stays pending and is taken on the
\* way back to user mode, so being enabled again and again is enough for it.
SyncFairness ==
  /\ SF_vars(TrapClock /\ UNCHANGED syncVars)
  /\ WF_vars(KernelWaitReturns /\ UNCHANGED syncVars)
  /\ WF_vars(KernelAcquireReturns)
  /\ WF_vars(KernelCvarWaitResumes)

SyncSpec == SyncInit /\ [][SyncNext]_vars /\ SyncFairness

-----------------------------------------------------------------------------
(* Properties *)

LockWaiters == UNION {Range(lock_waiting[l]) : l \in Ids}
CvarWaiters == UNION {Range(cvar_waiting[c]) : c \in Ids}

\* A blocked process is in the waiting_procs of one lock or one cvar, once, and
\* nowhere else; a release, a signal and an exit each move it to the ready queue
\* exactly once.
SyncOnePlace ==
  /\ OnePlaceWith(LockWaiters \cup CvarWaiters)
  /\ LockWaiters \cap CvarWaiters = {}
  /\ \A l \in Ids : /\ NoDuplicates(lock_waiting[l])
                    /\ NoDuplicates(cvar_waiting[l])
  /\ \A l, m \in Ids :
       l # m => /\ Range(lock_waiting[l]) \cap Range(lock_waiting[m]) = {}
                /\ Range(cvar_waiting[l]) \cap Range(cvar_waiting[m]) = {}

\* The two records of who owns a lock agree: it is in the owned_lock_ids of its
\* owner, once, and in nobody else's.  KernelRelease asserts it
\* (SystemCalls.c:693) and KernelExit relies on it to release everything.
LockOwnership ==
  /\ \A l \in Ids, p \in Proc :
       l \in Range(owned_lock_ids[p]) <=> acquired[l] /\ owner_id[l] = p
  /\ \A p \in Proc : NoDuplicates(owned_lock_ids[p])

\* Nobody waits for a free lock, and the owner of a lock is alive: KernelExit
\* passes every lock on, so an owner never dies and leaves its waiters behind.
WaitersHaveLiveOwner ==
  \A l \in Ids :
    /\ lock_waiting[l] # <<>> => acquired[l]
    /\ acquired[l] => owner_id[l] \in Live(LockWaiters \cup CvarWaiters)

\* The asserts of KernelWait, KernelAcquire and KernelRelease never fail, even
\* with reclaimed resources.
SyncAssertsHold == machine # "aborted"

\* Only a reclaimed lock keeps KernelExit in its loop.
HungOnlyByReclaim ==
  machine = "hung" => \E l \in Range(owned_lock_ids[current_proc]) : l \notin locks

\* A process that blocked for a lock, or gave it up in KernelCvarWait, comes back
\* to user mode owning it, unless the lock was reclaimed meanwhile.
ReturnsWithLock ==
  [][\A p \in Proc : LET l == awaited_lock[p] IN
       (pending[p] \in {"acquire", "cvar"} /\ pending'[p] = "user" /\ l \in locks) =>
       (acquired'[l] /\ owner_id'[l] = p)]_vars

\* Nobody overtakes: while processes wait for a lock it only changes hands to the
\* one that has waited longest, whoever calls KernelAcquire meanwhile.
NoBarging ==
  [][\A l \in Ids : lock_waiting[l] # <<>> /\ (owner_id'[l] # owner_id[l] \/ ~acquired'[l]) =>
       acquired'[l] /\ owner_id'[l] = Head(lock_waiting[l])]_vars

\* If no process keeps a lock for ever then no process waits for ever for a lock
\* that is still in the list.
LockStarvationFree ==
  (\A l \in Ids, p \in Proc : []<>(~(acquired[l] /\ owner_id[l] = p))) =>
  \A l \in Ids, p \in Proc :
    p \in Range(lock_waiting[l]) ~>
    (owner_id[l] = p \/ l \notin locks \/ machine \in {"halted", "hung"})

\* "ensure it is not currently held", "ensure no procs are waiting"
\* (SystemCalls.c:806, 810): Reclaim refuses a resource that is in use, so the
\* resource stays.
ReclaimRefusesBusy ==
  [][\A id \in Ids :
       /\ id \in locks /\ (acquired[id] \/ lock_waiting[id] # <<>>) => id \in locks'
       /\ id \in cvars /\ cvar_waiting[id] # <<>> => id \in cvars']_vars

=============================================================================
