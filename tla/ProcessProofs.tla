--------------------------- MODULE ProcessProofs ---------------------------
(***************************************************************************)
(* Theorems about Process, for every number of processes and every length  *)
(* of delay.                                                               *)
(*                                                                         *)
(* The lemmas about one step are stated for any sets of machine states and *)
(* pending handlers, and for any set Elsewhere of processes blocked in     *)
(* queues of a larger module, so that Sync, Pipe and Tty can use them too. *)
(***************************************************************************)
EXTENDS Process, KernelListsProofs

LEMMA PidFacts ==
  /\ IDLE_PID \notin Proc /\ NULL \notin Proc /\ INIT_PID \in Proc
  /\ Proc \subseteq Nat
BY ProcessAssumption DEF Proc, IDLE_PID, NULL, INIT_PID

\* SwitchToNextProc moves the head of the queue to the processor.
LEMMA SwitchType ==
  ASSUME NEW rq \in Seq(Proc), SwitchToNextProc(rq)
  PROVE  ready_queue' \in Seq(Proc) /\ current_proc' \in Proc \cup {IDLE_PID}
<1>1. CASE rq = <<>>
  BY <1>1 DEF SwitchToNextProc
<1>2. CASE rq # <<>>
  BY <1>2, HeadTailFacts DEF SwitchToNextProc
<1>. QED BY <1>1, <1>2

LEMMA SwitchFacts ==
  ASSUME NEW rq \in Seq(Proc), NoDuplicates(rq), SwitchToNextProc(rq)
  PROVE  /\ NoDuplicates(ready_queue')
         /\ Running' \cup Range(ready_queue') = Range(rq)
         /\ Running' \cap Range(ready_queue') = {}
<1>1. CASE rq = <<>>
  BY <1>1, EmptyFacts DEF SwitchToNextProc, Running
<1>2. CASE rq # <<>>
  <2>1. current_proc' = Head(rq) /\ ready_queue' = Tail(rq)
    BY <1>2 DEF SwitchToNextProc
  <2>2. Running' = {Head(rq)}
    BY <1>2, <2>1, HeadTailFacts, PidFacts DEF Running
  <2>. QED BY <1>2, <2>1, <2>2, HeadTailFacts
<1>. QED BY <1>1, <1>2

-----------------------------------------------------------------------------
(* What a clock tick does to the two queues. *)

LEMMA WalkEndsFacts ==
  ASSUME clock_block_procs \in Seq(Proc), NEW end \in WalkEnds
  PROVE  1..end \subseteq DOMAIN clock_block_procs
BY DEF WalkEnds

LEMMA PreemptedType ==
  ASSUME NEW rq \in Seq(Proc), current_proc \in Proc \cup {IDLE_PID}
  PROVE  /\ Preempted(rq) \in Seq(Proc)
         /\ Range(Preempted(rq)) = Range(rq) \cup Running
         /\ NoDuplicates(rq) /\ Running \cap Range(rq) = {} => NoDuplicates(Preempted(rq))
<1>1. CASE current_proc = IDLE_PID
  BY <1>1 DEF Preempted, Running
<1>2. CASE current_proc \in Proc
  <2>1. Preempted(rq) = Append(rq, current_proc) /\ Running = {current_proc}
    BY <1>2, PidFacts DEF Preempted, Running
  <2>. QED BY <1>2, <2>1, AppendFacts
<1>. QED BY <1>1, <1>2

-----------------------------------------------------------------------------
(* Type correctness *)

\* Every handler of Process keeps the types, whatever else a module adds.
LEMMA HandlersType ==
  ASSUME NEW M, NEW P, {"running", "aborted"} \subseteq M, {"user", "wait"} \subseteq P,
         ProcessTypeOK(M, P), ProcessHandlers
  PROVE  ProcessTypeOK(M, P)'
<1>. USE DEF ProcessTypeOK
<1>1. CASE TrapClock
  <2>1. PICK end \in WalkEnds :
          \E woken \in SublistAt(clock_block_procs,
                         {i \in 1..end : Expires(clock_block_procs[i])}),
             still \in SublistAt(clock_block_procs, DOMAIN clock_block_procs \
                         {i \in 1..end : Expires(clock_block_procs[i])}) :
            /\ clock_ticks_until_ready' =
                 [p \in Proc |-> IF \E i \in 1..end : clock_block_procs[i] = p
                                 THEN clock_ticks_until_ready[p] - 1
                                 ELSE clock_ticks_until_ready[p]]
            /\ clock_block_procs' = still
            /\ SwitchToNextProc(Preempted(ready_queue \o woken))
    BY <1>1 DEF TrapClock
  <2>. DEFINE Expired == {i \in 1..end : Expires(clock_block_procs[i])}
  <2>2. PICK woken \in SublistAt(clock_block_procs, Expired),
             still \in SublistAt(clock_block_procs, DOMAIN clock_block_procs \ Expired) :
            /\ clock_block_procs' = still
            /\ SwitchToNextProc(Preempted(ready_queue \o woken))
    BY <2>1
  <2>3. Expired \in SUBSET DOMAIN clock_block_procs
    BY WalkEndsFacts
  <2>4. woken \in Seq(Proc) /\ still \in Seq(Proc)
    BY <2>3, SublistFacts
  <2>5. Preempted(ready_queue \o woken) \in Seq(Proc)
    BY <2>4, ConcatFacts, PreemptedType
  <2>6. ready_queue' \in Seq(Proc) /\ current_proc' \in Proc \cup {IDLE_PID}
    BY <2>2, <2>5, SwitchType
  <2>7. clock_ticks_until_ready' \in [Proc -> Int]
    BY <2>1
  <2>. QED BY <1>1, <2>2, <2>4, <2>6, <2>7 DEF TrapClock, familyVars
<1>2. ASSUME NEW n \in 1..MaxTicks, KernelDelay(n) PROVE ProcessTypeOK(M, P)'
  <2>1. current_proc \in Proc
    BY <1>2 DEF KernelDelay, Calling
  <2>2. ready_queue' \in Seq(Proc) /\ current_proc' \in Proc \cup {IDLE_PID}
    BY <1>2, SwitchType DEF KernelDelay
  <2>3. clock_block_procs' \in Seq(Proc) /\ clock_ticks_until_ready' \in [Proc -> Int]
    BY <1>2, <2>1, AppendFacts DEF KernelDelay
  <2>. QED BY <1>2, <2>2, <2>3 DEF KernelDelay, familyVars
<1>3. CASE KernelFork
  <2>1. current_proc \in Proc /\ next_pid \in Proc
    BY <1>3 DEF KernelFork, Calling
  <2>2. ready_queue' \in Seq(Proc) /\ current_proc' \in Proc
    BY <1>3, <2>1, AppendFacts DEF KernelFork
  <2>3. next_pid' \in 2..MaxPid + 1
    BY <1>3, ProcessAssumption DEF KernelFork, Proc
  <2>. QED BY <1>3, <2>1, <2>2, <2>3 DEF KernelFork, clockVars
<1>4. CASE KernelForkFails
  BY <1>4, ProcessAssumption DEF KernelForkFails, Proc, schedVars, clockVars
<1>5. CASE KernelWaitCollects
  <2>1. current_proc \in Proc
    BY <1>5 DEF KernelWaitCollects, Calling
  <2>2. zombie_children' \in [Proc -> Seq(Proc)] /\ pcbs' \subseteq Proc
    BY <1>5, <2>1, HeadTailFacts DEF KernelWaitCollects, CollectZombie
  <2>. QED BY <1>5, <2>2 DEF KernelWaitCollects, schedVars, clockVars
<1>6. CASE KernelWaitBlocks
  <2>1. ready_queue' \in Seq(Proc) /\ current_proc' \in Proc \cup {IDLE_PID}
    BY <1>6, SwitchType DEF KernelWaitBlocks
  <2>. QED BY <1>6, <2>1 DEF KernelWaitBlocks, clockVars
<1>7. CASE KernelWaitReturns
  <2>1. current_proc \in Proc
    BY <1>7 DEF KernelWaitReturns, Resuming
  <2>2. CASE zombie_children[current_proc] = <<>>
    BY <1>7, <2>2 DEF KernelWaitReturns, Abort, schedVars, clockVars
  <2>3. CASE zombie_children[current_proc] # <<>>
    <3>1. /\ CollectZombie
          /\ pending' = [pending EXCEPT ![current_proc] = "user"]
          /\ machine' = machine
      BY <1>7, <2>3 DEF KernelWaitReturns
    <3>2. zombie_children' \in [Proc -> Seq(Proc)] /\ pcbs' \subseteq Proc
      BY <2>1, <2>3, <3>1, HeadTailFacts DEF CollectZombie
    <3>3. pending' \in [Proc -> P]
      BY <3>1
    <3>. QED BY <1>7, <3>1, <3>2, <3>3 DEF KernelWaitReturns, schedVars, clockVars
  <2>. QED BY <2>2, <2>3
<1>. QED BY <1>1, <1>2, <1>3, <1>4, <1>5, <1>6, <1>7 DEF ProcessHandlers

\* So does the family's part of KernelExit.
LEMMA LeaveFamilyType ==
  ASSUME NEW M, NEW P, ProcessTypeOK(M, P), current_proc \in Proc,
         NEW rq \in Seq(Proc), LeaveFamily(rq),
         UNCHANGED <<machine, clockVars, pending, abandoned_pcbs, next_pid>>
  PROVE  ProcessTypeOK(M, P)'
<1>. USE DEF ProcessTypeOK
<1>1. live_parent' \in [Proc -> Proc \cup {NULL}] /\ live_children' \in [Proc -> SUBSET Proc]
  BY DEF LeaveFamily
<1>2. zombie_children' \in [Proc -> Seq(Proc)]
  BY AppendFacts, EmptyFacts DEF LeaveFamily
<1>3. pcbs' \subseteq Proc /\ waiting_on_children' \in [Proc -> BOOLEAN]
  BY DEF LeaveFamily
<1>4. (IF NotifiesParent THEN Append(rq, live_parent[current_proc]) ELSE rq) \in Seq(Proc)
  BY AppendFacts DEF NotifiesParent
<1>5. ready_queue' \in Seq(Proc) /\ current_proc' \in Proc \cup {IDLE_PID}
  BY <1>4, SwitchType DEF LeaveFamily
<1>. QED BY <1>1, <1>2, <1>3, <1>5 DEF clockVars

LEMMA TypeInit == ProcessInit => TypeOK
BY ProcessAssumption, PidFacts, EmptyFacts
   DEF ProcessInit, TypeOK, ProcessTypeOK, Proc, INIT_PID, IDLE_PID

LEMMA TypeStep == TypeOK /\ [ProcessNext]_processVars => TypeOK'
<1>. SUFFICES ASSUME TypeOK, [ProcessNext]_processVars PROVE TypeOK'
  OBVIOUS
<1>. USE DEF TypeOK
<1>1. CASE ProcessHandlers
  BY <1>1, HandlersType
<1>2. CASE KernelExit
  <2>1. current_proc \in Proc /\ ready_queue \in Seq(Proc)
    BY <1>2 DEF KernelExit, Calling, ProcessTypeOK
  <2>. QED BY <1>2, <2>1, LeaveFamilyType DEF KernelExit
<1>3. CASE HaltByInit /\ UNCHANGED <<schedVars, clockVars, pending, familyVars>>
  BY <1>3 DEF HaltByInit, ProcessTypeOK, schedVars, clockVars, familyVars
<1>4. CASE UNCHANGED processVars
  BY <1>4 DEF ProcessTypeOK, processVars, schedVars, clockVars, familyVars
<1>. QED BY <1>1, <1>2, <1>3, <1>4 DEF ProcessNext

\* Every variable keeps its type (ProcessSpec => []TypeOK).
THEOREM TypeCorrect == ProcessSpec => []TypeOK
BY TypeInit, TypeStep, PTL DEF ProcessSpec

-----------------------------------------------------------------------------
(* Every live process is in one place *)

\* Pids that are not handed out yet are nowhere, so a child forked with the next
\* one is in no queue before.
Unborn(Elsewhere) ==
  \A p \in Proc : p >= next_pid => p \notin Live(Elsewhere) /\ pending[p] = "user"

PlaceInv(Elsewhere) == OnePlaceWith(Elsewhere) /\ Unborn(Elsewhere)

\* After a context switch it is enough to look at the ready queue before it.
LEMMA PlacesAfterSwitch ==
  ASSUME NEW E, NEW rq \in Seq(Proc), NoDuplicates(rq), SwitchToNextProc(rq),
         NoDuplicates(clock_block_procs'),
         Range(clock_block_procs') \cap Range(rq) = {},
         Waiters' \cap (Range(rq) \cup Range(clock_block_procs')) = {},
         E \cap (Range(rq) \cup Range(clock_block_procs') \cup Waiters') = {}
  PROVE  /\ OnePlaceWith(E)'
         /\ Live(E)' = Range(rq) \cup Range(clock_block_procs') \cup Waiters' \cup E
<1>1. /\ NoDuplicates(ready_queue')
      /\ Running' \cup Range(ready_queue') = Range(rq)
      /\ Running' \cap Range(ready_queue') = {}
  BY SwitchFacts
<1>2. OnePlaceWith(E)'
  BY <1>1 DEF OnePlaceWith
<1>3. Live(E)' = Range(rq) \cup Range(clock_block_procs') \cup Waiters' \cup E
  BY <1>1 DEF Live
<1>. QED BY <1>2, <1>3

LEMMA TrapClockPlace ==
  ASSUME NEW M, NEW P, ProcessTypeOK(M, P), NEW E, PlaceInv(E), TrapClock
  PROVE  PlaceInv(E)' /\ Live(E)' = Live(E)
<1>. DEFINE q == clock_block_procs
<1>1. PICK end \in WalkEnds :
        \E woken \in SublistAt(q, {i \in 1..end : Expires(q[i])}),
           still \in SublistAt(q, DOMAIN q \ {i \in 1..end : Expires(q[i])}) :
          /\ clock_block_procs' = still
          /\ SwitchToNextProc(Preempted(ready_queue \o woken))
  BY DEF TrapClock
<1>. DEFINE Expired == {i \in 1..end : Expires(q[i])}
<1>2. PICK woken \in SublistAt(q, Expired), still \in SublistAt(q, DOMAIN q \ Expired) :
          /\ clock_block_procs' = still
          /\ SwitchToNextProc(Preempted(ready_queue \o woken))
  BY <1>1
<1>3. /\ q \in Seq(Proc) /\ ready_queue \in Seq(Proc)
      /\ current_proc \in Proc \cup {IDLE_PID}
      /\ NoDuplicates(q) /\ NoDuplicates(ready_queue)
  BY DEF ProcessTypeOK, PlaceInv, OnePlaceWith
<1>4. Expired \in SUBSET DOMAIN q
  BY <1>3, WalkEndsFacts
<1>5. /\ woken \in Seq(Proc) /\ NoDuplicates(woken)
      /\ still \in Seq(Proc) /\ NoDuplicates(still)
      /\ Range(woken) \cup Range(still) = Range(q)
      /\ Range(woken) \cap Range(still) = {}
  BY <1>3, <1>4, SplitFacts
<1>. HIDE DEF q, Expired
<1>6. /\ Running \cap Range(ready_queue) = {}
      /\ Range(q) \cap (Running \cup Range(ready_queue)) = {}
      /\ Waiters \cap (Running \cup Range(ready_queue) \cup Range(q)) = {}
      /\ E \cap (Running \cup Range(ready_queue) \cup Range(q) \cup Waiters) = {}
  BY DEF PlaceInv, OnePlaceWith, q
<1>. DEFINE rq == ready_queue \o woken
<1>7. /\ rq \in Seq(Proc) /\ NoDuplicates(rq)
      /\ Range(rq) = Range(ready_queue) \cup Range(woken)
  <2>1. Range(ready_queue) \cap Range(woken) = {}
    BY <1>5, <1>6
  <2>. QED BY <1>3, <1>5, <2>1, ConcatFacts
<1>. HIDE DEF rq
<1>8. /\ Preempted(rq) \in Seq(Proc) /\ NoDuplicates(Preempted(rq))
       /\ Range(Preempted(rq)) = Running \cup Range(ready_queue) \cup Range(woken)
  BY <1>3, <1>5, <1>6, <1>7, PreemptedType
<1>9. /\ SwitchToNextProc(Preempted(rq)) /\ clock_block_procs' = still
       /\ waiting_on_children' = waiting_on_children /\ Waiters' = Waiters
       /\ next_pid' = next_pid /\ pending' = pending
  BY <1>2 DEF TrapClock, familyVars, Waiters, rq
<1>10. /\ NoDuplicates(clock_block_procs')
      /\ Range(clock_block_procs') \cap Range(Preempted(rq)) = {}
      /\ Waiters' \cap (Range(Preempted(rq)) \cup Range(clock_block_procs')) = {}
      /\ E \cap (Range(Preempted(rq)) \cup Range(clock_block_procs') \cup Waiters') = {}
  BY <1>5, <1>6, <1>8, <1>9
<1>11. /\ OnePlaceWith(E)'
       /\ Live(E)' = Range(Preempted(rq)) \cup Range(still) \cup Waiters \cup E
  BY <1>10, <1>8, <1>9, PlacesAfterSwitch
<1>12. Live(E)' = Live(E)
  BY <1>5, <1>8, <1>11 DEF Live, q
<1>. QED BY <1>9, <1>11, <1>12 DEF PlaceInv, Unborn

LEMMA KernelDelayPlace ==
  ASSUME NEW M, NEW P, ProcessTypeOK(M, P), NEW E, PlaceInv(E), NEW n, KernelDelay(n)
  PROVE  PlaceInv(E)' /\ Live(E)' = Live(E)
<1>1. /\ current_proc \in Proc /\ Running = {current_proc}
      /\ ready_queue \in Seq(Proc) /\ clock_block_procs \in Seq(Proc)
  BY PidFacts DEF KernelDelay, Calling, Running, ProcessTypeOK
<1>2. /\ clock_block_procs' = Append(clock_block_procs, current_proc)
      /\ SwitchToNextProc(ready_queue)
      /\ Waiters' = Waiters /\ next_pid' = next_pid /\ pending' = pending
  BY DEF KernelDelay, familyVars, Waiters
<1>3. /\ NoDuplicates(clock_block_procs')
      /\ Range(clock_block_procs') = Range(clock_block_procs) \cup {current_proc}
  BY <1>1, <1>2, AppendFacts DEF PlaceInv, OnePlaceWith
<1>4. /\ NoDuplicates(ready_queue)
      /\ Range(clock_block_procs') \cap Range(ready_queue) = {}
      /\ Waiters' \cap (Range(ready_queue) \cup Range(clock_block_procs')) = {}
      /\ E \cap (Range(ready_queue) \cup Range(clock_block_procs') \cup Waiters') = {}
  BY <1>1, <1>2, <1>3 DEF PlaceInv, OnePlaceWith
<1>5. /\ OnePlaceWith(E)'
      /\ Live(E)' = Range(ready_queue) \cup Range(clock_block_procs') \cup Waiters' \cup E
  BY <1>1, <1>2, <1>3, <1>4, PlacesAfterSwitch
<1>6. Live(E)' = Live(E)
  BY <1>1, <1>2, <1>3, <1>5 DEF Live
<1>. QED BY <1>2, <1>5, <1>6 DEF PlaceInv, Unborn

LEMMA KernelForkPlace ==
  ASSUME NEW M, NEW P, ProcessTypeOK(M, P), NEW E, PlaceInv(E), KernelFork
  PROVE  /\ PlaceInv(E)' /\ Live(E)' = Live(E) \cup {next_pid}
         /\ next_pid \in Proc \ Live(E) /\ current_proc \in Live(E)
<1>1. /\ current_proc \in Proc /\ Running = {current_proc}
      /\ ready_queue \in Seq(Proc)
      /\ next_pid \in Proc /\ next_pid \notin Live(E)
      /\ Running' = {next_pid}
  BY PidFacts DEF KernelFork, Calling, Running, ProcessTypeOK, PlaceInv, Unborn
<1>2. Waiters' = Waiters
  BY <1>1 DEF KernelFork, Waiters, Live, ProcessTypeOK
<1>3. /\ NoDuplicates(ready_queue')
      /\ Range(ready_queue') = Range(ready_queue) \cup {current_proc}
      /\ clock_block_procs' = clock_block_procs
  BY <1>1, AppendFacts DEF KernelFork, clockVars, PlaceInv, OnePlaceWith
<1>4. OnePlaceWith(E)'
  BY <1>1, <1>2, <1>3 DEF PlaceInv, OnePlaceWith, Live
<1>5. Live(E)' = Live(E) \cup {next_pid}
  BY <1>1, <1>2, <1>3 DEF Live
<1>6. Unborn(E)'
  BY <1>1, <1>5 DEF PlaceInv, Unborn, KernelFork, Proc
<1>7. current_proc \in Live(E)
  BY <1>1 DEF Live
<1>. QED BY <1>1, <1>4, <1>5, <1>6, <1>7 DEF PlaceInv

LEMMA KernelWaitBlocksPlace ==
  ASSUME NEW M, NEW P, ProcessTypeOK(M, P), NEW E, PlaceInv(E), KernelWaitBlocks
  PROVE  PlaceInv(E)' /\ Live(E)' = Live(E)
<1>1. /\ current_proc \in Proc /\ Running = {current_proc}
      /\ ready_queue \in Seq(Proc) /\ clock_block_procs' = clock_block_procs
      /\ SwitchToNextProc(ready_queue) /\ next_pid' = next_pid
  BY PidFacts DEF KernelWaitBlocks, Calling, Running, ProcessTypeOK, clockVars
<1>2. Waiters' = Waiters \cup {current_proc}
  BY <1>1 DEF KernelWaitBlocks, Waiters, ProcessTypeOK
<1>3. /\ NoDuplicates(ready_queue) /\ NoDuplicates(clock_block_procs')
      /\ Range(clock_block_procs') \cap Range(ready_queue) = {}
      /\ Waiters' \cap (Range(ready_queue) \cup Range(clock_block_procs')) = {}
      /\ E \cap (Range(ready_queue) \cup Range(clock_block_procs') \cup Waiters') = {}
  BY <1>1, <1>2 DEF PlaceInv, OnePlaceWith
<1>4. /\ OnePlaceWith(E)'
      /\ Live(E)' = Range(ready_queue) \cup Range(clock_block_procs') \cup Waiters' \cup E
  BY <1>1, <1>3, PlacesAfterSwitch
<1>5. Live(E)' = Live(E) /\ current_proc \in Live(E)
  BY <1>1, <1>2, <1>4 DEF Live
<1>6. \A p \in Proc \ {current_proc} : pending'[p] = pending[p]
  BY DEF KernelWaitBlocks, ProcessTypeOK
<1>. QED BY <1>1, <1>4, <1>5, <1>6 DEF PlaceInv, Unborn

\* The handlers keep every process in one place, and they take nobody's life.
LEMMA HandlersPlace ==
  ASSUME NEW M, NEW P, ProcessTypeOK(M, P), NEW E, PlaceInv(E), ProcessHandlers
  PROVE  PlaceInv(E)' /\ Live(E) \subseteq Live(E)'
<1>1. CASE KernelForkFails
  BY <1>1 DEF KernelForkFails, schedVars, clockVars, PlaceInv, OnePlaceWith, Unborn, Live,
              Running, Waiters, Proc, ProcessTypeOK
<1>2. CASE KernelWaitCollects
  BY <1>2 DEF KernelWaitCollects, schedVars, clockVars, PlaceInv, OnePlaceWith, Unborn, Live,
              Running, Waiters
<1>3. CASE KernelWaitReturns
  <2>1. /\ OnePlaceWith(E)' /\ Live(E)' = Live(E) /\ next_pid' = next_pid
        /\ current_proc \in Proc /\ current_proc \in Live(E)
    BY <1>3, PidFacts DEF KernelWaitReturns, Resuming, schedVars, clockVars, PlaceInv,
                  OnePlaceWith, Live, Running, Waiters, ProcessTypeOK
  <2>2. \A p \in Proc \ {current_proc} : pending'[p] = pending[p]
    BY <1>3 DEF KernelWaitReturns, Abort, ProcessTypeOK
  <2>. QED BY <2>1, <2>2 DEF PlaceInv, Unborn
<1>. QED BY <1>1, <1>2, <1>3, TrapClockPlace, KernelDelayPlace, KernelForkPlace,
            KernelWaitBlocksPlace DEF ProcessHandlers

\* A process that exits leaves its place; its parent may move to the ready queue.
LEMMA LeaveFamilyPlace ==
  ASSUME NEW M, NEW P, ProcessTypeOK(M, P), current_proc \in Proc, NEW E,
         NEW rq \in Seq(Proc), LeaveFamily(rq),
         UNCHANGED clockVars, NoDuplicates(rq), NoDuplicates(clock_block_procs),
         Range(clock_block_procs) \cap Range(rq) = {},
         Waiters \cap (Range(rq) \cup Range(clock_block_procs)) = {},
         E \cap (Range(rq) \cup Range(clock_block_procs) \cup Waiters) = {}
  PROVE  /\ OnePlaceWith(E)'
         /\ Live(E)' = Range(rq) \cup Range(clock_block_procs) \cup Waiters \cup E
<1>. DEFINE parent == live_parent[current_proc]
            rq2 == IF NotifiesParent THEN Append(rq, parent) ELSE rq
<1>1. SwitchToNextProc(rq2) /\ clock_block_procs' = clock_block_procs
  BY DEF LeaveFamily, clockVars
<1>2. Waiters' = Waiters \ {parent}
  BY DEF LeaveFamily, Waiters
<1>3. /\ rq2 \in Seq(Proc) /\ NoDuplicates(rq2)
      /\ Range(rq2) \cup Waiters' = Range(rq) \cup Waiters
      /\ Range(rq2) \cap Waiters' = {}
  <2>1. CASE NotifiesParent
    <3>1. parent \in Waiters /\ parent \in Proc
      <4>1. parent \in Proc \cup {NULL}
        BY DEF ProcessTypeOK
      <4>2. parent # NULL /\ waiting_on_children[parent]
        BY <2>1, Zenon DEF NotifiesParent
      <4>3. parent \in Proc
        BY <4>1, <4>2
      <4>. HIDE DEF parent
      <4>. QED BY <4>2, <4>3, Zenon DEF Waiters
    <3>2. rq2 = Append(rq, parent) /\ parent \notin Range(rq)
      BY <2>1, <3>1
    <3>3. /\ Append(rq, parent) \in Seq(Proc) /\ NoDuplicates(Append(rq, parent))
          /\ Range(Append(rq, parent)) = Range(rq) \cup {parent}
      BY <3>1, <3>2, AppendFacts
    <3>. HIDE DEF parent, rq2
    <3>. QED BY <3>1, <3>2, <3>3, <1>2
  <2>2. CASE ~NotifiesParent
    <3>1. parent \notin Waiters
      BY <2>2, PidFacts DEF NotifiesParent, Waiters
    <3>2. rq2 = rq /\ Waiters' = Waiters
      BY <1>2, <2>2, <3>1
    <3>. QED BY <3>2
  <2>. QED BY <2>1, <2>2
<1>. HIDE DEF rq2
<1>4. /\ NoDuplicates(clock_block_procs')
      /\ Range(clock_block_procs') \cap Range(rq2) = {}
      /\ Waiters' \cap (Range(rq2) \cup Range(clock_block_procs')) = {}
      /\ E \cap (Range(rq2) \cup Range(clock_block_procs') \cup Waiters') = {}
  BY <1>1, <1>2, <1>3
<1>5. /\ OnePlaceWith(E)'
      /\ Live(E)' = Range(rq2) \cup Range(clock_block_procs') \cup Waiters' \cup E
  BY <1>1, <1>3, <1>4, PlacesAfterSwitch
<1>. QED BY <1>1, <1>3, <1>5

\* The exit of a process that owns no lock.
LEMMA KernelExitPlace ==
  ASSUME NEW M, NEW P, ProcessTypeOK(M, P), NEW E, PlaceInv(E), KernelExit
  PROVE  PlaceInv(E)' /\ Live(E)' = Live(E) \ {current_proc}
<1>1. /\ ready_queue \in Seq(Proc) /\ LeaveFamily(ready_queue) /\ UNCHANGED clockVars
      /\ next_pid' = next_pid /\ pending' = pending /\ current_proc \in Proc
  BY DEF KernelExit, Calling, ProcessTypeOK
<1>2. /\ OnePlaceWith(E)'
      /\ Live(E)' = Range(ready_queue) \cup Range(clock_block_procs) \cup Waiters \cup E
  <2>1. /\ NoDuplicates(ready_queue) /\ NoDuplicates(clock_block_procs)
        /\ Range(clock_block_procs) \cap Range(ready_queue) = {}
        /\ Waiters \cap (Range(ready_queue) \cup Range(clock_block_procs)) = {}
        /\ E \cap (Range(ready_queue) \cup Range(clock_block_procs) \cup Waiters) = {}
    BY DEF PlaceInv, OnePlaceWith
  <2>. QED BY <1>1, <2>1, LeaveFamilyPlace
<1>3. Live(E)' = Live(E) \ {current_proc}
  <2>1. Running = {current_proc}
    BY <1>1, PidFacts DEF Running
  <2>. QED BY <1>2, <2>1 DEF Live, PlaceInv, OnePlaceWith
<1>. QED BY <1>1, <1>2, <1>3 DEF PlaceInv, Unborn

-----------------------------------------------------------------------------
(* Steps of a larger module that wake or block somebody *)

\* The handlers of Process do not touch the calls of a larger module.
LEMMA HandlersPending ==
  ASSUME NEW M, NEW P, ProcessTypeOK(M, P), ProcessHandlers,
         NEW p \in Proc, NEW v, v \notin {"user", "wait"}
  PROVE  pending'[p] = v <=> pending[p] = v
<1>1. CASE KernelWaitBlocks
  BY <1>1 DEF KernelWaitBlocks, Calling, UserMode, ProcessTypeOK
<1>2. CASE KernelWaitReturns
  BY <1>2 DEF KernelWaitReturns, Resuming, Abort, ProcessTypeOK
<1>3. CASE UNCHANGED pending
  BY <1>3
<1>. QED BY <1>1, <1>2, <1>3
     DEF ProcessHandlers, TrapClock, KernelDelay, KernelFork, KernelForkFails, KernelWaitCollects

\* Processes W leave queues of E for the ready queue, and F stay.
LEMMA WakePlace ==
  ASSUME NEW E, NEW F, NEW W, E = F \cup W, F \cap W = {},
         PlaceInv(E),
         UNCHANGED <<current_proc, clock_block_procs, waiting_on_children, next_pid, pending>>,
         NoDuplicates(ready_queue'),
         Range(ready_queue') = Range(ready_queue) \cup W
  PROVE  PlaceInv(F)' /\ Live(F)' = Live(E)
<1>1. UNCHANGED <<Running, Waiters>>
  BY DEF Running, Waiters
<1>2. OnePlaceWith(F)'
  BY <1>1 DEF PlaceInv, OnePlaceWith
<1>3. Live(F)' = Live(E)
  BY <1>1 DEF Live
<1>. QED BY <1>2, <1>3 DEF PlaceInv, Unborn

\* The current process is live and in no queue.
LEMMA CurrentFacts ==
  ASSUME NEW E, PlaceInv(E), current_proc \in Proc
  PROVE  /\ Running = {current_proc}
         /\ current_proc \notin E \cup Range(ready_queue) \cup Range(clock_block_procs)
                                  \cup Waiters
         /\ current_proc \in Live(E)
         /\ ~(current_proc >= next_pid)
BY PidFacts DEF Running, PlaceInv, OnePlaceWith, Live, Unborn

\* Processes W leave queues of E for the ready queue rq, the current process joins
\* a queue, and the next one runs.
LEMMA BlockPlace ==
  ASSUME NEW E, NEW F, NEW W, E = F \cup W, F \cap W = {},
         PlaceInv(E), NEW me \in Proc, me = current_proc,
         NEW rq \in Seq(Proc), NoDuplicates(rq), Range(rq) = Range(ready_queue) \cup W,
         SwitchToNextProc(rq),
         UNCHANGED <<clock_block_procs, waiting_on_children, next_pid>>,
         \A p \in Proc \ {me} : pending'[p] = pending[p]
  PROVE  PlaceInv(F \cup {me})' /\ Live(F \cup {me})' = Live(E)
<1>. DEFINE G == F \cup {me}
<1>1. Waiters' = Waiters
  BY DEF Waiters
<1>2. /\ NoDuplicates(clock_block_procs')
      /\ Range(clock_block_procs') \cap Range(rq) = {}
      /\ Waiters' \cap (Range(rq) \cup Range(clock_block_procs')) = {}
      /\ G \cap (Range(rq) \cup Range(clock_block_procs') \cup Waiters') = {}
  BY <1>1, CurrentFacts DEF PlaceInv, OnePlaceWith
<1>3. /\ OnePlaceWith(G)'
      /\ Live(G)' = Range(rq) \cup Range(clock_block_procs') \cup Waiters' \cup G
  BY <1>2, PlacesAfterSwitch
<1>4. Live(G)' = Live(E)
  BY <1>1, <1>3, CurrentFacts DEF Live
<1>5. Unborn(G)'
  BY <1>4, CurrentFacts DEF PlaceInv, Unborn
<1>. QED BY <1>3, <1>4, <1>5 DEF PlaceInv

-----------------------------------------------------------------------------
(* The theorem *)

LEMMA PlaceInit == ProcessInit => PlaceInv({})
<1>. SUFFICES ASSUME ProcessInit PROVE PlaceInv({})
  OBVIOUS
<1>1. /\ Running = {} /\ Waiters = {} /\ Range(ready_queue) = {INIT_PID}
      /\ Range(clock_block_procs) = {}
  BY EmptyFacts DEF ProcessInit, Running, Waiters, Range
<1>2. NoDuplicates(ready_queue) /\ NoDuplicates(clock_block_procs)
  BY EmptyFacts DEF ProcessInit, NoDuplicates
<1>. QED BY <1>1, <1>2
     DEF ProcessInit, PlaceInv, OnePlaceWith, Unborn, Live, INIT_PID, Proc

LEMMA PlaceStep == TypeOK /\ PlaceInv({}) /\ [ProcessNext]_processVars => PlaceInv({})'
<1>. SUFFICES ASSUME TypeOK, PlaceInv({}), [ProcessNext]_processVars PROVE PlaceInv({})'
  OBVIOUS
<1>1. CASE ProcessHandlers
  BY <1>1, HandlersPlace DEF TypeOK
<1>2. CASE KernelExit
  BY <1>2, KernelExitPlace DEF TypeOK
<1>3. CASE HaltByInit /\ UNCHANGED <<schedVars, clockVars, pending, familyVars>>
  BY <1>3 DEF PlaceInv, OnePlaceWith, Unborn, Live, Running, Waiters, schedVars, clockVars,
              familyVars
<1>4. CASE UNCHANGED processVars
  BY <1>4 DEF PlaceInv, OnePlaceWith, Unborn, Live, Running, Waiters, processVars, schedVars,
              clockVars, familyVars
<1>. QED BY <1>1, <1>2, <1>3, <1>4 DEF ProcessNext

LEMMA PlaceInvariant == ProcessSpec => []PlaceInv({})
BY TypeCorrect, PlaceInit, PlaceStep, PTL DEF ProcessSpec

\* A live process is in exactly one place (ProcessSpec => []OnePlace): the handlers
\* put the current process into the right queue before they call SwitchToNextProc.
THEOREM OnePlaceAlways == ProcessSpec => []OnePlace
<1>1. PlaceInv({}) => OnePlace
  BY DEF PlaceInv, OnePlace
<1>. QED BY <1>1, PlaceInvariant, PTL

-----------------------------------------------------------------------------
(* assert(child) never fails *)

\* A process that is inside KernelWait and not marked as waiting has a zombie:
\* KernelExit of a child clears the mark and adds the zombie in one step, and
\* only the process itself takes zombies away.
WokenHasZombie ==
  \A p \in Proc : pending[p] = "wait" /\ ~waiting_on_children[p] => zombie_children[p] # <<>>

AssertInv == WokenHasZombie /\ machine # "aborted"

LEMMA HandlersAssert ==
  ASSUME NEW M, NEW P, ProcessTypeOK(M, P), NEW E, PlaceInv(E), AssertInv, ProcessHandlers
  PROVE  AssertInv'
<1>. USE DEF ProcessTypeOK, WokenHasZombie, AssertInv
<1>1. CASE TrapClock
  BY <1>1 DEF TrapClock, familyVars
<1>2. ASSUME NEW n \in 1..MaxTicks, KernelDelay(n) PROVE AssertInv'
  BY <1>2 DEF KernelDelay, familyVars
<1>3. CASE KernelFork
  BY <1>3 DEF KernelFork, clockVars, PlaceInv, Unborn
<1>4. CASE KernelForkFails
  BY <1>4 DEF KernelForkFails
<1>5. CASE KernelWaitCollects
  <2>1. current_proc \in Proc /\ pending[current_proc] = "user"
    BY <1>5 DEF KernelWaitCollects, Calling, UserMode
  <2>. QED BY <1>5, <2>1 DEF KernelWaitCollects, CollectZombie
<1>6. CASE KernelWaitBlocks
  BY <1>6 DEF KernelWaitBlocks
<1>7. CASE KernelWaitReturns
  <2>1. /\ current_proc \in Proc /\ pending[current_proc] = "wait"
        /\ current_proc \notin Waiters
    BY <1>7, PidFacts DEF KernelWaitReturns, Resuming, PlaceInv, OnePlaceWith, Running
  <2>2. zombie_children[current_proc] # <<>>
    BY <2>1 DEF Waiters
  <2>3. /\ CollectZombie
        /\ pending' = [pending EXCEPT ![current_proc] = "user"]
        /\ machine' = machine /\ waiting_on_children' = waiting_on_children
    BY <1>7, <2>2 DEF KernelWaitReturns
  <2>. QED BY <2>1, <2>3 DEF CollectZombie
<1>. QED BY <1>1, <1>2, <1>3, <1>4, <1>5, <1>6, <1>7 DEF ProcessHandlers

LEMMA LeaveFamilyAssert ==
  ASSUME NEW M, NEW P, ProcessTypeOK(M, P), current_proc \in Proc,
         pending[current_proc] # "wait", AssertInv, NEW rq, LeaveFamily(rq),
         UNCHANGED <<machine, pending>>
  PROVE  AssertInv'
<1>. USE DEF ProcessTypeOK, WokenHasZombie, AssertInv
<1>. SUFFICES ASSUME NEW p \in Proc, pending[p] = "wait", ~waiting_on_children'[p]
              PROVE  zombie_children'[p] # <<>>
  OBVIOUS
<1>1. p # current_proc
  OBVIOUS
<1>2. CASE p = live_parent[current_proc]
  <2>1. zombie_children'[p] = Append(zombie_children[p], current_proc)
    BY <1>1, <1>2 DEF LeaveFamily
  <2>2. zombie_children[p] \in Seq(Proc)
    OBVIOUS
  <2>3. Append(zombie_children[p], current_proc) # <<>>
    <3>. HIDE DEF ProcessTypeOK, WokenHasZombie, AssertInv
    <3>. QED BY ONLY <2>2, AppendFacts
  <2>. QED BY <2>1, <2>3, Zenon
<1>3. CASE p # live_parent[current_proc]
  BY <1>1, <1>3 DEF LeaveFamily
<1>. QED BY <1>2, <1>3

\* The assert of KernelWait never fails (ProcessSpec => []AssertsHold).
THEOREM AssertsHoldAlways == ProcessSpec => []AssertsHold
<1>1. ProcessInit => AssertInv
  BY DEF ProcessInit, AssertInv, WokenHasZombie
<1>2. TypeOK /\ PlaceInv({}) /\ AssertInv /\ [ProcessNext]_processVars => AssertInv'
  <2>. SUFFICES ASSUME TypeOK, PlaceInv({}), AssertInv, [ProcessNext]_processVars
                PROVE  AssertInv'
    OBVIOUS
  <2>1. CASE ProcessHandlers
    BY <2>1, HandlersAssert DEF TypeOK
  <2>2. CASE KernelExit
    BY <2>2, LeaveFamilyAssert DEF KernelExit, Calling, UserMode, TypeOK, ProcessTypeOK
  <2>3. CASE HaltByInit /\ UNCHANGED <<schedVars, clockVars, pending, familyVars>>
    BY <2>3 DEF HaltByInit, AssertInv, WokenHasZombie, familyVars
  <2>4. CASE UNCHANGED processVars
    BY <2>4 DEF AssertInv, WokenHasZombie, processVars, familyVars
  <2>. QED BY <2>1, <2>2, <2>3, <2>4 DEF ProcessNext
<1>3. AssertInv => AssertsHold
  BY DEF AssertInv, AssertsHold
<1>. QED BY <1>1, <1>2, <1>3, PlaceInvariant, TypeCorrect, PTL DEF ProcessSpec

-----------------------------------------------------------------------------
(* The family tree: the pointers between the PCBs agree, none leads to a freed  *)
(* PCB, and a parent that waits has somebody to wait for.  Only the PCBs of     *)
(* failed forks are out of reach.                                              *)

IsZombieOf(c, p) == c \in Range(zombie_children[p])

\* NoDanglingPCBWith one PCB at a time.
PcbKept(E) ==
  /\ \A c \in Proc : c \in pcbs <=> \/ c \in Live(E)
                                  \/ \E p \in Proc : IsZombieOf(c, p)
                                  \/ c \in abandoned_pcbs
  /\ \A c \in Live(E), p \in Proc : ~IsZombieOf(c, p)
  /\ \A c \in abandoned_pcbs : c \notin Live(E) /\ \A p \in Proc : ~IsZombieOf(c, p)

\* Nobody is its own parent, and a pid that is not handed out has no PCB, so a child is
\* nobody's zombie before it is forked.
ForkFresh ==
  /\ \A p \in Proc : live_parent[p] # p
  /\ \A p \in Proc : p >= next_pid => p \notin pcbs

FamilyInv(E) == FamilyTreeWith(E) /\ PcbKept(E) /\ ForkFresh

LEMMA LiveType ==
  ASSUME NEW M, NEW P, ProcessTypeOK(M, P), NEW E \in SUBSET Proc
  PROVE  Live(E) \subseteq Proc
<1>1. Running \subseteq Proc /\ Waiters \subseteq Proc
  BY DEF ProcessTypeOK, Running, Waiters
<1>2. Range(ready_queue) \subseteq Proc /\ Range(clock_block_procs) \subseteq Proc
  BY DEF ProcessTypeOK, Range
<1>. QED BY <1>1, <1>2 DEF Live

LEMMA ZombieType ==
  ASSUME NEW M, NEW P, ProcessTypeOK(M, P), NEW p \in Proc
  PROVE  zombie_children[p] \in Seq(Proc) /\ Range(zombie_children[p]) \subseteq Proc
BY DEF ProcessTypeOK, Range

LEMMA PcbKeptMeaning ==
  ASSUME NEW M, NEW P, ProcessTypeOK(M, P), NEW E \in SUBSET Proc
  PROVE  PcbKept(E) <=> NoDanglingPCBWith(E)
<1>. DEFINE Zombies == UNION {Range(zombie_children[p]) : p \in Proc}
<1>1. \A c : c \in Zombies <=> \E p \in Proc : IsZombieOf(c, p)
  BY DEF IsZombieOf
<1>2. /\ Zombies \subseteq Proc /\ Live(E) \subseteq Proc
      /\ pcbs \subseteq Proc /\ abandoned_pcbs \subseteq Proc
  <2>1. \A p \in Proc : Range(zombie_children[p]) \subseteq Proc
    BY ZombieType
  <2>2. Live(E) \subseteq Proc /\ pcbs \subseteq Proc /\ abandoned_pcbs \subseteq Proc
    BY LiveType DEF ProcessTypeOK
  <2>. QED BY <2>1, <2>2
<1>3. NoDanglingPCBWith(E) <=> /\ pcbs = (Live(E) \cup Zombies) \cup abandoned_pcbs
                               /\ Live(E) \cap Zombies = {}
                               /\ (Live(E) \cup Zombies) \cap abandoned_pcbs = {}
  BY DEF NoDanglingPCBWith
<1>. HIDE DEF Zombies
<1>4. PcbKept(E) <=>
        /\ \A c \in Proc : c \in pcbs <=> c \in Live(E) \/ c \in Zombies \/ c \in abandoned_pcbs
        /\ \A c \in Live(E) : c \notin Zombies
        /\ \A c \in abandoned_pcbs : c \notin Live(E) /\ c \notin Zombies
  BY <1>1, <1>2, Zenon DEF PcbKept
<1>. QED BY <1>2, <1>3, <1>4

-----------------------------------------------------------------------------
(* The handlers *)

\* Steps that touch no PCB and let nobody in or out; the processes blocked elsewhere are E
\* before and F after the step.
LEMMA FamilyMoved ==
  ASSUME NEW M, NEW P, ProcessTypeOK(M, P), NEW E \in SUBSET Proc, NEW F \in SUBSET Proc,
         FamilyInv(E), Live(F)' = Live(E),
         UNCHANGED <<pcbs, abandoned_pcbs, live_parent, live_children, zombie_children>>,
         next_pid' \in Nat, next_pid' >= next_pid
  PROVE  FamilyInv(F)'
<1>1. FamilyTreeWith(F)'
  BY DEF FamilyInv, FamilyTreeWith
<1>2. PcbKept(F)'
  BY DEF FamilyInv, PcbKept, IsZombieOf
<1>3. ForkFresh'
  BY ProcessAssumption DEF FamilyInv, ForkFresh, ProcessTypeOK, Proc
<1>. QED BY <1>1, <1>2, <1>3 DEF FamilyInv

LEMMA FamilyUnchanged ==
  ASSUME NEW M, NEW P, ProcessTypeOK(M, P), NEW E \in SUBSET Proc, FamilyInv(E),
         Live(E)' = Live(E),
         UNCHANGED <<pcbs, abandoned_pcbs, live_parent, live_children, zombie_children>>,
         next_pid' \in Nat, next_pid' >= next_pid
  PROVE  FamilyInv(E)'
BY FamilyMoved

LEMMA KernelForkFamily ==
  ASSUME NEW M, NEW P, ProcessTypeOK(M, P), NEW E \in SUBSET Proc, PlaceInv(E),
         FamilyInv(E), KernelFork
  PROVE  FamilyInv(E)'
<1>1. PICK me, c : me = current_proc /\ c = next_pid
  OBVIOUS
<1>2. /\ me \in Live(E) /\ c \in Proc /\ c \notin Live(E) /\ me \in Proc
      /\ Live(E)' = Live(E) \cup {c}
      /\ Live(E) \subseteq Proc
  BY <1>1, KernelForkPlace, LiveType
<1>3. /\ next_pid' = c + 1
      /\ pcbs' = pcbs \cup {c}
      /\ live_children' = [live_children EXCEPT ![me] = live_children[me] \cup {c}]
      /\ live_parent' = [live_parent EXCEPT ![c] = me]
      /\ UNCHANGED <<zombie_children, abandoned_pcbs>>
  BY <1>1 DEF KernelFork
<1>4. /\ c \notin pcbs /\ c \notin abandoned_pcbs
      /\ \A p \in Proc : ~IsZombieOf(c, p)
  BY <1>1, <1>2, PidFacts DEF FamilyInv, ForkFresh, PcbKept
<1>5. \A x \in Live(E) : live_parent[x] # c
  BY <1>2, PidFacts DEF FamilyInv, FamilyTreeWith
<1>6. FamilyTreeWith(E)'
  <2>1. \A p, x \in Proc : x \in live_children'[p] <=> x \in Live(E)' /\ live_parent'[x] = p
    BY <1>2, <1>3, <1>5 DEF FamilyInv, FamilyTreeWith, ProcessTypeOK
  <2>2. \A x \in Live(E)' : live_parent'[x] \in Live(E)' \cup {NULL}
    BY <1>2, <1>3 DEF FamilyInv, FamilyTreeWith, ProcessTypeOK
  <2>3. ASSUME NEW p \in Proc
        PROVE  /\ NoDuplicates(zombie_children'[p])
               /\ zombie_children'[p] # <<>> => p \in Live(E)'
               /\ \A x \in Range(zombie_children'[p]) : live_parent'[x] = p
    <3>1. zombie_children'[p] = zombie_children[p]
      BY <1>3
    <3>2. /\ NoDuplicates(zombie_children[p])
          /\ zombie_children[p] # <<>> => p \in Live(E)
          /\ \A x \in Range(zombie_children[p]) : live_parent[x] = p
      BY DEF FamilyInv, FamilyTreeWith
    <3>3. \A x \in Range(zombie_children[p]) : x \in Proc /\ x # c
      BY <1>4, ZombieType DEF IsZombieOf
    <3>4. \A x \in Proc : x # c => live_parent'[x] = live_parent[x]
      BY <1>2, <1>3 DEF ProcessTypeOK
    <3>. QED BY <1>2, <3>1, <3>2, <3>3, <3>4
  <2>. QED BY <2>1, <2>2, <2>3 DEF FamilyTreeWith
<1>7. PcbKept(E)'
  BY <1>2, <1>3, <1>4 DEF FamilyInv, PcbKept, IsZombieOf
<1>8. ForkFresh'
  BY <1>1, <1>2, <1>3, PidFacts, ProcessAssumption
  DEF FamilyInv, ForkFresh, ProcessTypeOK, Proc
<1>. QED BY <1>6, <1>7, <1>8 DEF FamilyInv

\* A parent frees the zombie it takes, which was nobody else's.
LEMMA CollectFamily ==
  ASSUME NEW M, NEW P, ProcessTypeOK(M, P), NEW E \in SUBSET Proc, FamilyInv(E),
         current_proc \in Proc, zombie_children[current_proc] # <<>>, CollectZombie,
         Live(E)' = Live(E),
         UNCHANGED <<abandoned_pcbs, next_pid, live_parent, live_children>>
  PROVE  FamilyInv(E)'
<1>1. PICK me : me = current_proc
  OBVIOUS
<1>2. PICK q, z : q = zombie_children[me] /\ z = Head(q)
  OBVIOUS
<1>3. /\ me \in Proc /\ q \in Seq(Proc) /\ q # <<>> /\ NoDuplicates(q)
      /\ z \in Proc /\ Tail(q) \in Seq(Proc) /\ NoDuplicates(Tail(q))
      /\ Range(q) = Range(Tail(q)) \cup {z} /\ z \notin Range(Tail(q))
  BY <1>1, <1>2, ZombieType, HeadTailFacts DEF FamilyInv, FamilyTreeWith
<1>4. /\ zombie_children' = [zombie_children EXCEPT ![me] = Tail(q)]
      /\ pcbs' = pcbs \ {z}
  BY <1>1, <1>2 DEF CollectZombie
<1>5. /\ zombie_children'[me] = Tail(q)
      /\ \A p \in Proc \ {me} : zombie_children'[p] = zombie_children[p]
  BY <1>3, <1>4 DEF ProcessTypeOK
<1>6. FamilyTreeWith(E)'
  <2>1. ASSUME NEW p \in Proc
        PROVE  /\ NoDuplicates(zombie_children'[p])
               /\ zombie_children'[p] # <<>> => p \in Live(E)'
               /\ \A x \in Range(zombie_children'[p]) : live_parent'[x] = p
    <3>1. CASE p = me
      BY <1>2, <1>3, <1>5, <3>1 DEF FamilyInv, FamilyTreeWith
    <3>2. CASE p # me
      BY <1>5, <3>2 DEF FamilyInv, FamilyTreeWith
    <3>. QED BY <3>1, <3>2
  <2>. QED BY <2>1 DEF FamilyInv, FamilyTreeWith
<1>7. \A c, p \in Proc : IsZombieOf(c, p)' <=> IsZombieOf(c, p) /\ c # z
  <2>. SUFFICES ASSUME NEW c \in Proc, NEW p \in Proc
                PROVE  IsZombieOf(c, p)' <=> IsZombieOf(c, p) /\ c # z
    OBVIOUS
  <2>1. CASE p = me
    BY <1>2, <1>3, <1>5, <2>1 DEF IsZombieOf
  <2>2. CASE p # me
    <3>1. z \notin Range(zombie_children[p])
      BY <1>2, <1>3, <2>2 DEF FamilyInv, FamilyTreeWith
    <3>. QED BY <1>5, <2>2, <3>1 DEF IsZombieOf
  <2>. QED BY <2>1, <2>2
<1>8. z \notin Live(E) /\ Live(E) \subseteq Proc /\ z \notin abandoned_pcbs
  BY <1>2, <1>3, LiveType DEF FamilyInv, PcbKept, IsZombieOf
<1>9. PcbKept(E)'
  <2>1. abandoned_pcbs \subseteq Proc
    BY DEF ProcessTypeOK
  <2>2. \A c \in Proc : c \in pcbs' <=> c \in pcbs /\ c # z
    BY <1>4
  <2>. QED BY <1>7, <1>8, <2>1, <2>2 DEF FamilyInv, PcbKept
<1>10. ForkFresh'
  BY <1>4 DEF FamilyInv, ForkFresh
<1>. QED BY <1>6, <1>9, <1>10 DEF FamilyInv

\* A process that exits orphans its children, frees its zombies and becomes a zombie of
\* its parent, or is freed at once when it has none.
LEMMA LeaveFamilyFamily ==
  ASSUME NEW M, NEW P, ProcessTypeOK(M, P), NEW E \in SUBSET Proc, FamilyInv(E),
         current_proc \in Proc, current_proc \in Live(E),
         NEW rq, LeaveFamily(rq), UNCHANGED <<abandoned_pcbs, next_pid>>,
         Live(E)' = Live(E) \ {current_proc}
  PROVE  FamilyInv(E)'
<1>1. PICK me, parent : me = current_proc /\ parent = live_parent[me]
  OBVIOUS
<1>2. /\ me \in Proc /\ me \in Live(E) /\ Live(E) \subseteq Proc
      /\ parent \in Live(E) \cup {NULL} /\ parent # me
      /\ Live(E)' = Live(E) \ {me}
  BY <1>1, LiveType DEF FamilyInv, FamilyTreeWith, ForkFresh
<1>3. /\ live_parent' = [p \in Proc |-> IF p \in live_children[me] THEN NULL
                                                                ELSE live_parent[p]]
      /\ live_children' =
           [p \in Proc |-> CASE p = me     -> {}
                             [] p = parent -> live_children[p] \ {me}
                             [] OTHER      -> live_children[p]]
      /\ zombie_children' =
           [p \in Proc |-> CASE p = me     -> <<>>
                             [] p = parent -> Append(zombie_children[p], me)
                             [] OTHER      -> zombie_children[p]]
      /\ pcbs' = pcbs \ (Range(zombie_children[me])
                           \cup (IF parent = NULL THEN {me} ELSE {}))
  BY <1>1 DEF LeaveFamily, Orphans
<1>4. \A x \in Proc : x \in live_children[me] <=> x \in Live(E) /\ live_parent[x] = me
  BY <1>2 DEF FamilyInv, FamilyTreeWith
<1>5. \A p \in Proc : ~IsZombieOf(me, p)
  BY <1>2 DEF FamilyInv, PcbKept
<1>6. ASSUME NEW p \in Proc, NEW x \in Proc
      PROVE  IsZombieOf(x, p)' <=> \/ p # me /\ IsZombieOf(x, p)
                                   \/ p = parent /\ x = me
  <2>1. CASE p = me
    BY <1>2, <1>3, <2>1, EmptyFacts DEF IsZombieOf
  <2>2. CASE p = parent
    <3>1. zombie_children'[p] = Append(zombie_children[p], me)
      BY <1>2, <1>3, <2>2
    <3>2. Range(zombie_children'[p]) = Range(zombie_children[p]) \cup {me}
      BY <1>2, <3>1, ZombieType, AppendFacts
    <3>. QED BY <1>2, <2>2, <3>2 DEF IsZombieOf
  <2>3. CASE p # me /\ p # parent
    BY <1>3, <2>3 DEF IsZombieOf
  <2>. QED BY <2>1, <2>2, <2>3
<1>7. ASSUME NEW p \in Proc, NEW x \in Proc
      PROVE  x \in live_children'[p] <=> x \in Live(E)' /\ live_parent'[x] = p
  <2>1. x \in live_children[p] <=> x \in Live(E) /\ live_parent[x] = p
    BY DEF FamilyInv, FamilyTreeWith
  <2>2. /\ live_parent'[x] = IF x \in live_children[me] THEN NULL ELSE live_parent[x]
        /\ p # NULL
    BY <1>3, PidFacts
  <2>3. CASE p = me
    BY <1>2, <1>3, <1>4, <2>1, <2>2, <2>3
  <2>4. CASE p = parent
    BY <1>1, <1>2, <1>3, <1>4, <2>1, <2>2, <2>4
  <2>5. CASE p # me /\ p # parent
    BY <1>1, <1>2, <1>3, <1>4, <2>1, <2>2, <2>5
  <2>. QED BY <2>3, <2>4, <2>5
<1>8. ASSUME NEW x \in Live(E)'
      PROVE  live_parent'[x] \in Live(E)' \cup {NULL}
  BY <1>2, <1>3, <1>4 DEF FamilyInv, FamilyTreeWith
<1>9. ASSUME NEW p \in Proc
      PROVE  /\ NoDuplicates(zombie_children'[p])
             /\ zombie_children'[p] # <<>> => p \in Live(E)'
             /\ \A x \in Range(zombie_children'[p]) : live_parent'[x] = p
  <2>1. /\ NoDuplicates(zombie_children[p])
        /\ zombie_children[p] # <<>> => p \in Live(E)
        /\ \A x \in Range(zombie_children[p]) :
             x \in Proc /\ live_parent[x] = p /\ x \notin Live(E)
    BY ZombieType DEF FamilyInv, FamilyTreeWith, PcbKept, IsZombieOf
  <2>2. \A x \in Range(zombie_children[p]) : live_parent'[x] = p
    BY <1>3, <1>4, <2>1
  <2>3. CASE p = me
    BY <1>2, <1>3, <2>3, EmptyFacts DEF NoDuplicates
  <2>4. CASE p = parent
    <3>1. zombie_children'[p] = Append(zombie_children[p], me)
      BY <1>2, <1>3, <2>4
    <3>2. /\ Range(zombie_children'[p]) = Range(zombie_children[p]) \cup {me}
          /\ NoDuplicates(zombie_children'[p])
      BY <1>2, <1>5, <2>1, <3>1, ZombieType, AppendFacts DEF IsZombieOf
    <3>3. live_parent'[me] = p
      BY <1>1, <1>2, <1>3, <1>4, <2>4
    <3>4. p \in Live(E)'
      BY <1>2, <2>4, PidFacts
    <3>. QED BY <2>2, <3>2, <3>3, <3>4
  <2>5. CASE p # me /\ p # parent
    BY <1>2, <1>3, <2>1, <2>2, <2>5
  <2>. QED BY <2>3, <2>4, <2>5
<1>10. FamilyTreeWith(E)'
  BY <1>7, <1>8, <1>9 DEF FamilyTreeWith
<1>11. PcbKept(E)'
  <2>1. ASSUME NEW x \in Proc
        PROVE  x \in pcbs' <=> \/ x \in Live(E)'
                               \/ \E p \in Proc : IsZombieOf(x, p)'
                               \/ x \in abandoned_pcbs
    <3>1. x \in pcbs <=> \/ x \in Live(E)
                         \/ \E p \in Proc : IsZombieOf(x, p)
                         \/ x \in abandoned_pcbs
      BY DEF FamilyInv, PcbKept
    <3>2. \A p \in Proc : IsZombieOf(x, p) => live_parent[x] = p /\ x \notin Live(E)
      BY DEF FamilyInv, FamilyTreeWith, PcbKept, IsZombieOf
    <3>3. x \in pcbs' <=> x \in pcbs /\ ~IsZombieOf(x, me) /\ ~(parent = NULL /\ x = me)
      BY <1>3 DEF IsZombieOf
    <3>4. (\E p \in Proc : IsZombieOf(x, p)')
             <=> \/ \E p \in Proc : p # me /\ IsZombieOf(x, p)
                 \/ parent # NULL /\ x = me
      BY <1>2, <1>6, PidFacts
    <3>5. x \in abandoned_pcbs => x # me /\ ~IsZombieOf(x, me)
      BY <1>2 DEF FamilyInv, PcbKept
    <3>. QED BY <1>2, <1>5, <3>1, <3>2, <3>3, <3>4, <3>5
  <2>2. \A x \in Live(E)', p \in Proc : ~IsZombieOf(x, p)'
    BY <1>2, <1>6 DEF FamilyInv, PcbKept
  <2>3. ASSUME NEW x \in abandoned_pcbs
        PROVE  x \notin Live(E)' /\ \A p \in Proc : ~IsZombieOf(x, p)'
    <3>1. x \in Proc /\ x # me
      BY <1>2 DEF FamilyInv, PcbKept, ProcessTypeOK
    <3>. QED BY <1>2, <1>6, <3>1 DEF FamilyInv, PcbKept
  <2>. QED BY <2>1, <2>2, <2>3 DEF PcbKept
<1>12. ForkFresh'
  BY <1>3, PidFacts DEF FamilyInv, ForkFresh
<1>. QED BY <1>10, <1>11, <1>12 DEF FamilyInv

\* A fork that fails leaves a PCB that nobody knows.
LEMMA KernelForkFailsFamily ==
  ASSUME NEW M, NEW P, ProcessTypeOK(M, P), NEW E \in SUBSET Proc, PlaceInv(E),
         FamilyInv(E), KernelForkFails
  PROVE  FamilyInv(E)'
<1>1. PICK c : c = next_pid
  OBVIOUS
<1>2. /\ c \in Proc /\ next_pid' = c + 1 /\ Live(E)' = Live(E)
      /\ pcbs' = pcbs \cup {c} /\ abandoned_pcbs' = abandoned_pcbs \cup {c}
      /\ UNCHANGED <<live_parent, live_children, zombie_children>>
  BY <1>1 DEF KernelForkFails, Live, Running, Waiters, schedVars, clockVars
<1>3. /\ c \notin Live(E) /\ c \notin pcbs
      /\ \A p \in Proc : ~IsZombieOf(c, p)
  BY <1>1, <1>2, PidFacts DEF PlaceInv, Unborn, FamilyInv, ForkFresh, PcbKept
<1>4. FamilyTreeWith(E)'
  BY <1>2 DEF FamilyInv, FamilyTreeWith
<1>5. PcbKept(E)'
  BY <1>2, <1>3 DEF FamilyInv, PcbKept, IsZombieOf
<1>6. ForkFresh'
  BY <1>1, <1>2, PidFacts DEF FamilyInv, ForkFresh, Proc
<1>. QED BY <1>4, <1>5, <1>6 DEF FamilyInv

LEMMA HandlersFamily ==
  ASSUME NEW M, NEW P, ProcessTypeOK(M, P), NEW E \in SUBSET Proc, PlaceInv(E),
         FamilyInv(E), ProcessHandlers
  PROVE  FamilyInv(E)'
<1>0. next_pid \in Nat
  BY ProcessAssumption DEF ProcessTypeOK
<1>1. CASE TrapClock
  <2>1. Live(E)' = Live(E)
    BY <1>1, TrapClockPlace
  <2>2. UNCHANGED familyVars
    BY <1>1 DEF TrapClock
  <2>. QED BY <1>0, <2>1, <2>2, FamilyUnchanged DEF familyVars
<1>2. ASSUME NEW n \in 1..MaxTicks, KernelDelay(n) PROVE FamilyInv(E)'
  <2>1. Live(E)' = Live(E)
    BY <1>2, KernelDelayPlace
  <2>2. UNCHANGED familyVars
    BY <1>2 DEF KernelDelay
  <2>. QED BY <1>0, <2>1, <2>2, FamilyUnchanged DEF familyVars
<1>3. CASE KernelFork
  BY <1>3, KernelForkFamily
<1>4. CASE KernelForkFails
  BY <1>4, KernelForkFailsFamily
<1>5. CASE KernelWaitCollects
  <2>1. Live(E)' = Live(E) /\ current_proc \in Proc
    BY <1>5 DEF KernelWaitCollects, Calling, Live, Running, Waiters, schedVars, clockVars,
                ProcessTypeOK
  <2>. QED BY <1>5, <2>1, CollectFamily DEF KernelWaitCollects
<1>6. CASE KernelWaitBlocks
  BY <1>0, <1>6, KernelWaitBlocksPlace, FamilyUnchanged DEF KernelWaitBlocks
<1>7. CASE KernelWaitReturns
  <2>1. /\ Live(E)' = Live(E) /\ current_proc \in Proc
        /\ UNCHANGED <<abandoned_pcbs, next_pid, live_parent, live_children>>
    BY <1>7 DEF KernelWaitReturns, Resuming, Live, Running, Waiters, schedVars, clockVars,
                ProcessTypeOK
  <2>2. CASE zombie_children[current_proc] = <<>>
    BY <1>0, <1>7, <2>1, <2>2, FamilyUnchanged DEF KernelWaitReturns, Abort
  <2>3. CASE zombie_children[current_proc] # <<>>
    BY <1>7, <2>1, <2>3, CollectFamily DEF KernelWaitReturns
  <2>. QED BY <2>2, <2>3
<1>. QED BY <1>1, <1>2, <1>3, <1>4, <1>5, <1>6, <1>7 DEF ProcessHandlers

LEMMA FamilyInit == ProcessInit => FamilyInv({})
<1>. SUFFICES ASSUME ProcessInit PROVE FamilyInv({})
  OBVIOUS
<1>1. Live({}) = {INIT_PID}
  <2>1. /\ Running = {} /\ Waiters = {} /\ Range(ready_queue) = {INIT_PID}
        /\ Range(clock_block_procs) = {}
    BY EmptyFacts DEF ProcessInit, Running, Waiters, Range
  <2>. QED BY <2>1 DEF Live
<1>2. \A p, c \in Proc : ~IsZombieOf(c, p)
  BY EmptyFacts DEF ProcessInit, IsZombieOf
<1>3. \A p \in Proc : /\ live_parent[p] = NULL /\ live_children[p] = {}
                      /\ zombie_children[p] = <<>>
  BY DEF ProcessInit
<1>4. FamilyTreeWith({})
  <2>1. \A p, c \in Proc : c \in live_children[p] <=> c \in Live({}) /\ live_parent[c] = p
    BY <1>1, <1>3, PidFacts
  <2>2. \A c \in Live({}) : live_parent[c] = NULL
    BY <1>1, <1>3, PidFacts
  <2>3. NoDuplicates(<<>>) /\ Range(<<>>) = {}
    BY EmptyFacts DEF NoDuplicates
  <2>. QED BY <1>3, <2>1, <2>2, <2>3 DEF FamilyTreeWith
<1>5. PcbKept({})
  <2>1. pcbs = {INIT_PID} /\ abandoned_pcbs = {}
    BY DEF ProcessInit
  <2>. QED BY <1>1, <1>2, <2>1, PidFacts DEF PcbKept
<1>6. ForkFresh
  BY <1>3, PidFacts DEF ProcessInit, ForkFresh, INIT_PID
<1>. QED BY <1>4, <1>5, <1>6 DEF FamilyInv

LEMMA FamilyStep ==
  TypeOK /\ PlaceInv({}) /\ FamilyInv({}) /\ [ProcessNext]_processVars => FamilyInv({})'
<1>. SUFFICES ASSUME TypeOK, PlaceInv({}), FamilyInv({}), [ProcessNext]_processVars
              PROVE  FamilyInv({})'
  OBVIOUS
<1>. USE DEF TypeOK
<1>1. CASE ProcessHandlers
  BY <1>1, HandlersFamily
<1>2. CASE KernelExit
  <2>1. current_proc \in Proc /\ current_proc \in Live({})
    BY <1>2 DEF KernelExit, Calling, ProcessTypeOK, Live, Running
  <2>2. Live({})' = Live({}) \ {current_proc}
    BY <1>2, KernelExitPlace
  <2>. QED BY <1>2, <2>1, <2>2, LeaveFamilyFamily DEF KernelExit
<1>3. CASE UNCHANGED <<schedVars, clockVars, familyVars>>
  <2>1. Live({})' = Live({}) /\ next_pid' \in Nat /\ next_pid' >= next_pid
    BY <1>3, ProcessAssumption DEF Live, Running, Waiters, schedVars, clockVars, familyVars,
                                   ProcessTypeOK
  <2>. QED BY <1>3, <2>1, FamilyUnchanged DEF familyVars
<1>. QED BY <1>1, <1>2, <1>3 DEF ProcessNext, processVars

\* Through any births and deaths (KernelFork, KernelExit at SystemCalls.c:247-290,
\* KernelWait) the family pointers agree and lead to no freed PCB, and every PCB is freed
\* but those of live processes, of zombies and of forks that failed
\* (ProcessSpec => []FamilyTree).
THEOREM FamilyTreeAlways == ProcessSpec => []FamilyTree
<1>1. TypeOK /\ FamilyInv({}) => FamilyTree
  BY PcbKeptMeaning DEF FamilyInv, FamilyTree, TypeOK
<1>. QED BY <1>1, FamilyInit, FamilyStep, PlaceInvariant, TypeCorrect, PTL DEF ProcessSpec

-----------------------------------------------------------------------------
(* No wakeup is lost *)

LEMMA WaiterStep ==
  TypeOK /\ PlaceInv({}) /\ FamilyInv({}) /\ WaiterHasLiveChild /\ [ProcessNext]_processVars
    => WaiterHasLiveChild'
<1>. SUFFICES ASSUME TypeOK, PlaceInv({}), FamilyInv({}), WaiterHasLiveChild,
                     [ProcessNext]_processVars,
                     NEW p \in Waiters'
              PROVE  live_children'[p] # {} /\ zombie_children'[p] = <<>>
  BY DEF WaiterHasLiveChild
<1>. USE DEF TypeOK
<1>0. p \in Proc /\ waiting_on_children'[p]
  BY DEF Waiters
<1>1. CASE UNCHANGED <<live_children, zombie_children, waiting_on_children>>
  BY <1>1 DEF WaiterHasLiveChild, Waiters
<1>2. CASE KernelFork
  <2>1. /\ current_proc \in Live({}) /\ next_pid \in Proc /\ current_proc \in Proc
        /\ zombie_children' = zombie_children
        /\ live_children[p] \subseteq live_children'[p]
        /\ p # next_pid
    BY <1>0, <1>2, KernelForkPlace DEF KernelFork, Calling, ProcessTypeOK
  <2>2. p \in Waiters
    BY <1>0, <1>2, <2>1 DEF KernelFork, Waiters, ProcessTypeOK
  <2>. QED BY <2>1, <2>2 DEF WaiterHasLiveChild
<1>3. CASE KernelWaitBlocks
  <2>1. p = current_proc => MustWait
    BY <1>3 DEF KernelWaitBlocks
  <2>2. p # current_proc => p \in Waiters
    BY <1>0, <1>3 DEF KernelWaitBlocks, Waiters, ProcessTypeOK
  <2>. QED BY <1>3, <2>1, <2>2 DEF KernelWaitBlocks, WaiterHasLiveChild, MustWait
<1>4. CASE CollectZombie /\ UNCHANGED <<live_children, waiting_on_children>>
             /\ current_proc # IDLE_PID
  <2>1. p \in Waiters
    BY <1>0, <1>4 DEF Waiters
  <2>2. p # current_proc
    BY <1>4, <2>1 DEF PlaceInv, OnePlaceWith, Running
  <2>. QED BY <1>0, <1>4, <2>1, <2>2 DEF CollectZombie, WaiterHasLiveChild, ProcessTypeOK
<1>5. CASE KernelExit
  <2>1. /\ LeaveFamily(ready_queue) /\ current_proc # IDLE_PID
    BY <1>5 DEF KernelExit, Calling
  <2>2. p \in Waiters /\ p # live_parent[current_proc]
    BY <1>0, <2>1 DEF LeaveFamily, Waiters
  <2>3. p # current_proc
    BY <2>1, <2>2 DEF PlaceInv, OnePlaceWith, Running
  <2>4. live_children'[p] = live_children[p] /\ zombie_children'[p] = zombie_children[p]
    BY <1>0, <2>1, <2>2, <2>3 DEF LeaveFamily
  <2>. QED BY <2>2, <2>4 DEF WaiterHasLiveChild
<1>6. CASE KernelWaitReturns
  <2>1. /\ UNCHANGED <<live_children, waiting_on_children>> /\ current_proc # IDLE_PID
        /\ CollectZombie \/ UNCHANGED zombie_children
    BY <1>6 DEF KernelWaitReturns, Resuming, Abort
  <2>. QED BY <1>1, <1>4, <2>1
<1>7. CASE KernelWaitCollects
  BY <1>4, <1>7 DEF KernelWaitCollects, Calling
<1>8. CASE TrapClock \/ \E n \in 1..MaxTicks : KernelDelay(n)
  BY <1>1, <1>8 DEF TrapClock, KernelDelay, familyVars
<1>9. CASE KernelForkFails
  BY <1>1, <1>9 DEF KernelForkFails
<1>10. CASE UNCHANGED familyVars
  BY <1>1, <1>10 DEF familyVars
<1>. QED BY <1>2, <1>3, <1>5, <1>6, <1>7, <1>8, <1>9, <1>10
         DEF ProcessNext, ProcessHandlers, processVars

\* A parent blocked in KernelWait always has a live child and has missed no zombie
\* (SystemCalls.c:313, SystemCalls.c:276): no wakeup is lost.
THEOREM WaiterHasLiveChildAlways == ProcessSpec => []WaiterHasLiveChild
<1>1. ProcessInit => WaiterHasLiveChild
  BY DEF ProcessInit, WaiterHasLiveChild, Waiters
<1>. QED BY <1>1, WaiterStep, FamilyInit, FamilyStep, PlaceInvariant, TypeCorrect, PTL
         DEF ProcessSpec

-----------------------------------------------------------------------------
(* Delays *)

\* KernelDelay queues a process for one tick at least, and DecrementTicksRemaining takes
\* it out of the queue with the last one.
DelayInv == \A p \in Range(clock_block_procs) : clock_ticks_until_ready[p] >= 1

\* What DelayCountsDown says of a step.
DelaysCounted ==
  \A p \in Range(clock_block_procs) :
    IF p \in Range(clock_block_procs')
    THEN clock_ticks_until_ready[p] - clock_ticks_until_ready'[p] \in {0, 1}
    ELSE clock_ticks_until_ready[p] = 1 /\ p \in Range(ready_queue') \cup {current_proc'}

LEMMA TrapClockDelay ==
  ASSUME NEW M, NEW P, ProcessTypeOK(M, P), NEW E, PlaceInv(E), DelayInv, TrapClock
  PROVE  DelayInv' /\ DelaysCounted
<1>. DEFINE q == clock_block_procs
            left == clock_ticks_until_ready
<1>1. q = clock_block_procs /\ left = clock_ticks_until_ready
  OBVIOUS
<1>2. PICK end \in WalkEnds :
        \E woken \in SublistAt(q, {i \in 1..end : Expires(q[i])}),
           still \in SublistAt(q, DOMAIN q \ {i \in 1..end : Expires(q[i])}) :
          /\ clock_ticks_until_ready' =
               [p \in Proc |-> IF \E i \in 1..end : q[i] = p THEN left[p] - 1 ELSE left[p]]
          /\ clock_block_procs' = still
          /\ SwitchToNextProc(Preempted(ready_queue \o woken))
  BY DEF TrapClock
<1>. HIDE DEF q, left
<1>3. PICK Expired : Expired = {i \in 1..end : Expires(q[i])}
  OBVIOUS
<1>4. PICK woken \in SublistAt(q, Expired), still \in SublistAt(q, DOMAIN q \ Expired) :
          /\ clock_ticks_until_ready' =
               [p \in Proc |-> IF \E i \in 1..end : q[i] = p THEN left[p] - 1 ELSE left[p]]
          /\ clock_block_procs' = still
          /\ SwitchToNextProc(Preempted(ready_queue \o woken))
  BY <1>2, <1>3
<1>5. /\ q \in Seq(Proc) /\ NoDuplicates(q) /\ left \in [Proc -> Int]
      /\ ready_queue \in Seq(Proc) /\ NoDuplicates(ready_queue)
      /\ current_proc \in Proc \cup {IDLE_PID}
      /\ Range(q) \cap (Running \cup Range(ready_queue)) = {}
      /\ Running \cap Range(ready_queue) = {}
  BY <1>1 DEF ProcessTypeOK, PlaceInv, OnePlaceWith
<1>6. Expired \in SUBSET DOMAIN q /\ DOMAIN q \ Expired \in SUBSET DOMAIN q
  BY <1>1, <1>3, <1>5, WalkEndsFacts
<1>7. /\ woken \in Seq(Proc) /\ NoDuplicates(woken)
      /\ Range(woken) = {q[i] : i \in Expired}
  BY <1>4, <1>5, <1>6, SublistFacts
<1>8. Range(still) = {q[i] : i \in DOMAIN q \ Expired}
  BY <1>4, <1>5, <1>6, SublistFacts
<1>9. \A p \in Range(q) : left[p] >= 1 /\ left[p] \in Int /\ p \in Proc
  BY <1>1, <1>5, EmptyFacts DEF DelayInv
<1>10. \A p \in Range(woken) : left[p] = 1 /\ p \in Range(q)
  <2>. SUFFICES ASSUME NEW i \in Expired PROVE left[q[i]] = 1 /\ q[i] \in Range(q)
    BY <1>7
  <2>1. left[q[i]] <= 1
    BY <1>1, <1>3 DEF Expires
  <2>2. q[i] \in Range(q)
    BY <1>6 DEF Range
  <2>. QED BY <1>9, <2>1, <2>2
<1>11. \A p \in Range(still) : /\ clock_ticks_until_ready'[p] >= 1
                               /\ left[p] - clock_ticks_until_ready'[p] \in {0, 1}
  <2>. SUFFICES ASSUME NEW i \in DOMAIN q \ Expired
                PROVE  /\ clock_ticks_until_ready'[q[i]] >= 1
                       /\ left[q[i]] - clock_ticks_until_ready'[q[i]] \in {0, 1}
    BY <1>8
  <2>1. left[q[i]] >= 1 /\ left[q[i]] \in Int /\ q[i] \in Proc
    BY <1>9 DEF Range
  <2>2. CASE \E j \in 1..end : q[j] = q[i]
    <3>1. PICK j \in 1..end : q[j] = q[i]
      BY <2>2
    <3>2. j \in DOMAIN q
      BY <1>1, <1>5, WalkEndsFacts
    <3>3. j = i
      BY <1>5, <3>1, <3>2 DEF NoDuplicates
    <3>4. left[q[i]] > 1
      BY <1>1, <1>3, <2>1, <3>3 DEF Expires
    <3>5. clock_ticks_until_ready'[q[i]] = left[q[i]] - 1
      BY <1>4, <2>1, <2>2
    <3>. QED BY <2>1, <3>4, <3>5
  <2>3. CASE ~ \E j \in 1..end : q[j] = q[i]
    <3>1. clock_ticks_until_ready'[q[i]] = left[q[i]]
      BY <1>4, <2>1, <2>3
    <3>. QED BY <2>1, <3>1
  <2>. QED BY <2>2, <2>3
<1>12. Range(woken) \subseteq Range(ready_queue') \cup {current_proc'}
  <2>1. PICK rq : rq = ready_queue \o woken
    OBVIOUS
  <2>2. Range(ready_queue) \cap Range(woken) = {}
    BY <1>5, <1>10
  <2>3. /\ rq \in Seq(Proc) /\ NoDuplicates(rq)
        /\ Range(rq) = Range(ready_queue) \cup Range(woken)
    BY <1>5, <1>7, <2>1, <2>2, ConcatFacts
  <2>4. Running \cap Range(rq) = {}
    BY <1>5, <1>10, <2>3
  <2>5. /\ Preempted(rq) \in Seq(Proc) /\ NoDuplicates(Preempted(rq))
        /\ Range(Preempted(rq)) = Range(rq) \cup Running
    BY <1>5, <2>3, <2>4, PreemptedType
  <2>6. Running' \cup Range(ready_queue') = Range(Preempted(rq))
    BY <1>4, <2>1, <2>5, SwitchFacts
  <2>7. Running' \subseteq {current_proc'}
    BY DEF Running
  <2>. QED BY <2>3, <2>5, <2>6, <2>7
<1>13. \A p \in Range(q) : p \notin Range(still) => p \in Range(woken)
  <2>. SUFFICES ASSUME NEW i \in DOMAIN q, q[i] \notin Range(still)
                PROVE  q[i] \in Range(woken)
    BY DEF Range
  <2>. QED BY <1>7, <1>8
<1>. QED BY <1>1, <1>4, <1>10, <1>11, <1>12, <1>13 DEF DelayInv, DelaysCounted

LEMMA DelayStep ==
  TypeOK /\ PlaceInv({}) /\ DelayInv /\ [ProcessNext]_processVars => DelayInv' /\ DelaysCounted
<1>. SUFFICES ASSUME TypeOK, PlaceInv({}), DelayInv, [ProcessNext]_processVars
              PROVE  DelayInv' /\ DelaysCounted
  OBVIOUS
<1>1. CASE TrapClock
  BY <1>1, TrapClockDelay DEF TypeOK
<1>2. ASSUME NEW n \in 1..MaxTicks, KernelDelay(n) PROVE DelayInv' /\ DelaysCounted
  <2>1. /\ current_proc \in Proc /\ clock_block_procs \in Seq(Proc)
        /\ clock_ticks_until_ready \in [Proc -> Int]
        /\ current_proc \notin Range(clock_block_procs)
        /\ Range(clock_block_procs) \subseteq Proc
    BY <1>2, PidFacts, EmptyFacts
    DEF TypeOK, ProcessTypeOK, KernelDelay, Calling, PlaceInv, OnePlaceWith, Running
  <2>2. /\ clock_ticks_until_ready' = [clock_ticks_until_ready EXCEPT ![current_proc] = n]
        /\ Range(clock_block_procs') = Range(clock_block_procs) \cup {current_proc}
    BY <1>2, <2>1, AppendFacts DEF KernelDelay
  <2>3. n >= 1
    BY ProcessAssumption
  <2>4. \A p \in Range(clock_block_procs) :
          clock_ticks_until_ready'[p] = clock_ticks_until_ready[p]
                    /\ clock_ticks_until_ready[p] \in Int
    BY <2>1, <2>2
  <2>5. clock_ticks_until_ready'[current_proc] = n
    BY <2>1, <2>2
  <2>. QED BY <2>2, <2>3, <2>4, <2>5 DEF DelayInv, DelaysCounted
<1>3. CASE UNCHANGED clockVars
  <2>1. \A p \in Range(clock_block_procs) : clock_ticks_until_ready[p] \in Int
    BY EmptyFacts DEF TypeOK, ProcessTypeOK
  <2>. QED BY <1>3, <2>1 DEF clockVars, DelayInv, DelaysCounted
<1>4. CASE KernelFork \/ KernelForkFails \/ KernelWaitCollects \/ KernelWaitBlocks
           \/ KernelWaitReturns \/ KernelExit
  BY <1>3, <1>4 DEF KernelFork, KernelForkFails, KernelWaitCollects, KernelWaitBlocks,
                    KernelWaitReturns, KernelExit
<1>5. CASE UNCHANGED processVars
  BY <1>3, <1>5 DEF processVars
<1>. QED BY <1>1, <1>2, <1>3, <1>4, <1>5 DEF ProcessNext, ProcessHandlers

\* A delay ends with its last tick and not before, and no tick counts twice, although the
\* walk over the clock queue may stop anywhere behind an expired delay (Traps.c:107).
THEOREM DelayCountsDownAlways == ProcessSpec => DelayCountsDown
<1>1. ProcessInit => DelayInv
  BY EmptyFacts DEF ProcessInit, DelayInv
<1>2. ProcessSpec => []DelayInv
  BY <1>1, DelayStep, PlaceInvariant, TypeCorrect, PTL DEF ProcessSpec
<1>3. ProcessSpec => [][DelaysCounted]_processVars
  BY <1>2, DelayStep, PlaceInvariant, TypeCorrect, PTL DEF ProcessSpec
<1>. QED BY <1>3, PTL DEF DelayCountsDown, DelaysCounted

=============================================================================
