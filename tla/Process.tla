------------------------------ MODULE Process ------------------------------
(***************************************************************************)
(* Processes and their scheduling: the ready queue, the clock queue and    *)
(* the family tree kept in the PCBs (Kernel.c, Traps.c, SystemCalls.c).    *)
(*                                                                         *)
(* The machine has one processor and the kernel is never interrupted, so   *)
(* a trap handler is one step up to the point where it calls               *)
(* SwitchToNextProc.  A handler that has work left when its process is     *)
(* scheduled again leaves it in pending, and that work is the first step   *)
(* of the process when it is current again.                                *)
(***************************************************************************)
EXTENDS KernelLists

CONSTANTS MaxPid,       \* bound: the last pid that is handed out
          MaxTicks      \* bound: the longest delay that is asked for

ASSUME ProcessAssumption == MaxPid \in Nat \ {0} /\ MaxTicks \in Nat \ {0}

IDLE_PID == 0
INIT_PID == 1
NULL == -1
Proc == 1..MaxPid

VARIABLES
  machine,                  \* "running", "halted" by Halt, "aborted" by an assert
  current_proc,             \* pid of the process on the processor
  ready_queue,
  clock_block_procs,        \* processes in KernelDelay
  clock_ticks_until_ready,
  pending,                  \* what is left of the handler a process is in
  pcbs,                     \* PCBs that are allocated
  abandoned_pcbs,           \* history: the PCBs that a failed fork has left behind
  next_pid,
  live_parent,
  live_children,
  zombie_children,
  waiting_on_children

schedVars == <<ready_queue, current_proc>>
clockVars == <<clock_block_procs, clock_ticks_until_ready>>
familyVars == <<pcbs, abandoned_pcbs, next_pid, live_parent, live_children, zombie_children,
                waiting_on_children>>
processVars == <<machine, schedVars, clockVars, pending, familyVars>>

ProcessTypeOK(Machine, Pending) ==
  /\ machine \in Machine
  /\ current_proc \in Proc \cup {IDLE_PID}
  /\ ready_queue \in Seq(Proc)
  /\ clock_block_procs \in Seq(Proc)
  /\ clock_ticks_until_ready \in [Proc -> Int]
  /\ pending \in [Proc -> Pending]
  /\ pcbs \subseteq Proc
  /\ abandoned_pcbs \subseteq Proc
  /\ next_pid \in 2..MaxPid + 1
  /\ live_parent \in [Proc -> Proc \cup {NULL}]
  /\ live_children \in [Proc -> SUBSET Proc]
  /\ zombie_children \in [Proc -> Seq(Proc)]
  /\ waiting_on_children \in [Proc -> BOOLEAN]

\* KernelStart: idle is current, init waits in the ready queue.
ProcessInit ==
  /\ machine = "running"
  /\ current_proc = IDLE_PID
  /\ ready_queue = <<INIT_PID>>
  /\ clock_block_procs = <<>>
  /\ clock_ticks_until_ready = [p \in Proc |-> 0]
  /\ pending = [p \in Proc |-> "user"]
  /\ pcbs = {INIT_PID}
  /\ abandoned_pcbs = {}
  /\ next_pid = INIT_PID + 1
  /\ live_parent = [p \in Proc |-> NULL]
  /\ live_children = [p \in Proc |-> {}]
  /\ zombie_children = [p \in Proc |-> <<>>]
  /\ waiting_on_children = [p \in Proc |-> FALSE]

-----------------------------------------------------------------------------
(* Who runs *)

\* The processor executes user code, so a trap can be taken.
UserMode ==
  /\ machine = "running"
  /\ current_proc # IDLE_PID => pending[current_proc] = "user"

\* A user program is running, so a system call can be made.
Calling == UserMode /\ current_proc # IDLE_PID

\* The kernel goes on with a handler of the current process.
Resuming(what) ==
  /\ machine = "running"
  /\ current_proc # IDLE_PID
  /\ pending[current_proc] = what

\* rq is the ready queue once the handler has made its own additions.
SwitchToNextProc(rq) ==
  IF rq = <<>>
  THEN current_proc' = IDLE_PID /\ ready_queue' = rq
  ELSE current_proc' = Head(rq) /\ ready_queue' = Tail(rq)

\* A failed assert ends the run of the kernel.
Abort(others) == machine' = "aborted" /\ UNCHANGED others

-----------------------------------------------------------------------------
(* The clock *)

\* Mutant: ListPush instead of ListEnqueue.
KernelDelayPushes(clock_ticks) ==
  /\ Calling
  /\ clock_ticks_until_ready' = [clock_ticks_until_ready EXCEPT ![current_proc] = clock_ticks]
  /\ clock_block_procs' = <<current_proc>> \o clock_block_procs
  /\ SwitchToNextProc(ready_queue)
  /\ UNCHANGED <<machine, pending, familyVars>>

KernelDelay(clock_ticks) ==
  /\ Calling
  /\ clock_ticks_until_ready' = [clock_ticks_until_ready EXCEPT ![current_proc] = clock_ticks]
  /\ clock_block_procs' = Append(clock_block_procs, current_proc)
  /\ SwitchToNextProc(ready_queue)
  /\ UNCHANGED <<machine, pending, familyVars>>

\* Mutant: one tick too early.
ExpiresEarly(p) == clock_ticks_until_ready[p] <= 2

\* --clock_ticks_until_ready <= 0
Expires(p) == clock_ticks_until_ready[p] <= 1

\* The clock queue's positions at which ListMap can stop.  The callback frees
\* the node of a process whose delay is over and then allocates one of the same
\* size for the ready queue; ListMap then reads next from the freed node.  With
\* an allocator that hands the same block out again the walk steps to the ready
\* queue's sentinel and ends there, otherwise it goes on.
WalkEnds ==
  {Len(clock_block_procs)} \cup
  {i \in DOMAIN clock_block_procs : Expires(clock_block_procs[i])}

\* Mutants: the idle process is queued too; the current process goes to the front.
PreemptedEvenIdle(rq) == Append(rq, current_proc)
PreemptedInFront(rq) == IF current_proc = IDLE_PID THEN rq ELSE <<current_proc>> \o rq

\* The current process goes behind those that are ready, unless it is idle.
Preempted(rq) == IF current_proc = IDLE_PID THEN rq ELSE Append(rq, current_proc)

TrapClock ==
  /\ UserMode
  /\ \E end \in WalkEnds :
       LET q == clock_block_procs
           Expired == {i \in 1..end : Expires(q[i])}
       IN \E woken \in SublistAt(q, Expired), still \in SublistAt(q, DOMAIN q \ Expired) :
            /\ clock_ticks_until_ready' =
                 [p \in Proc |-> IF \E i \in 1..end : q[i] = p
                                 THEN clock_ticks_until_ready[p] - 1
                                 ELSE clock_ticks_until_ready[p]]
            /\ clock_block_procs' = still
            /\ SwitchToNextProc(Preempted(ready_queue \o woken))
  /\ UNCHANGED <<machine, pending, familyVars>>

-----------------------------------------------------------------------------
(* The family tree *)

\* The parent goes to the ready queue and the child runs first.
KernelFork ==
  /\ Calling
  /\ next_pid \in Proc
  /\ next_pid' = next_pid + 1
  /\ pcbs' = pcbs \cup {next_pid}
  /\ live_children' = [live_children EXCEPT ![current_proc] = @ \cup {next_pid}]
  /\ live_parent' = [live_parent EXCEPT ![next_pid] = current_proc]
  /\ waiting_on_children' = [waiting_on_children EXCEPT ![next_pid] = FALSE]
  /\ ready_queue' = Append(ready_queue, current_proc)
  /\ current_proc' = next_pid
  /\ UNCHANGED <<machine, clockVars, pending, abandoned_pcbs, zombie_children>>

\* No frames for the child's kernel stack or its copy of region 1: the child has
\* its pid and its PCB, and ERROR is returned without freeing the PCB and before any
\* pointer to it is stored.
KernelForkFails ==
  /\ Calling
  /\ next_pid \in Proc
  /\ next_pid' = next_pid + 1
  /\ pcbs' = pcbs \cup {next_pid}
  /\ abandoned_pcbs' = abandoned_pcbs \cup {next_pid}
  /\ UNCHANGED <<machine, schedVars, clockVars, pending, live_parent, live_children,
                 zombie_children, waiting_on_children>>

\* KernelExit by init.
HaltByInit ==
  /\ Calling
  /\ current_proc = INIT_PID
  /\ machine' = "halted"

\* Mutants: the parent is put in the ready queue without asking whether it waits;
\* it is never put there; the children keep their pointer to the dead parent.
NotifiesAlways == live_parent[current_proc] # NULL
NotifiesNever == FALSE
OrphansNobody == {}

\* The parent is blocked in KernelWait.
NotifiesParent ==
  live_parent[current_proc] # NULL /\ waiting_on_children[live_parent[current_proc]]

\* Children whose live_parent is cleared.
Orphans == live_children[current_proc]

\* KernelExit once the locks are released; rq is the ready queue by then.  A process
\* without parent frees its PCB before it switches, and the switch saves the contexts
\* in the PCB all the same (Kernel.c:432, 479).  Nothing is allocated in between, so
\* nobody else has the block yet: the step is the same as if the PCB were freed last,
\* provided that the allocator leaves what is in the middle of a free block alone.
LeaveFamily(rq) ==
  LET me == current_proc
      parent == live_parent[me]
  IN /\ live_parent' = [p \in Proc |-> IF p \in Orphans THEN NULL ELSE live_parent[p]]
     /\ live_children' =
          [p \in Proc |-> CASE p = me     -> {}
                            [] p = parent -> live_children[p] \ {me}
                            [] OTHER      -> live_children[p]]
     /\ zombie_children' =
          [p \in Proc |-> CASE p = me     -> <<>>
                            [] p = parent -> Append(zombie_children[p], me)
                            [] OTHER      -> zombie_children[p]]
     /\ pcbs' = pcbs \ (Range(zombie_children[me]) \cup (IF parent = NULL THEN {me} ELSE {}))
     /\ waiting_on_children' =
          [p \in Proc |-> waiting_on_children[p] /\ p # parent]
     /\ SwitchToNextProc(IF NotifiesParent THEN Append(rq, parent) ELSE rq)

\* KernelExit of a process that owns no lock.
KernelExit ==
  /\ Calling
  /\ current_proc # INIT_PID
  /\ LeaveFamily(ready_queue)
  /\ UNCHANGED <<machine, clockVars, pending, abandoned_pcbs, next_pid>>

\* ListDequeue of the oldest zombie, and free.
CollectZombie ==
  /\ zombie_children' = [zombie_children EXCEPT ![current_proc] = Tail(@)]
  /\ pcbs' = pcbs \ {Head(zombie_children[current_proc])}

KernelWaitCollects ==
  /\ Calling
  /\ zombie_children[current_proc] # <<>>
  /\ CollectZombie
  /\ UNCHANGED <<machine, schedVars, clockVars, pending, abandoned_pcbs, next_pid,
                 live_parent, live_children, waiting_on_children>>

\* Mutant: blocks without looking for zombies first.
MustWaitIgnoringZombies == live_children[current_proc] # {}

MustWait == zombie_children[current_proc] = <<>> /\ live_children[current_proc] # {}

KernelWaitBlocks ==
  /\ Calling
  /\ MustWait
  /\ waiting_on_children' = [waiting_on_children EXCEPT ![current_proc] = TRUE]
  /\ pending' = [pending EXCEPT ![current_proc] = "wait"]
  /\ SwitchToNextProc(ready_queue)
  /\ UNCHANGED <<machine, clockVars, pcbs, abandoned_pcbs, next_pid, live_parent,
                 live_children, zombie_children>>

\* The parent is scheduled again; assert(child).
KernelWaitReturns ==
  /\ Resuming("wait")
  /\ IF zombie_children[current_proc] = <<>>
     THEN Abort(<<zombie_children, pcbs, pending>>)
     ELSE /\ CollectZombie
          /\ pending' = [pending EXCEPT ![current_proc] = "user"]
          /\ UNCHANGED machine
  /\ UNCHANGED <<schedVars, clockVars, abandoned_pcbs, next_pid, live_parent,
                 live_children, waiting_on_children>>

-----------------------------------------------------------------------------
(* The specification *)

\* Every handler of this module but KernelExit, which larger modules extend.
ProcessHandlers ==
  \/ TrapClock
  \/ \E n \in 1..MaxTicks : KernelDelay(n)
  \/ KernelFork
  \/ KernelForkFails
  \/ KernelWaitCollects
  \/ KernelWaitBlocks
  \/ KernelWaitReturns

\* After Halt nothing happens any more.
Stopped == machine = "halted"

ProcessNext ==
  \/ ProcessHandlers
  \/ KernelExit
  \/ HaltByInit /\ UNCHANGED <<schedVars, clockVars, pending, familyVars>>
  \/ Stopped /\ UNCHANGED processVars

\* The clock interrupts for ever, and the kernel never stops inside a handler.
ProcessFairness ==
  /\ WF_processVars(TrapClock)
  /\ WF_processVars(KernelWaitReturns)

ProcessSpec == ProcessInit /\ [][ProcessNext]_processVars /\ ProcessFairness

-----------------------------------------------------------------------------
(* Properties.  Elsewhere is the set of processes that a larger module keeps *)
(* blocked in queues of its own.                                             *)

Running == {current_proc} \ {IDLE_PID}
Waiters == {p \in Proc : waiting_on_children[p]}

Live(Elsewhere) ==
  Running \cup Range(ready_queue) \cup Range(clock_block_procs) \cup Waiters \cup Elsewhere

\* A live process is on the processor, in exactly one queue or in KernelWait:
\* "place the current proc into the correct queue before calling"
\* (Kernel.c:407).  A handler that queued it twice, or switched without
\* queueing it, would run it twice or lose it.
OnePlaceWith(Elsewhere) ==
  /\ NoDuplicates(ready_queue)
  /\ NoDuplicates(clock_block_procs)
  /\ Running \cap Range(ready_queue) = {}
  /\ Range(clock_block_procs) \cap (Running \cup Range(ready_queue)) = {}
  /\ Waiters \cap (Running \cup Range(ready_queue) \cup Range(clock_block_procs)) = {}
  /\ Elsewhere \cap (Running \cup Range(ready_queue) \cup Range(clock_block_procs)
                       \cup Waiters) = {}

\* The pointers between PCBs agree: a live process is in live_children of the
\* process its live_parent points to, which is alive, and a zombie waits in the
\* zombie_children of one live parent.
FamilyTreeWith(Elsewhere) ==
  /\ \A p, c \in Proc : c \in live_children[p] <=>
        c \in Live(Elsewhere) /\ live_parent[c] = p
  /\ \A c \in Live(Elsewhere) : live_parent[c] \in Live(Elsewhere) \cup {NULL}
  /\ \A p \in Proc :
       /\ NoDuplicates(zombie_children[p])
       /\ zombie_children[p] # <<>> => p \in Live(Elsewhere)
       /\ \A c \in Range(zombie_children[p]) : live_parent[c] = p

\* No queue and no family list holds a freed PCB (KernelExit and KernelWait free
\* them), and of those that are allocated only the PCBs of failed forks are out of
\* reach: every other one is that of a live process or of a zombie that its parent
\* can still collect or will free when it exits.
NoDanglingPCBWith(Elsewhere) ==
  LET Zombies == UNION {Range(zombie_children[p]) : p \in Proc}
      Reached == Live(Elsewhere) \cup Zombies
  IN /\ pcbs = Reached \cup abandoned_pcbs
     /\ Live(Elsewhere) \cap Zombies = {}
     /\ Reached \cap abandoned_pcbs = {}

\* The types of the variables of this module.
TypeOK == ProcessTypeOK({"running", "halted", "aborted"}, {"user", "wait"})

\* No process is in two places or twice in a queue.
OnePlace == OnePlaceWith({})

\* The pointers between PCBs agree after any births and deaths, none leads to a freed
\* PCB or to that of a fork that failed, and nothing else is left behind.
FamilyTree == FamilyTreeWith({}) /\ NoDanglingPCBWith({})

\* The assert of KernelWait (SystemCalls.c:326) never fails: a parent that was
\* put in the ready queue finds a zombie when it runs.
AssertsHold == machine # "aborted"

\* No wakeup is lost: a process blocked in KernelWait has a child that will
\* still exit and has no zombie that it missed.
WaiterHasLiveChild ==
  \A p \in Waiters : live_children[p] # {} /\ zombie_children[p] = <<>>

\* A delay ends only when its last tick is counted, and no tick counts twice
\* (DecrementTicksRemaining, Traps.c:107).
DelayCountsDown ==
  [][\A p \in Range(clock_block_procs) :
       IF p \in Range(clock_block_procs')
       THEN clock_ticks_until_ready[p] - clock_ticks_until_ready'[p] \in {0, 1}
       ELSE clock_ticks_until_ready[p] = 1 /\ p \in Range(ready_queue') \cup {current_proc'}
    ]_processVars

\* Round robin starves nobody: whoever is in the ready queue gets the processor.
ReadyRuns ==
  \A p \in Proc : p \in Range(ready_queue) ~> (current_proc = p \/ machine = "halted")

\* Every delay ends, however the walk over the clock queue is cut short.
DelayEnds ==
  \A p \in Proc :
    p \in Range(clock_block_procs) ~> (p \notin Range(clock_block_procs) \/ machine = "halted")

\* A parent blocked in KernelWait returns from it once a child has exited.
WaitReturns ==
  \A p \in Proc :
    (pending[p] = "wait" /\ zombie_children[p] # <<>>) ~>
    (pending[p] = "user" \/ machine = "halted")

\* "decrements the number of ticks remaining for each proc that is waiting from
\* Delay" (Traps.c:106): a clock tick counts for everybody in the clock queue.
EveryTickCounts ==
  [][TrapClock =>
       \A p \in Range(clock_block_procs) :
         clock_ticks_until_ready'[p] = clock_ticks_until_ready[p] - 1]_processVars

=============================================================================
