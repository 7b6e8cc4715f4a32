# THEYNIX in TLA+

THEYNIX is a teaching kernel in C for the Yalnix virtual machine: one processor, a
kernel that is never interrupted while it runs, preemptive round robin among user
processes, and system calls for processes, locks, condition variables, pipes,
terminals and memory. This directory holds TLA+ modules that model the kernel, the
TLC configurations that check them, and proofs that TLAPS checks.

Paths and line numbers below are of the sources in `src/`.

## 1. The system

### Components

| component | state it keeps | operations | correct when |
|---|---|---|---|
| scheduler (`Kernel.c`, `idle.c`) | `current_proc`, `ready_queue`, `idle_proc` | `SwitchToNextProc`, `SwitchToProc`, `KernelStart` | every live process is in one place; nobody in the ready queue starves |
| clock and Delay (`Traps.c:105-136`, `SystemCalls.c` `KernelDelay`) | `clock_block_procs`, `clock_ticks_until_ready` of each PCB | `KernelDelay`, `TrapClock`, `DecrementTicksRemaining` | a delay lasts its ticks and ends |
| processes (`PCB.c`, `KernelFork`, `KernelExit`, `KernelWait`) | the PCBs: `pid`, `live_parent`, `live_children`, `zombie_children`, `waiting_on_children` | fork, exit, wait | the pointers of the family agree; a PCB is freed once and no queue or family list holds a freed one; no wakeup of a waiting parent is lost |
| locks and cvars (`Lock.c`, `CVar.c`, `SystemCalls.c:617-824`) | `locks`, `cvars`, each with `waiting_procs`; `acquired`, `owner_id`; `owned_lock_ids` of a PCB | init, acquire, release, signal, broadcast, wait, reclaim | mutual exclusion; both records of the owner agree; hand-over in order of arrival; an exit passes locks on |
| pipes (`Pipe.c`, `SystemCalls.c:512-615`) | `pipes`: buffer, capacity, `buffer_ptr`, `num_chars_available`, `waiting_to_read` | init, read, write, reclaim | bytes come out once and in order; a reader with enough to read runs |
| terminals (`Tty.c`, `KernelTtyRead`, `KernelTtyWrite`, the two tty traps) | per terminal: `line_buffers`, `waiting_to_receive`, `waiting_to_transmit`; per PCB the two buffers with their lengths | read, write, receive trap, transmit trap | input is neither lost nor repeated; output of a write is contiguous; device idle only if nobody writes; the buffer of a process that waits is its own |
| traps (`Traps.c`) | none | dispatch, fatal traps, stack growth | a fatal trap kills its process and nothing else |
| lists (`List.c`) | nodes, sentinel, table of ids | push, append, dequeue, find, remove, peek, map | behaves as a sequence |
| physical memory (`PMem.c`) | the list of free frames, threaded through the frames | `GetUnusedFrame`, `ReleaseUsedFrame` | no frame is given out twice or lost; frames in use are not written to |
| virtual memory (`VMem.c`, `KernelBrk`, `SetKernelBrk`, stack growth, the copies of Fork) | page tables, `kernel_brk_page`, the breaks, the TLB | map, unmap, copy region 1 | a page is mapped to a frame nobody else has; heap and stack stay apart; a child gets the contents of its parent; the TLB shows nothing of another process |
| argument validation (`SystemCalls.c:41-87`) | none | `ValidateUserArg`, `ValidateUserString` | only memory of the process is touched |
| exec and loader (`LoadProgram.c`) | region 1 | `LoadProgram` | a failed exec leaves a process that can go on or be killed |

The components interact by calls, through shared queues and through traps:

* every handler that blocks puts `current_proc` into a queue of its own component and
  calls `SwitchToNextProc`; every handler that wakes takes a PCB out of such a queue and
  appends it to `ready_queue`;
* `KernelExit` touches nearly everything: it releases locks (which wakes waiters), frees
  terminal buffers, tells the parent, orphans children and frees PCBs and frames;
* fatal traps (`TrapIllegal`, `TrapMath`, part of `TrapMemory`) write to terminal 0, which
  blocks the dying process, and then call `KernelExit`;
* Fork, Exec, Brk, stack growth and the kernel's own `malloc` take frames, and Exit, Exec and
  Brk give them back, all through page tables; any of them may find that there are none;
* locks, cvars and pipes draw their ids from one counter, so that `KernelReclaim` can find
  what an id is by looking in three lists.

### What is hard

The kernel itself is sequential, so nothing interleaves inside a handler. What is hard
is what happens between the two halves of a handler, when a process calls
`SwitchToNextProc` in the middle of it and other processes, the clock and the terminals run
before it goes on: the condition it was woken for may be false again (pipes), the thing
it waited for may be gone (reclaim), its parent or child may have exited (wait), and it
may have to wait once more (cvars). In memory it is what remains when frames run out in the
middle of something, what the TLB still says after a page table has changed, and data
structures that live in the very memory they manage. The complete list, with the line at which each
hazard bites and the properties aimed at it, is `hazards` in `PROJECT.json`.

## 2. The modules

| module | models | extends |
|---|---|---|
| `KernelLists` | lists as sequences, with removal from the middle | |
| `Process` | scheduler, clock, Fork, Exit, Wait | `KernelLists` |
| `Resources` | the counter of resource ids | `Process` |
| `Sync` | locks, cvars, Reclaim, Exit of an owner | `Resources` |
| `Pipe` | pipes | `Resources` |
| `ByteStream` | what a pipe promises (abstract specification) | |
| `Tty` | terminals and the fatal traps | `Process` |
| `Memory` | page tables, breaks and the TLB through Fork, Exec, Brk, stack growth, the kernel heap and Exit | |
| `PMem` | the list of free frames, threaded through the frames | |
| `FrameSet` | what physical memory promises (abstract specification) | |
| `ListNodes` | the nodes, the sentinel and the hash table of `List.c` | |
| `ListSeq` | what a list promises (abstract specification) | |
| `MCProcess`, `MCSync`, `MCPipe`, `MCTty`, `MCMemory` | what TLC runs | the module of that name |
| `MCLists` | the two linked lists in one run | `ListNodes`, `PMem` |
| `KernelListsProofs` | facts about lists | `KernelLists`, `TLAPS` and its libraries |
| `ProcessProofs` | theorems about `Process`: places, the family tree, delays | `Process`, `KernelListsProofs` |
| `SyncProofs` | theorems about `Sync` | `Sync`, `ProcessProofs` |
| `PipeProofs` | theorems about `Pipe` and its refinement of `ByteStream` | `Pipe`, `ProcessProofs` |
| `TtyProofs` | theorems about `Tty` | `Tty`, `ProcessProofs`, `WellFoundedInduction` |
| `MemoryProofs` | theorems about `Memory` | `Memory`, `TLAPS` and its libraries |
| `PMemProofs` | theorems about `PMem` and its refinement of `FrameSet` | `PMem`, `TLAPS` and its libraries |
| `ListNodesProofs` | theorems about `ListNodes` and its refinement of `ListSeq` | `ListNodes`, `TLAPS` and its libraries |

### How state and actions correspond to the code

Variables carry the names of the C globals and PCB fields. A PCB is its pid; a field of
the PCB is a function on `Proc == 1..MaxPid`; `IDLE_PID` and `INIT_PID` are 0 and 1 as in
`Kernel.c`. Lists are sequences of pids or ids from head to sentinel.

A handler is one action up to the point where it calls `SwitchToNextProc`, because the
kernel runs with interrupts off. When there is work left after that call the handler
leaves its name in `pending[p]`, and the rest is a second action, whose name ends in
`Returns` or `Resumes`, which is the first step the process takes when it is `current_proc`
again (`Resuming`). Traps are taken only in user mode (`UserMode`): when the current process
has nothing pending, or is the idle process. A failed `assert` sets `machine` to
`"aborted"`, after which no action is enabled; `Halt` by init sets it to `"halted"`, the
endless loop of `KernelExit` to `"hung"`, and what may follow once a block of the kernel heap was
freed by a process that did not own it to `"crashed"`.

Some points where the model says what the code does rather than what it means to do:

* **ListMap over a list its callback changes** (`List.c:389`, `Traps.c:107-119`). The
  callback of `TrapClock` frees the node `ListMap` stands on and then allocates a node of the
  same size for the ready queue, and `ListMap` reads `next` from the freed node. What is there
  depends on the allocator: the old value, or the sentinel of the ready queue. `WalkEnds` is
  the set of positions at which the walk can stop, and `TrapClock` takes any of them.
* **Reclaim removes before it checks** (`SystemCalls.c:804, 817`): `KernelReclaim` removes
  the resource from its list whatever the call answers.
* **The exit loop peeks and relies on release** (`SystemCalls.c:241-244`): `SyncExit` is one
  step when every release succeeds and `machine = "hung"` otherwise.
* **A read of part of a line pushes the wrong part back** (`SystemCalls.c:426`):
  `RestOfLine` in `Tty`.
* **A Fork that fails leaves a PCB behind** (`SystemCalls.c:98-113`, `PCB.c:43, 66`): it is
  allocated, has used up a pid, and no pointer leads to it. `KernelForkFails` adds it to `pcbs`
  and to the history variable `abandoned_pcbs`.
* **The PCB of an orphan is freed before the switch** (`SystemCalls.c:286`), and `SwitchToProc` then
  saves two contexts into it (`Kernel.c:432, 479`). In between nothing is allocated. The model
  has no saved contexts, and `LeaveFamily` is one step.
* **Exit frees blocks that were freed before** (`SystemCalls.c:265-266`): the pointers
  `tty_receive_buffer` and `tty_transmit_buffer` keep their values when a read (450) or the
  transmit trap (`Traps.c:336`) frees the block. By the time of the exit `calloc` may have
  given that block to another process (444, 468), which waits with it for a terminal. `Tty`
  has the blocks one by one; see below.
* **A protection fault ends the kernel** (`Traps.c:231`): `TrapMemory` calls `exit` of the C
  library where the other fatal traps call `KernelExit` (`TrapMemoryEndsKernel` in `Tty`,
  `ProtectionFault` in `Memory`).
* **Ways to fail of a load**: `LoadProgram` gives region 1 back first. Without frames for
  a segment it returns ERROR, and the process goes on in a program that is gone
  (`ExecFails`); when the file is too short it returns KILL, which `KernelExec` takes for
  success (`ExecKilled`). Both leave the process `"gutted"`.
* **The kernel heap that stops halfway** (`Kernel.c:178`): `GrowKernelHeap` leaves what it has
  mapped and the old `kernel_brk_page`.
* **The address `VMEM_1_LIMIT`** passes the check of the range in `TrapMemory`; as page
  `NUM_PAGES_REG_1` it takes either branch, according to what lies behind the page table.

### The kernel heap in `Tty`

`Blocks` are the blocks that serve as buffers of terminals. `Calloc` gives out any that is free,
and which one it is is left open; `Owns(p, b)` says that `p` is in a read or write for which it
got `b`. An exit frees the blocks its two pointers hold (`LeftBuffers`). Those that are free
already or another process's (`NotItsOwn`) are recorded in `misfreed_blocks`: the block is free
from then on although its owner goes on to use it, and may be given out twice. The
allocator may also stop the kernel, at once (the second branch of `TtyExit`) or at any later
time (`HeapBreaks`): with that step the model also says what comes of a misfreed block that
the kernel gives to a PCB, a list or a line, since from there on nothing is claimed. `BuffersOwned` is
what remains true: every block that no exit has misfreed is free or has one owner.

Assumed is that `calloc` succeeds, also for no bytes, and that it gives out no block that is in
use. There are as many blocks as processes, since a process owns one at most; a block that serves
another part of the kernel in between is, for the terminals, free. What is in a block is not
modelled: `InputConserved` and `OutputContiguous` are about positions in what was typed
and written, and hold whatever a buffer that was misfreed contains by then.

### Memory

A place in `Memory` is an entry of some page table: page `i` of region 1 of process `p`, page
`i` of its kernel stack, or a page of the kernel heap. `pte` gives the frame of each place,
or `NoFrame` when the entry is not valid. A handler is one step, since nothing can come
between the pages that it maps one by one; where it stops in the middle for lack of
frames, the step is what it has done so far. Which of the free frames it gets is left
to `Grants`, so nothing may depend on it: the proofs are for any `Grants`. TLC
gives frames out lowest first or highest first and tells states apart by where frames are,
not by their numbers (`WithoutNumbers`).

`status` says what `Memory` has to know of a process: `"gutted"` is alive with no program to go
back to, `"dying"` was killed by a trap and may block for the console before `KernelExit`,
`"lost"` is a PCB that a failed Fork has left behind. Scheduling is any choice among
those alive.

`tlb` is what the TLB says of pages that have become invalid since the last flush; each of
them may be there or not. Page 0 never is, since every `ReleaseUsedFrame` flushes it.
`CopyTableAndData` is the copy of `CopyRegion1PageTableAndData` and
`CopyKernelStackPageTableAndData` as a recursive function over the pages; what it does to
the contents of the frames is compared with what Fork promises (`CopyIsFaithful`).

`Memory` uses the free frames as a set. `PMem` has the list as the code has it, in the first
two words of each free frame, which its user overwrites once the frame is given out; it
implements `FrameSet`, which is that set. `PMem` assumes that a user writes only into frames it
has (`UserWrites`). After a Brk that shrank the heap a program can still reach a frame it has given
back, until the TLB is flushed (`memory_tlb`); were it to write there, it would write
over the words of the list, and `FreeListThreaded` and `PMemIsFrameSet` would not hold. The two are
properties of the kernel with programs that do not.

### Lists

`ListNodes` has the nodes of one list, with or without hash table. The kernel adds no id
twice to a list with a table (locks, cvars, pipes, children, lock ids of an owner, and writers
under their own id), so neither does `Adds`; to a list without table it may. `ListSeq` is the
sequence with its answers, and `ListIsSequence` says that one implements the other: table
and links never disagree. The other modules use sequences directly.

Data is abstracted: the bytes of a pipe and the characters of a terminal are numbered in
the order in which they enter, so a lost, repeated or swapped one shows. Exit statuses,
saved contexts, trace output and the text of messages are left out. A call that fails
its argument checks changes nothing and is no action.

The operators marked "Mutant" in a comment are what a plausible mistake in the code would
make of the operator below them; each property is known to fail with one of them in its
place (`mutants` in `PROJECT.json`), which shows that the property depends on that code.

### The abstract specifications

`ByteStream` has two actions: `Write` appends the next bytes, `Read` delivers as many as it
asked for from the front. `Pipe` implements it under the mapping at `Stream`: the unread
bytes are `num_chars_available` bytes of the buffer from `consumed_chars` on. The mapping is
where growth of the buffer, the copy to its start and the reset of `buffer_ptr` have to be
right.

`FrameSet` is a set of free frames and the contents of the others: `GetUnusedFrame` answers
one of the set, or ERROR when it is empty, and no operation changes the contents of a
frame that stays in use. `PMem` implements it; the set is that of the history variable
`free_list`, which `FreeListThreaded` ties to the words in the frames.

`ListSeq` is a sequence of items and the answer of the latest call. `ListNodes` implements it;
the sequence is what following `next` from `head` comes by.

## 3. The runs

| run | what it shows | bounds | distinct states |
|---|---|---|---|
| `process` | one place for every process, family tree with no dangling PCB and none out of reach but those of failed forks, the assert of Wait, no lost wakeup, delays end, nobody starves | 4 processes, delays of 1 and 2 ticks | 14 838 |
| `process_tick` | **violated**: a tick counts for every process that is delayed | as above | |
| `sync` | one place, both records of the owner agree, waiters have a live owner, the asserts, the exit loop ends unless a lock was reclaimed, a wait returns with its lock, no barging, no starvation | 3 processes, 2 resources | 102 203 |
| `sync_reclaim` | **violated**: Reclaim refuses what is in use | 2 processes, 1 resource | |
| `pipe` | types with the assert of the copy, one place, the refinement of `ByteStream`, a sole reader is never stranded | 3 processes, 1 pipe, 4 bytes, reads and writes of 1 or 2 | 137 584 |
| `pipe_lost_wakeup` | **violated**: a reader does not stay blocked while there is enough for it | as above with 2 bytes | |
| `tty` | types with the assert of the transmit trap, one place, buffers owned by who waits, no reader waits while there is a line, the device sends the first writer's next chunk, as many characters as were typed, output contiguous, writes return | 2 processes, 1 terminal, lines of 2, 2 characters typed, reads of 1 and 2, writes of 0, 2 and 3, 2 blocks | 515 654 |
| `tty_input` | **violated**: a character is given to one process | as above with reads of 0 to 2, writes of 0 and 3 | |
| `tty_exit` | **violated**: Exit frees only what is not freed yet and nobody else's | as `tty_input` | |
| `memory` | every frame free or in one place, heap below stack, the asserts on valid bits, nothing of another process in the TLB, the copy of Fork | 3 processes, 4 pages of region 1, kernel stacks of 2 pages, 2 pages of kernel heap, 8 frames, programs of 2 and of 3 pages | 910 064 |
| `memory_tlb` | **violated**: the TLB is flushed whenever the page table has changed | as above | |
| `lists` | links, sentinel and table agree; a list is a sequence; the free list is threaded; physical memory is a set of frames | 3 nodes, ids 1 to 3, no table or one of 1 or 2 buckets; 3 frames on both sides of the kernel stack | 54 951 |

**Why the bounds are enough.** Three processes are the smallest number with a holder, a
first and a second waiter, which is what hand-over, barging and lost wakeups are about;
`process` has four so that a grandchild can outlive its parent and grandparent while a
sibling is a zombie, and so that three processes can be delayed when `ListMap` stops
early. Two ids cover a lock with a cvar, two locks, a lock with a reclaimed lock. Four bytes
in portions of one and two make the pipe buffer grow, fill, be read in part, be reset
and grow with bytes in front of `buffer_ptr`. A write of three characters with lines of two
takes two chunks, the second shorter, with another writer behind it; the fatal traps
supply that second writer when the process dies. Two processes and two blocks are enough for an
exit that frees the buffer of the other one; that a block gets two owners takes a
third process, and that a read asks for nothing is in the two violated runs only: both would take
`tty` beyond five minutes, and the theorems about `Tty`, for any numbers, cover them. `MaxPid`, `MaxId`, `MaxBytes` and
`MaxTyped` bound counters that the code never resets; a call that would pass the bound
is not offered.

In `memory` 8 frames are too few for three processes with two pages of stack and two or three of
region 1 each: Fork fails before and after it has a kernel stack, Exec at each segment, Brk,
stack growth and the kernel heap in the middle. Four pages are the smallest region 1 with
text, heap, a blank page and a stack that grows. In `lists` three nodes make a list with
a middle and a chain with a middle; the ids 1 and 3 share a bucket of two. Frames 1, 2, 5 of
`PMem` lie on both sides of the kernel stack (frame 3, and 4 at `KERNEL_STACK_LIMIT`), and are
enough for a list that runs empty and is filled in another order.

**Deadlock** is checked in every run but those of `Memory`, where a halted, aborted or
ended machine has no step left and devices are not modelled. In the others the processor
always has the clock interrupt to take unless the machine is halted, hung or crashed, and those have an explicit stuttering
step. An aborted machine has none, so a failing assert also shows as a deadlock.

**Fairness.** The clock and the terminals interrupt for ever. `Process` needs only weak
fairness of `TrapClock`. In the other modules a process can enter and leave the kernel by
blocking handlers between any two ticks, so that a tick is again and again disabled for a
step; the hardware keeps an interrupt that arrives in the kernel pending and delivers it
on the return to user mode, which is strong fairness of `TrapClock` and of
`TrapTtyTransmit`. Weak fairness of the second half of a handler says that the kernel does
not stop in the middle of one. No system call is fair: a program need not make any.
`LockStarvationFree` therefore assumes, in its left-hand side, that no process keeps a
lock for ever.

### What the violated runs found

1. `process_tick`: a tick that wakes a process can be lost for those behind it in the
   clock queue (`List.c:389`). `DelayEnds` holds all the same: each tick makes progress at
   the front of the queue.
2. `sync_reclaim`: a Reclaim that answers ERROR has removed the resource
   (`SystemCalls.c:804`). An owner that exits after that spins in the kernel
   (`SystemCalls.c:241`); `HungOnlyByReclaim` shows that nothing else leads there.
3. `pipe_lost_wakeup`: a write that is enough for two readers wakes one
   (`SystemCalls.c:607`), and a reader does not wake the next when it leaves bytes behind.
   `SoleReaderNotStranded` shows that a pipe with one reader is safe.
4. `tty_input`: the rest of a line that is pushed back starts at the wrong character
   (`SystemCalls.c:426`). `InputConserved` shows that the number of characters stays right,
   and the characters too as long as `KernelTtyRead` splits no line.
5. `tty_exit`: blocks are freed a second time (`SystemCalls.c:265`), also when they have become
   the buffer of another process. `BuffersOwned` shows that nothing else takes a buffer
   away from a process that waits.
6. `memory_tlb`: a Brk that shrinks the heap (`VMem.c:80`) and an Exec that runs out of frames do
   not flush the TLB, which `hardware.h:161` asks for. `TlbIsolation` shows that what remains is
   gone before another process runs.

## 4. What is proved

TLAPS proves the following for every number of processes and every length of delay,
from `ProcessAssumption` (`MaxPid` and `MaxTicks` are positive naturals) alone, for
`Sync` and `Pipe` also from `ResourcesAssumption` (`MaxId` is a positive natural), for
`Pipe` from `PipeAssumption` (the bounds of bytes and lengths are naturals) and for `Tty` from
`TtyAssumption` (there is a terminal, a line has room for a character, the bounds and the
lengths of reads and writes are naturals, and NULL is no block). For `Memory` it proves
them for every number of processes, pages, frames, every set of programs and every way to choose
frames, from `MemoryAssumption` (finitely many frames, at least two pages of kernel stack, and a
program has at least one page of stack); for `PMem` from `PMemAssumption` (the frames are numbered
by naturals that fit into a word, and the kernel stack lies above the kernel); for `ListNodes`, for
every number of nodes and every size of table, from `ListAssumption` (finitely many nodes, ids that are
naturals, and a sentinel and a NULL that are no nodes).

| theorem | says |
|---|---|
| `TypeCorrect`, `SyncTypeCorrect`, `PipeTypeCorrect`, `TtyTypeCorrect` | every variable keeps its type |
| `OnePlaceAlways`, `SyncOnePlaceAlways`, `PipeOnePlaceAlways`, `TtyOnePlaceAlways` | a live process is in one place; a blocked one is in one queue, once |
| `AssertsHoldAlways`, `SyncAssertsHoldAlways` | no assert of Wait, Acquire or Release fails |
| `FamilyTreeAlways` | the pointers of the family agree, and no queue or list holds a freed PCB, and only those of failed forks are out of reach |
| `WaiterHasLiveChildAlways` | a parent blocked in Wait has a child that will wake it |
| `DelayCountsDownAlways` | a delay counts down tick by tick, and ends with its last one |
| `LockOwnershipAlways` | `owner_id` of a lock and `owned_lock_ids` of its owner agree |
| `WaitersHaveLiveOwnerAlways` | nobody waits for a free lock, and an owner is alive |
| `HungOnlyByReclaimAlways` | only a reclaimed lock keeps `KernelExit` in its loop |
| `NoBargingAlways` | a contended lock goes to the process that has waited longest |
| `ReturnsWithLockAlways` | who blocked for a lock returns as its owner, unless it was reclaimed |
| `PipeImplementsByteStream` | `Pipe` implements `ByteStream` |
| `SoleReaderNotStrandedAlways` | the only reader of a pipe never waits for bytes that are there |
| `BuffersOwnedAlways` | a block that no exit has misfreed is free or the buffer of one process that waits |
| `NoIdleInputAlways` | nobody waits to read while there is a line |
| `InputConservedAlways` | as many characters as were typed are given or kept; they are the ones typed, in order, until a read splits a line |
| `FirstIsTransmittingAlways` | the device sends the first writer's next characters, and is idle only when nobody writes |
| `OutputContiguousAlways` | the text of a write goes out in order and in one piece |
| `MemTypeCorrect`, `PMemTypeCorrect` | every variable keeps its type |
| `FramesPartitionAlways` | no frame is mapped twice or both mapped and free; none is lost but by a failed Fork |
| `HeapBelowStackAlways` | a program has its heap and its stack and a blank page between them |
| `MemAssertsHoldAlways` | the asserts on valid bits fail only after the two failures named there |
| `TlbIsolationAlways` | a stale TLB entry never leads into memory of another process |
| `CopyIsFaithfulAlways` | a child gets the contents of its parent, whatever pages are mapped |
| `FreeListThreadedAlways` | the words of the free frames lead from head to tail and back, if users write only into frames they have |
| `PMemImplementsFrameSet` | `PMem` implements `FrameSet`, if users write only into frames they have |
| `LinksAgreeAlways` | next, prev, sentinel and table of a list agree |
| `ListImplementsSequence` | `ListNodes` implements `ListSeq` |

### The argument for `Process`

`OnePlace` is not inductive: after `KernelFork` the child would be in two places if it had
been in a queue before. `PlaceInv` adds `Unborn`, that a pid which was not handed out yet
is nowhere and has no handler pending. One lemma per handler shows that it keeps
`PlaceInv`; those that end in a context switch go through `PlacesAfterSwitch`, which says
that it is enough to look at the ready queue before the switch.

That `assert(child)` in `KernelWait` holds needs `WokenHasZombie`: a process inside Wait
that is no longer marked as waiting has a zombie. `KernelExit` of the child clears the
mark and appends the zombie in one step, and nobody else takes zombies of the parent.

These lemmas are stated for any sets of machine states and pending handlers and for any
set `Elsewhere` of processes that a larger module keeps in queues of its own, and are
used again for `Sync`, `Pipe` and `Tty`.

`DelayCountsDown` is a property of steps. `DelayInv` says that a process in `clock_block_procs` has
at least one tick left; that it is there once is part of `OnePlace`. `TrapClock` takes a process out exactly when it counts the
last one; a process that the broken walk of `ListMap` has passed over keeps its ticks, which the property
allows and `EveryTickCounts` does not.

### The argument for the family tree

`FamilyInv` is the family tree, `PcbKept` and `ForkFresh`. `PcbKept` is `NoDanglingPCBWith` said of one PCB
at a time: a pid has a PCB exactly while its process is alive or somebody's zombie, never
both, or if its fork failed, and then it is neither. `ForkFresh` says that a pid not handed out yet has no PCB, and that nobody is its own
parent. Fork needs the first, so that the new child is nobody's zombie, and Exit the
second, so that the parent it leaves its status to is not the process itself. Exit is the only
handler that changes more than one process: it orphans the live children, frees the
zombies, and becomes a zombie or is freed; a live process that is in nobody's list
afterwards has no parent. `WaiterHasLiveChild` follows from the guard of blocking (no zombie and a
live child) and from the exit of a child, which clears the mark of its waiting parent when it
moves from the live children to the zombies.

### The argument for `Sync`

`SyncInv` is the conjunction of five parts, inductive relative to `SyncTypeOK`:

* `PlaceInv(Blocked)`, as above with the waiters of locks and cvars elsewhere;
* `QueueInv`: a process in the queue of lock `l` is inside `KernelAcquire` for `l`. A
  process awaits one lock, so no process is in two queues and an exit that passes several
  locks on has a different heir for each (`HeirFacts`);
* `GrantInv`: a process that is inside `KernelAcquire` and in no queue owns what it asked
  for. This is what `assert` finds when the process runs again;
* `HeldInv`: nobody waits for a free lock, so a release that hands a lock over never
  leaves somebody behind;
* `LockOwnership`: the two records of the owner agree. It is needed for itself, and since
  the exit loop releases exactly what the list says.

`UnlockQueues` and `UnlockOwner` say what a release does to the queues and to the owners;
Release and `KernelCvarWait` share them. `WakePlace` and `BlockPlace` say what waking some
processes and blocking the current one do to places. An exit (`PassesOnInv`) wakes the
heirs of all contended locks and then leaves its place like in `Process`
(`LeaveFamilyPlace`). The asserts follow from `GrantInv` and `LockOwnership`
(`LockAsserts`); the owner's being alive needs in addition that no handler but Exit ends
a process and that a process that has exited owns nothing (`OwnerLiveStep`). The two
theorems about steps hold in every state that satisfies `SyncTypeOK` and `SyncInv`.

### The argument for `Pipe`

`PipeInv` joins `PlaceInv` and `FamilyInv`, with the readers of the pipes elsewhere, to the assert of
Wait and two parts:

* `ReadersInv`: an entry of `waiting_to_read` stands for the read its process is inside. Nobody
  waits for two reads, so the reader that a write takes out of the middle of a queue is
  in no queue afterwards;
* `BufferInv`: the unread bytes lie within the buffer and are the last ones written, in
  order. It holds through the copy into a larger buffer, which starts at `buffer_ptr`, and through the
  reset of `buffer_ptr` when everything is read.

From `BufferInv` the unread bytes of a pipe are the stretch of numbers from
`written - num_chars_available + 1` to `written` (`UnreadAll`). A write makes the stretch longer at
its end, a read cuts it at its start, and nothing else changes it: this is the step of
`ByteStream` (`PipeImplementsByteStream`). `SoleReaderNotStranded` assumes that nobody else ever
reads from the pipe; then the queue has at most one entry (`EntryUnique`), which is the first that a
write can serve, so what a write leaves there asks for more than there is.

### The argument for `Tty`

`TtyInv` joins `PlaceInv` and `FamilyInv`, with the readers and writers of all terminals elsewhere, to
the assert of Wait and three parts:

* `QueuesApart`: nobody is in two of the queues or twice in one. What joins a queue is the
  current process, which is in none (`CurrentIdle`), so it is enough to follow one queue
  through a step (`ReaderJoins`, `ReadersLeave` and the like);
* `NoIdleInput`: no line and reader at once. A line that arrives
  is shared among readers whose lengths add up to anything; `ServedFacts` shows that
  as many leave the queue as have been reached before the line ends, that what the last of them gets is no
  negative length, and that nobody is left when part of the line is;
* `OutputInv`: the device sends what is left of the first writer's text, and of the writers
  behind it nothing has gone out. The second half is what makes the next writer
  start at its first character, and is the reason why a write resets
  `tty_transmit_pointer` before it joins the queue.

`InputConserved` looks at `delivered` and all lines at once, joined with `FlattenSeq` of the community
modules. Three lemmas say what happens to the characters: a reader gets the front of the first line
(`ReadLineConserves`), a line is kept whole (`KeepLineConserves`) or shared
(`ShareLineConserves`). `NoIdleInput` is needed for the last: a line that is shared comes when there is
no other, so nothing is delivered out of order. A read that pushes the wrong part back keeps the number of
characters, which is why the first half of the property holds after one as well.

`HeapInv` is about the blocks and rests on `TtyInv`. `BlocksOwned` is the part of `BuffersOwned` that
is inductive once `WaitersHold` says who has a block: whoever is in a read has one in
`tty_receive_buffer`, whoever is in a queue of writers one in `tty_transmit_buffer`, and
nobody is both. So the current process owns nothing when it asks for a block (`AllocatedBlock`), and
exactly one when it or the transmit trap frees it (`ReleasedBlock`). An exit owns nothing,
and every block it frees that was not misfreed before is free or somebody's, by `BlocksOwned` itself: it is
misfreed now, and the blocks that the claim is still about are untouched (`MisfreedBlocks`).

The assert of `TrapTtyTransmit` follows from `OutputInv`: the device is busy only if there is a first
writer (`Transmits`). A process that a fatal trap kills is one more writer on the console with the
rest of its handler pending, and `WriteStep` covers both.

### The argument for `Memory`

`MemInv` is the conjunction of the type invariant, the two parts of `FramesPartition`,
`HeapBelowStack`, `MemAssertsHold`, `TlbIsolation` and `HeapMapped`: the kernel heap is mapped
up to `kernel_brk_page`. `HeapMapped` is what makes a shrinking kernel heap pass its asserts.

Every change of page tables in the module is a `Remap(U, T)`: entries `U` become invalid and
entries `T` get frames. `RemapFacts` says once what follows when the entries of `T` were invalid
or in `U`: the frames still have one use each, and nothing else has moved (`Moved`).
`OwnStep` takes this to the calls that change the pages of the current process (Exec, Brk, stack
growth), and `ChildStep` to Fork, where the pages are those of a process that had none.
`TlbIsolation` survives a Brk because what the TLB may keep was the frame of a page of the
current process, which is now free and in nobody's page table, and survives the next growth of
anything because a growth within the process leaves the others as they are, and one that gives
a frame to another process switches to it and flushes. `HeapBelowStack` needs the number of
pages of a program that `Fits`, from the loader's own check (`ProgramPages`).

`CopyIsFaithful` is about what `CopyRegion1PageTableAndData` computes (`Kernel.c:323`): in a temporary copy
of the source's page table it maps the target frame of page `i` at `i + 1` (that
of the last page at 0), over the source's entry, and so works from the last page down.
`CopyReachesAll` follows the walk by the first page at which the claim would fail (`FirstFails`): the
entries still to be read are those of the source, the pages passed have their contents, and no
other frame has changed. It needs `CanCopy`: the target's frames are distinct from each other and
from every frame that is read, and each page with a source has a target. `ForkTables` shows this
of the tables of a Fork with `FramesPartition`, and `ForkIsFaithful` applies the lemma twice, to
region 1 and to the kernel stack. `CopyInv` excludes a region 1 of a single page, where no process
can exist, and says that a process becomes current for the first time only by a Fork (`NewIsForked`).

### The argument for `PMem`

`PMemInv` is `FreeListThreaded` with the types and the fact that frames which the boot loops
have still to add are not in the list. A release touches the words of the old tail and of
the new frame: the first is the last of the list, whose `next` nobody has used yet, and the
second is not in the list. A user writes only into frames outside. The refinement then needs
three things (`PMemImplementsFrameSet`): the frame given out is the first of the sequence, the
set of the sequence loses or gains exactly that frame, and the words of the frames that stay
outside are unchanged.

### The argument for `ListNodes`

`ListInv` says that there is a path `p`, a sequence of nodes that no node is in twice, such that
`next` leads over `p` from `head` to the sentinel (`Leads`), `prev` leads back, the sentinel knows the
last node, and no other node is allocated; that there is such a path for every bucket of the
table, along `hash_collission_next` to NULL, over exactly the nodes whose ids belong into the
bucket; and that no two nodes of a list with a table have one id. The paths are the
witnesses that make the rest a matter of sequences. `WalkFacts` shows that what the loops of the code,
written as `Walk`, come by is the path; this is where it matters that a path is no longer
than there are nodes (`PathLength`), so that `Walk` is not cut off.

Each way to change a path is a lemma about pointers alone: a node is put in front
(`PushLeads`), behind (`AppendLeads`), or skipped (`SkipLeads`). `HashAdd` and `HashRemove` use
them for the chain of one bucket and show that the others keep theirs, for which buckets must
hold different nodes. `PushPlaced`, `AppendPlaced` and `Drops` use them for the list itself.
`ListRemoveNode` takes the id out of the table and then, for the first node, calls `ListDequeue`, which
takes it out again: `Cuttable` is what holds before both, so that one lemma serves the second call
as well.

For the refinement, an item is what is in a node, and the items of `<<ln>> \o p`, `Append(p, ln)` and
`RemoveAt(p, i)` are those of `p` with one more or less (`PushItems`, `AppendItems`,
`RemovedItems`). That a chain finds the item that the sequence finds first needs the unique ids
(`FindNodeFacts`); without a table both are the first along the path. That
`ListFindFirstLessThanIdAndRemove` removes the node whose data it returns, although it calls
`ListRemoveById` with the id alone, is `FindFirstLessFacts`: a node in front with the same id would have
been found before.

### What is only model-checked

The liveness properties and whatever else depends on fairness or ENABLED are out of this prover's reach
and are checked by TLC alone (`ReadyRuns`, `DelayEnds`, `WaitReturns`, `LockStarvationFree`,
`TtyWriteReturns`). So is induction over data; every invariant that the runs check could be proved
without it, in three ways. `KernelLists` writes removal from the middle as a choice of an increasing
enumeration of positions, so that for a step
`\E still \in SublistAt(q, S)` it suffices to know what every element of that set is like.
About a function that recurs over the positions of a queue, like `AskedBy`, or over a path, like the one
in `Walk`, a claim can be proved by the least position at which it fails (`LeastFacts`), and so can that
such a function exists (`AskedFacts`). And what `FlattenSeq` makes of the lines of a terminal follows from
how it treats a first and a last line, which again is a statement about a least position.

## 5. Not modelled

* **Argument validation** (`SystemCalls.c:41-87`): it reads a page table and changes
  nothing, and a call that it refuses changes nothing either. Every model begins behind it,
  with arguments that passed.
* **The file of a program and its arguments** (`LoadProgram.c`, second half): what is read into
  the pages and the protections they get. That the file is too short is an outcome of
  `KernelExec`.
* **The over-long `memcpy` of `KernelTtyRead`** (`SystemCalls.c:418` copies `len`
  characters even if the line is shorter): reads memory behind the line, which the model of
  lines does not contain. The reader gets the length of the line, so what is behind it
  is not input.
* **The frame at `KERNEL_STACK_LIMIT`** (`PMem.c:51`) is never given out: `PMem` has it so
  (`BootFrames`), and nothing says how many frames there ought to be.
* **What `KernelExit` still needs of its kernel stack** after it has released its frames
  (`SystemCalls.c:272`): which words those are is the compiler's choice.
* **The user programs** in `theynix_tests` and `cs58_tests`: the models let every process make
  every call at any time.

`Memory` and the modules of processes, locks, pipes and terminals share no state but the set of
processes that are alive, and are checked apart: `Process` allows Fork to fail at any time
(`KernelForkFails`), and `Memory` allows any switch at any time.

## 6. Plan

Done: 1 to 11. Every invariant, every action property and every refinement that a run checks is
also proved; what remains with TLC is liveness.

1. `Process` (most important: every other component relies on it), its run and proofs.
2. `Sync`, with Reclaim and the exit of an owner.
3. `Pipe` and its abstract specification.
4. `Tty` with the fatal traps.
5. Proofs of `Sync`: types, one place, agreement of the two records of the owner, the
   asserts; the lemmas of `ProcessProofs` take the set of processes blocked elsewhere as a
   parameter for this.
6. `Memory`, `PMem` and `FrameSet`.
7. `ListNodes`, implementing `ListSeq`.
8. Proofs of `Memory` and `PMem`.
9. Proofs of the family tree and of `Pipe`, with its refinement of `ByteStream`.
10. Proofs of `Tty`.
11. Proofs of the delays, of the input of terminals and of `ListNodes`, with its refinement of
    `ListSeq`.
