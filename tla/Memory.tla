------------------------------- MODULE Memory -------------------------------
(***************************************************************************)
(* Virtual memory: the page tables of all processes and of the kernel heap *)
(* (VMem.c, Kernel.c, PCB.c), the calls and traps that change them         *)
(* (KernelFork, KernelExec with LoadProgram, KernelExit, KernelBrk,        *)
(* TrapMemory, SetKernelBrk) and the frames they take and give back.       *)
(*                                                                         *)
(* A place is an entry of some page table; pte says which frame it maps.   *)
(* Physical memory is the set of free frames that FrameSet promises and    *)
(* PMem implements.  Which free frames a call gets is left to Grants, so   *)
(* that nothing here depends on it.                                        *)
(*                                                                         *)
(* Programs are linked to start at page 0 of region 1, with the data       *)
(* behind the text.  Locks, queues and terminals are not in this module:   *)
(* any process that is alive may be the next to run.                       *)
(***************************************************************************)
EXTENDS Integers, FiniteSets

CONSTANTS
  MaxPid,             \* bound: the last pid; init is 1
  NUM_PAGES_REG_1,
  NUM_KERNEL_PAGES,   \* pages of a kernel stack
  MaxHeapPages,       \* pages between the kernel's data and the kernel stack
  Frame,              \* the frames that boot makes available
  NoFrame,            \* an entry that is not valid
  Programs,           \* the executables: pages of text, of data and of the first stack
  Grants(_, _)        \* ways to give frames of a set to the places of another

ASSUME MemoryAssumption ==
  /\ MaxPid \in Nat \ {0}
  /\ NUM_PAGES_REG_1 \in Nat \ {0}
  /\ NUM_KERNEL_PAGES \in Nat \ {0, 1}    \* the copy of a stack maps two pages at once
  /\ MaxHeapPages \in Nat
  /\ IsFiniteSet(Frame)
  /\ NoFrame \notin Frame
  /\ Programs \subseteq [text : Nat, data : Nat, stack : Nat \ {0}]

VARIABLES
  machine,                  \* "running", "halted", "aborted" by an assert, "ended" by exit()
  current_proc,
  status,                   \* "gutted": alive with no program to go back to, "lost": a PCB
                            \* that nothing points to, "dying": about to call KernelExit
  pte,
  free,                     \* the frames in PMem's list
  user_brk_page,
  lowest_user_stack_page,
  kernel_brk_page,          \* counted from its value at boot
  tlb                       \* what the TLB still says of pages of region 1 that were unmapped

memVars == <<machine, current_proc, status, pte, free, user_brk_page,
             lowest_user_stack_page, kernel_brk_page, tlb>>

Proc == 1..MaxPid
INIT_PID == 1
Page == 0..NUM_PAGES_REG_1 - 1
StackPage == 0..NUM_KERNEL_PAGES - 1
HeapPage == 0..MaxHeapPages - 1

User(p, i) == <<"user", p, i>>
UserPages(p, I) == {User(p, i) : i \in I}
Region1(p) == UserPages(p, Page)
KernelStack(p) == {<<"stack", p, i>> : i \in StackPage}
Heap(I) == {<<"heap", 0, i>> : i \in I}
Place == (UNION {Region1(p) \cup KernelStack(p) : p \in Proc}) \cup Heap(HeapPage)

Statuses == {"unborn", "live", "gutted", "dying", "lost", "dead"}
Alive == {p \in Proc : status[p] \in {"live", "gutted", "dying"}}

Valid(x) == pte[x] # NoFrame
FramesOf(P) == {pte[x] : x \in {y \in P : Valid(y)}}
MappedPages(p) == {i \in Page : Valid(User(p, i))}

MemTypeOK ==
  /\ machine \in {"running", "halted", "aborted", "ended"}
  /\ current_proc \in Proc
  /\ status \in [Proc -> Statuses]
  /\ pte \in [Place -> Frame \cup {NoFrame}]
  /\ free \subseteq Frame
  /\ user_brk_page \in [Proc -> Page]
  /\ lowest_user_stack_page \in [Proc -> Page]
  /\ kernel_brk_page \in 0..MaxHeapPages
  /\ tlb \in [Page -> Frame \cup {NoFrame}]

-----------------------------------------------------------------------------
(* Frames and page tables *)

\* An assignment of different frames of S to the places T.
Granted(T, S) ==
  {g \in Grants(T, S) : /\ g \in [T -> S]
                        /\ \A x, y \in T : g[x] = g[y] => x = y}

\* Mutant: the frames that are taken stay in the list.
RemapKeeps(U, T) ==
  \E g \in Granted(T, free \cup FramesOf(U)) :
    /\ pte' = [x \in Place |-> IF x \in T THEN g[x] ELSE IF x \in U THEN NoFrame ELSE pte[x]]
    /\ free' = free \cup FramesOf(U)

\* The entries U are made invalid and their frames released, then each of T gets one.
Remap(U, T) ==
  \E g \in Granted(T, free \cup FramesOf(U)) :
    /\ pte' = [x \in Place |-> IF x \in T THEN g[x] ELSE IF x \in U THEN NoFrame ELSE pte[x]]
    /\ free' = (free \cup FramesOf(U)) \ {g[x] : x \in T}

Enough(n) == n <= Cardinality(free)

Abort ==
  /\ machine' = "aborted"
  /\ UNCHANGED <<current_proc, status, pte, free, user_brk_page, lowest_user_stack_page,
                 kernel_brk_page, tlb>>

NothingCached == [i \in Page |-> NoFrame]

\* Without a flush the TLB may keep the entries of the pages I that current_proc has used;
\* page 0 is flushed with every release, since PMem borrows it (PMem.c:131).
MayStayCached(I) ==
  \E cached \in SUBSET (I \ {0}) :
    tlb' = [i \in Page |-> IF i \in cached /\ tlb[i] = NoFrame
                           THEN pte[User(current_proc, i)] ELSE tlb[i]]

\* A program that is gone can still run from what the TLB kept of it.
Runs ==
  /\ machine = "running"
  /\ \/ status[current_proc] = "live"
     \/ status[current_proc] = "gutted" /\ tlb # NothingCached

UserMode == machine = "running" /\ status[current_proc] \in {"live", "gutted"}

-----------------------------------------------------------------------------
(* Boot *)

\* Mutant: the page behind the stack pointer instead of the page it is in.
LowestStackPageBehind(prog) == NUM_PAGES_REG_1 - prog.stack + 1

LowestStackPage(prog) == NUM_PAGES_REG_1 - prog.stack

PagesOf(prog) ==
  [text |-> 0..prog.text - 1,
   data |-> prog.text..prog.text + prog.data - 1,
   stack |-> LowestStackPage(prog)..NUM_PAGES_REG_1 - 1]

\* Leaves at least one page between heap and stack.
Fits(prog) == prog.stack + prog.text + prog.data < NUM_PAGES_REG_1

AllPagesOf(prog) == PagesOf(prog).text \cup PagesOf(prog).data \cup PagesOf(prog).stack

\* KernelStart has loaded init.
MemInit ==
  /\ machine = "running"
  /\ current_proc = INIT_PID
  /\ status = [p \in Proc |-> IF p = INIT_PID THEN "live" ELSE "unborn"]
  /\ \E prog \in {pr \in Programs : Fits(pr)} :
       LET init == KernelStack(INIT_PID) \cup UserPages(INIT_PID, AllPagesOf(prog)) IN
       \E g \in Granted(init, Frame) :
         /\ pte = [x \in Place |-> IF x \in init THEN g[x] ELSE NoFrame]
         /\ free = Frame \ {g[x] : x \in init}
         /\ user_brk_page =
              [p \in Proc |-> IF p = INIT_PID THEN prog.text + prog.data ELSE 0]
         /\ lowest_user_stack_page =
              [p \in Proc |-> IF p = INIT_PID THEN LowestStackPage(prog) ELSE 0]
  /\ kernel_brk_page = 0
  /\ tlb = NothingCached

-----------------------------------------------------------------------------
(* Switches of the process *)

\* Mutant: the TLB is not flushed.
SwitchToProcUnflushed(p) == current_proc' = p /\ UNCHANGED tlb

SwitchToProc(p) ==
  /\ current_proc' = p
  /\ tlb' = NothingCached

\* A call that blocks, a device or the clock; the same process may come back after idle.
SwitchToNextProc(p) ==
  /\ machine = "running"
  /\ p \in Alive
  /\ SwitchToProc(p)
  /\ UNCHANGED <<machine, status, pte, free, user_brk_page, lowest_user_stack_page,
                 kernel_brk_page>>

-----------------------------------------------------------------------------
(* Fork *)

Table(p) == [i \in Page |-> pte[User(p, i)]]
StackTable(p) == [i \in StackPage |-> pte[<<"stack", p, i>>]]

\* Mutant: the borrowed entry is not put back.
FirstEntryKept(source, borrowed) == borrowed

FirstEntryRestored(source, borrowed) == source

\* What the frames contain when the pages 0..last of source have been copied.  One table
\* has to serve both sides: page 0 is borrowed for the last page, and then each page i is
\* copied through page i + 1, whose own data is copied already.
CopyTableAndData(source, dest, last, contents) ==
  LET CopyPage(table, c, from, to) == [c EXCEPT ![table[to]] = c[table[from]]]
      borrowed == [source EXCEPT ![0] = dest[last]]
      after[i \in 0..last] ==
        IF i = last /\ source[last] = NoFrame THEN [table |-> source, contents |-> contents]
        ELSE IF i = last
        THEN [table |-> FirstEntryRestored(source, borrowed),
              contents |-> CopyPage(borrowed, contents, last, 0)]
        ELSE LET before == after[i + 1]
                 table == [before.table EXCEPT ![i + 1] = dest[i]]
             IN IF before.table[i] = NoFrame THEN before
                ELSE [table |-> table,
                      contents |-> CopyPage(table, before.contents, i, i + 1)]
  IN after[0].contents

\* Both copies of a fork: region 1, then the kernel stack.
CopiesOfFork(source, dest, sourceStack, destStack) ==
  CopyTableAndData(sourceStack, destStack, NUM_KERNEL_PAGES - 1,
    CopyTableAndData(source, dest, NUM_PAGES_REG_1 - 1, [f \in Frame |-> f]))

\* Pids are not used again.
NextPid(c) ==
  /\ status[c] = "unborn"
  /\ \A p \in 1..c - 1 : status[p] # "unborn"

ForkPages(c) == UserPages(c, MappedPages(current_proc))

ForkRunsChild(c) ==
  /\ Enough(NUM_KERNEL_PAGES + Cardinality(ForkPages(c)))
  /\ Remap({}, KernelStack(c) \cup ForkPages(c))
  /\ status' = [status EXCEPT ![c] = status[current_proc]]
  /\ user_brk_page' = [user_brk_page EXCEPT ![c] = user_brk_page[current_proc]]
  /\ lowest_user_stack_page' =
       [lowest_user_stack_page EXCEPT ![c] = lowest_user_stack_page[current_proc]]
  /\ SwitchToProc(c)

\* NULL: the frames of the kernel stack are given back, or kept when it was region 1 that
\* had too few.  The PCB is not freed in either case.
ForkFails(c) ==
  /\ ~Enough(NUM_KERNEL_PAGES + Cardinality(ForkPages(c)))
  /\ Remap({}, IF Enough(NUM_KERNEL_PAGES) THEN KernelStack(c) ELSE {})
  /\ status' = [status EXCEPT ![c] = "lost"]
  /\ IF Enough(NUM_KERNEL_PAGES)
     THEN /\ user_brk_page' = [user_brk_page EXCEPT ![c] = user_brk_page[current_proc]]
          /\ lowest_user_stack_page' =
               [lowest_user_stack_page EXCEPT ![c] = lowest_user_stack_page[current_proc]]
     ELSE UNCHANGED <<user_brk_page, lowest_user_stack_page>>
  /\ UNCHANGED <<current_proc, tlb>>

KernelFork(c) ==
  /\ Runs
  /\ NextPid(c)
  /\ ForkRunsChild(c) \/ ForkFails(c)
  /\ UNCHANGED <<machine, kernel_brk_page>>

-----------------------------------------------------------------------------
(* Exec *)

\* What is mapped when LoadProgram is done or gives up.
Stages(prog) ==
  {{}, PagesOf(prog).text, PagesOf(prog).text \cup PagesOf(prog).data, AllPagesOf(prog)}

\* The segments are mapped in this order while there are frames, a segment that does not
\* fit not at all (VMem.c:52).
LoadedPages(prog, I) ==
  LET room == Cardinality(free \cup FramesOf(Region1(current_proc))) IN
  /\ I \in Stages(prog)
  /\ Cardinality(I) <= room
  /\ \A J \in Stages(prog) : Cardinality(J) <= room => J \subseteq I

ExecSucceeds(prog) ==
  /\ status' = [status EXCEPT ![current_proc] = "live"]
  /\ user_brk_page' = [user_brk_page EXCEPT ![current_proc] = prog.text + prog.data]
  /\ lowest_user_stack_page' =
       [lowest_user_stack_page EXCEPT ![current_proc] = LowestStackPage(prog)]
  /\ tlb' = NothingCached

\* The file is shorter than its header says: the old program counter, the new stack
\* pointer, and SUCCESS because KILL is not ERROR.
ExecKilled ==
  /\ status' = [status EXCEPT ![current_proc] = "gutted"]
  /\ tlb' = NothingCached
  /\ UNCHANGED <<user_brk_page, lowest_user_stack_page>>

\* Too few frames: ERROR, after the old program is gone, and no flush.
ExecFails ==
  /\ status' = [status EXCEPT ![current_proc] = "gutted"]
  /\ MayStayCached(MappedPages(current_proc))
  /\ UNCHANGED <<user_brk_page, lowest_user_stack_page>>

\* A file that is refused (not found, not Fits) changes nothing.
KernelExec(prog) ==
  /\ Runs
  /\ Fits(prog)
  /\ \E I \in Stages(prog) :
       /\ LoadedPages(prog, I)
       /\ Remap(Region1(current_proc), UserPages(current_proc, I))
       /\ IF I = AllPagesOf(prog) THEN ExecSucceeds(prog) \/ ExecKilled ELSE ExecFails
  /\ UNCHANGED <<machine, current_proc, kernel_brk_page>>

-----------------------------------------------------------------------------
(* Brk *)

\* Mutant: the check against the stack is missing.
LeavesBlankPageAlways(new) == TRUE

LeavesBlankPage(new) == new < lowest_user_stack_page[current_proc]

\* The loop asserts that a page is not mapped before it takes a frame for it.
GrowHeap(new) ==
  LET pages == user_brk_page[current_proc]..new - 1
      reached == {i \in pages : Enough(i - user_brk_page[current_proc])} IN
  IF reached \cap MappedPages(current_proc) # {} THEN Abort
  ELSE /\ Enough(Cardinality(pages))       \* or ERROR, and nothing has changed
       /\ Remap({}, UserPages(current_proc, pages))
       /\ user_brk_page' = [user_brk_page EXCEPT ![current_proc] = new]
       /\ UNCHANGED <<machine, current_proc, status, lowest_user_stack_page,
                      kernel_brk_page, tlb>>

\* Down to page 0, data and text included.
ShrinkHeap(new) ==
  LET pages == new..user_brk_page[current_proc] - 1 IN
  IF ~ (pages \subseteq MappedPages(current_proc)) THEN Abort
  ELSE /\ Remap(UserPages(current_proc, pages), {})
       /\ MayStayCached(pages)
       /\ user_brk_page' = [user_brk_page EXCEPT ![current_proc] = new]
       /\ UNCHANGED <<machine, current_proc, status, lowest_user_stack_page,
                      kernel_brk_page>>

\* An address below region 1 wraps around to a page that LeavesBlankPage refuses.
KernelBrk(new) ==
  /\ Runs
  /\ LeavesBlankPage(new)
  /\ \/ new > user_brk_page[current_proc] /\ GrowHeap(new)
     \/ new < user_brk_page[current_proc] /\ ShrinkHeap(new)

\* malloc of the kernel's library, in any call or trap.  What a growth that runs out of
\* frames has mapped stays mapped, but kernel_brk_page is the old one.
GrowKernelHeap(new) ==
  LET pages == kernel_brk_page..new - 1
      reached == {i \in pages : Enough(i - kernel_brk_page)}
      mapped == {i \in pages : Enough(i - kernel_brk_page + 1)} IN
  IF \E x \in Heap(reached) : Valid(x) THEN Abort
  ELSE /\ Remap({}, Heap(mapped))
       /\ kernel_brk_page' = IF mapped = pages THEN new ELSE kernel_brk_page
       /\ UNCHANGED <<machine, current_proc, status, user_brk_page,
                      lowest_user_stack_page, tlb>>

ShrinkKernelHeap(new) ==
  LET pages == Heap(new..kernel_brk_page - 1) IN
  IF \E x \in pages : ~Valid(x) THEN Abort
  ELSE /\ Remap(pages, {})
       /\ kernel_brk_page' = new
       /\ UNCHANGED <<machine, current_proc, status, user_brk_page,
                      lowest_user_stack_page, tlb>>

SetKernelBrk(new) ==
  /\ machine = "running"
  /\ \/ new > kernel_brk_page /\ GrowKernelHeap(new)
     \/ new < kernel_brk_page /\ ShrinkKernelHeap(new)

-----------------------------------------------------------------------------
(* Memory traps and exit *)

\* Mutant: the page right above the heap is taken too.
AboveHeapOrNext(page) == page >= user_brk_page[current_proc]

AboveHeap(page) == page > user_brk_page[current_proc]

IsStackGrowth(page) ==
  page < lowest_user_stack_page[current_proc] /\ AboveHeap(page)

\* The kernel prints a message for the console, which may block, and calls KernelExit.
Dies ==
  /\ status' = [status EXCEPT ![current_proc] = "dying"]
  /\ UNCHANGED <<machine, current_proc, user_brk_page, lowest_user_stack_page,
                 kernel_brk_page, tlb>>

\* From the stack down to the page, each with a frame before the assert that it was free.
GrowStack(page) ==
  LET lowest == lowest_user_stack_page[current_proc]
      pages == {i \in page..lowest - 1 : Enough(lowest - i)} IN
  IF pages \cap MappedPages(current_proc) # {} THEN Abort
  ELSE /\ Remap({}, UserPages(current_proc, pages))
       /\ IF page \in pages
          THEN /\ lowest_user_stack_page' =
                    [lowest_user_stack_page EXCEPT ![current_proc] = page]
               /\ UNCHANGED <<machine, current_proc, status, user_brk_page,
                              kernel_brk_page, tlb>>
          ELSE Dies

\* exit() of the library: the kernel is gone, not the process.
ProtectionFault ==
  /\ machine' = "ended"
  /\ UNCHANGED <<current_proc, status, pte, free, user_brk_page, lowest_user_stack_page,
                 kernel_brk_page, tlb>>

\* The address VMEM_1_LIMIT passes the check of the range, and what lies behind the page
\* table says whether its page is valid; further out the process dies as well.
TrapMemory(page) ==
  /\ UserMode
  /\ \/ page \in MappedPages(current_proc) \cup {NUM_PAGES_REG_1} /\ ProtectionFault
     \/ page \notin MappedPages(current_proc) /\ IsStackGrowth(page) /\ GrowStack(page)
     \/ /\ page \notin MappedPages(current_proc)
        /\ ~IsStackGrowth(page)
        /\ Dies
        /\ UNCHANGED <<pte, free>>

FreedByExit(p) == Region1(p) \cup KernelStack(p)

Halt ==
  /\ machine' = "halted"
  /\ UNCHANGED <<current_proc, status, pte, free, user_brk_page, lowest_user_stack_page,
                 kernel_brk_page, tlb>>

\* A call of Exit, a trap that kills, or the end of Dies.
KernelExit(next) ==
  /\ Runs \/ (machine = "running" /\ status[current_proc] = "dying")
  /\ IF current_proc = INIT_PID THEN Halt
     ELSE /\ next \in Alive \ {current_proc}
          /\ Remap(FreedByExit(current_proc), {})
          /\ status' = [status EXCEPT ![current_proc] = "dead"]
          /\ SwitchToProc(next)
          /\ UNCHANGED <<machine, user_brk_page, lowest_user_stack_page, kernel_brk_page>>

-----------------------------------------------------------------------------

MemNext ==
  \/ \E p \in Proc : SwitchToNextProc(p) \/ KernelFork(p) \/ KernelExit(p)
  \/ \E prog \in Programs : KernelExec(prog)
  \/ \E new \in 0..NUM_PAGES_REG_1 : KernelBrk(new)
  \/ \E new \in 0..MaxHeapPages : SetKernelBrk(new)
  \/ \E page \in 0..NUM_PAGES_REG_1 : TrapMemory(page)

MemSpec == MemInit /\ [][MemNext]_memVars

-----------------------------------------------------------------------------
(* Properties *)

\* Two entries of any page tables never map the same frame, and PMem's list holds exactly
\* the frames that no entry maps.
FramesOnce ==
  /\ \A x, y \in Place : Valid(x) /\ pte[x] = pte[y] => x = y
  /\ \A f \in Frame : f \in free <=> \A x \in Place : pte[x] # f

\* A process that is alive has its whole kernel stack; one that is not has no pages, but for
\* the kernel stack that a failed Fork leaves behind (SystemCalls.c:110).
FramesHaveOwner ==
  /\ \A p \in Alive : \A x \in KernelStack(p) : Valid(x)
  /\ \A p \in Proc \ Alive :
       /\ \A x \in Region1(p) : ~Valid(x)
       /\ status[p] # "lost" => \A x \in KernelStack(p) : ~Valid(x)

\* Forks, failed or not, loads that stop in the middle, growth, shrinking and exit neither
\* share a frame between two uses nor lose one, except in the failed Fork.
FramesPartition == FramesOnce /\ FramesHaveOwner

\* A program has a blank page between its heap and its stack, and nothing but blank pages:
\* "leave at least one page between heap and stack" (LoadProgram.c:136), kept by Brk and by
\* the growth of the stack.
HeapBelowStack ==
  \A p \in Proc : status[p] = "live" =>
    /\ user_brk_page[p] < lowest_user_stack_page[p]
    /\ MappedPages(p) =
         (0..user_brk_page[p] - 1) \cup (lowest_user_stack_page[p]..NUM_PAGES_REG_1 - 1)

\* The asserts of VMem.c and TrapMemory on the valid bits fail only after a growth of the
\* kernel heap that ran out of frames (Kernel.c:178) or for a program that a failed Exec
\* has taken away.
MemAssertsHold ==
  machine = "aborted" =>
    \/ \E i \in HeapPage : i >= kernel_brk_page /\ Valid(<<"heap", 0, i>>)
    \/ status[current_proc] = "gutted"

\* A stale entry of the TLB never leads into the memory of another process that can run.
TlbIsolation ==
  \A i \in Page, p \in Alive \ {current_proc} :
    tlb[i] # NoFrame => \A x \in Region1(p) \cup KernelStack(p) : pte[x] # tlb[i]

\* After a Fork the frame of every page of the child and of its kernel stack contains what
\* the parent's contains, and no other frame has changed, although both sides go through
\* one page table.
CopyIsFaithful ==
  [][\A c \in Proc : status[c] = "unborn" /\ current_proc' = c =>
       LET p == current_proc
           contents == CopiesOfFork(Table(p), Table(c)', StackTable(p), StackTable(c)')
           copies == FramesOf(Region1(c) \cup KernelStack(c))'
       IN /\ \A i \in MappedPages(p) : contents[Table(c)'[i]] = Table(p)[i]
          /\ \A i \in StackPage : contents[StackTable(c)'[i]] = StackTable(p)[i]
          /\ \A f \in Frame \ copies : contents[f] = f]_memVars

\* "[The TLB] must be flushed during a context switch or when changing page tables"
\* (hardware.h:162): when a program runs, the TLB agrees with its page table.
TlbCoherent == UserMode => tlb = NothingCached

=============================================================================
