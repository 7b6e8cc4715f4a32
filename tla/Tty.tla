-------------------------------- MODULE Tty --------------------------------
(***************************************************************************)
(* Terminals (Tty.c, KernelTtyRead and KernelTtyWrite in SystemCalls.c,    *)
(* TrapTtyRecieve and TrapTtyTransmit in Traps.c) on top of the processes  *)
(* of Process, with the traps that print a message and kill the process.   *)
(*                                                                         *)
(* The characters typed on a terminal are numbered in the order in which   *)
(* they are typed.  A write goes out in chunks of at most                  *)
(* TERMINAL_MAX_LINE characters; the first process of waiting_to_transmit  *)
(* is the one whose chunk the device is sending.                           *)
(*                                                                         *)
(* The blocks of the kernel heap that serve as tty_receive_buffer and      *)
(* tty_transmit_buffer are modelled one by one, because KernelExit frees   *)
(* pointers that were freed before: the block may belong to another        *)
(* process by then.  What is in a block is not modelled.                   *)
(***************************************************************************)
EXTENDS Process

CONSTANTS NUM_TERMINALS, TERMINAL_MAX_LINE,
          MaxTyped,     \* bound: the characters typed on one terminal
          MaxLines,     \* bound: the lines of one terminal that nobody has read
          Reads,        \* bound: how many characters a read may ask for
          Writes,       \* bound: how many characters a write may have
          Blocks        \* the blocks of the kernel heap that calloc may hand out here

ASSUME TtyAssumption ==
  /\ NUM_TERMINALS \in Nat \ {0} /\ TERMINAL_MAX_LINE \in Nat \ {0}
  /\ MaxTyped \in Nat /\ MaxLines \in Nat
  /\ Reads \subseteq Nat /\ Writes \subseteq Nat
  /\ NULL \notin Blocks

Terminals == 0..NUM_TERMINALS - 1
CONSOLE == 0

VARIABLES
  typed,                 \* how many characters were ever typed
  line_buffers,          \* the lines nobody has read yet
  delivered,             \* the characters that were given to processes
  split_by_read,         \* KernelTtyRead has pushed the rest of a line back
  waiting_to_receive,
  waiting_to_transmit,
  transmitting,          \* the chunk the device is sending
  tty_receive_len,
  tty_receive_buffer,    \* keeps its value when the block is freed
  tty_transmit_len,
  tty_transmit_pointer,  \* the distance from tty_transmit_buffer
  tty_transmit_buffer,   \* keeps its value when the block is freed
  free_blocks,           \* the blocks that calloc may hand out
  misfreed_blocks        \* history: blocks freed by a process that did not own them

inputVars == <<typed, line_buffers, delivered, split_by_read, waiting_to_receive,
               tty_receive_len>>
outputVars == <<waiting_to_transmit, transmitting, tty_transmit_len, tty_transmit_pointer>>
heapVars == <<tty_receive_buffer, tty_transmit_buffer, free_blocks, misfreed_blocks>>
ttyVars == <<inputVars, outputVars, heapVars>>
vars == <<processVars, ttyVars>>

Chunks == [proc : Proc, from : Nat, len : 0..TERMINAL_MAX_LINE]
NoChunk == [proc |-> NULL, from |-> 0, len |-> 0]

\* The types, and with machine the assert of TrapTtyTransmit (Traps.c:310), which never
\* fails.
TtyTypeOK ==
  /\ ProcessTypeOK({"running", "halted", "crashed"}, {"user", "wait", "read", "fatal"})
  /\ typed \in [Terminals -> 0..MaxTyped]
  /\ line_buffers \in [Terminals -> Seq(Seq(1..MaxTyped))]
  /\ delivered \in [Terminals -> Seq(1..MaxTyped)]
  /\ split_by_read \subseteq Terminals
  /\ waiting_to_receive \in [Terminals -> Seq(Proc)]
  /\ waiting_to_transmit \in [Terminals -> Seq(Proc)]
  /\ transmitting \in [Terminals -> Chunks \cup {NoChunk}]
  /\ tty_receive_len \in [Proc -> Nat]
  /\ tty_transmit_len \in [Proc -> Nat]
  /\ tty_transmit_pointer \in [Proc -> Nat]
  /\ tty_receive_buffer \in [Proc -> Blocks \cup {NULL}]
  /\ tty_transmit_buffer \in [Proc -> Blocks \cup {NULL}]
  /\ free_blocks \subseteq Blocks /\ misfreed_blocks \subseteq Blocks

TtyInit ==
  /\ ProcessInit
  /\ typed = [t \in Terminals |-> 0]
  /\ line_buffers = [t \in Terminals |-> <<>>]
  /\ delivered = [t \in Terminals |-> <<>>]
  /\ split_by_read = {}
  /\ waiting_to_receive = [t \in Terminals |-> <<>>]
  /\ waiting_to_transmit = [t \in Terminals |-> <<>>]
  /\ transmitting = [t \in Terminals |-> NoChunk]
  /\ tty_receive_len = [p \in Proc |-> 0]
  /\ tty_transmit_len = [p \in Proc |-> 0]
  /\ tty_transmit_pointer = [p \in Proc |-> 0]
  /\ tty_receive_buffer = [p \in Proc |-> NULL]
  /\ tty_transmit_buffer = [p \in Proc |-> NULL]
  /\ free_blocks = Blocks
  /\ misfreed_blocks = {}

-----------------------------------------------------------------------------
(* The kernel heap *)

\* calloc may return any block that is free.  A block that was freed under its owner is
\* free as well; one that was freed twice may be handed out twice.
Calloc(b) ==
  /\ b \in free_blocks \cup misfreed_blocks
  /\ free_blocks' = free_blocks \ {b}
  /\ UNCHANGED misfreed_blocks

\* By the process that calloc gave it to.
Free(b) ==
  /\ free_blocks' = free_blocks \cup {b}
  /\ UNCHANGED misfreed_blocks

\* calloc gave block b to p, and p has not freed it: it is for the line p reads or the
\* text p writes.
Owns(p, b) ==
  \/ pending[p] = "read" /\ tty_receive_buffer[p] = b
  \/ \E t \in Terminals : p \in Range(waiting_to_transmit[t]) /\ tty_transmit_buffer[p] = b

\* The pointers that KernelExit gives to free.
LeftBuffers == {tty_receive_buffer[current_proc], tty_transmit_buffer[current_proc]} \ {NULL}

\* Those of blocks that are free, or by now another process's.
NotItsOwn == {b \in LeftBuffers : b \in free_blocks \/ \E q \in Proc : Owns(q, b)}

-----------------------------------------------------------------------------
(* Input *)

\* Mutant: never looks for a line.
LineThereNever(t) == FALSE

LineThere(t) == line_buffers[t] # <<>>

\* A line is there.  When it is longer than asked for, what is pushed back is as
\* long as the rest of the line, but it is copied from the start of the line.
ReadLine(t, len) ==
  LET line == Head(line_buffers[t])
      rest == Len(line) - len
  IN /\ LineThere(t)
     /\ IF rest > 0
        THEN /\ delivered' = [delivered EXCEPT ![t] = @ \o SubSeq(line, 1, len)]
             /\ line_buffers' = [line_buffers EXCEPT ![t] = <<SubSeq(line, 1, rest)>> \o Tail(@)]
             /\ split_by_read' = split_by_read \cup {t}
        ELSE /\ delivered' = [delivered EXCEPT ![t] = @ \o line]
             /\ line_buffers' = [line_buffers EXCEPT ![t] = Tail(@)]
             /\ UNCHANGED split_by_read
     /\ UNCHANGED <<schedVars, pending, typed, waiting_to_receive, tty_receive_len, heapVars>>

\* Mutant: a reader that had a buffer before uses that one again.
ReceiveBufferReused(b) ==
  [tty_receive_buffer EXCEPT ![current_proc] = IF @ = NULL THEN b ELSE @]

\* The block that calloc returned is the reader's buffer.
ReceiveBuffer(b) == [tty_receive_buffer EXCEPT ![current_proc] = b]

\* No line: block, with a buffer that the trap handler fills.
AwaitLine(t, len) ==
  /\ ~LineThere(t)
  /\ waiting_to_receive' = [waiting_to_receive EXCEPT ![t] = Append(@, current_proc)]
  /\ tty_receive_len' = [tty_receive_len EXCEPT ![current_proc] = len]
  /\ \E b \in Blocks : Calloc(b) /\ tty_receive_buffer' = ReceiveBuffer(b)
  /\ pending' = [pending EXCEPT ![current_proc] = "read"]
  /\ SwitchToNextProc(ready_queue)
  /\ UNCHANGED <<typed, line_buffers, delivered, split_by_read, tty_transmit_buffer>>

KernelTtyRead(t, len) ==
  /\ Calling
  /\ ReadLine(t, len) \/ AwaitLine(t, len)
  /\ UNCHANGED <<machine, clockVars, familyVars, outputVars>>

\* The reader runs again and frees the buffer; the pointer keeps its value.
KernelTtyReadReturns ==
  /\ Resuming("read")
  /\ pending' = [pending EXCEPT ![current_proc] = "user"]
  /\ Free(tty_receive_buffer[current_proc])
  /\ UNCHANGED <<machine, schedVars, clockVars, familyVars, inputVars, outputVars,
                 tty_receive_buffer, tty_transmit_buffer>>

\* A line of n characters for nobody in particular; an empty one is kept too.
KeepLine(t, n) ==
  /\ waiting_to_receive[t] = <<>>
  /\ line_buffers' =
       [line_buffers EXCEPT ![t] = Append(@, [i \in 1..n |-> typed[t] + i])]
  /\ UNCHANGED <<ready_queue, delivered, waiting_to_receive, tty_receive_len>>

\* How many characters the first i readers of terminal t have asked for.
AskedBy(t) ==
  LET asked[i \in 0..Len(waiting_to_receive[t])] ==
        IF i = 0 THEN 0 ELSE asked[i - 1] + tty_receive_len[waiting_to_receive[t][i]]
  IN asked

\* Mutant: every reader gets its characters from the start of the line, which is
\* kept whole.
RestOfLineFromStart(t, n, taken) == [i \in 1..n - taken |-> typed[t] + i]

\* What is left of a line of n characters once the readers have taken some.
RestOfLine(t, n, taken) == [i \in 1..n - taken |-> typed[t] + taken + i]

\* Mutant: nobody leaves the queue.
StillReadingAll(t, served) == waiting_to_receive[t]

\* Who is left when the first readers have been served.
StillReading(t, served) ==
  SubSeq(waiting_to_receive[t], served + 1, Len(waiting_to_receive[t]))

\* Readers get the characters of the line in turn while there are any left, and
\* what nobody wants becomes a line.
ShareLine(t, n) ==
  LET readers == waiting_to_receive[t]
      asked == AskedBy(t)
      served == Cardinality({i \in DOMAIN readers : asked[i - 1] < n})
      taken == IF asked[served] < n THEN asked[served] ELSE n
  IN /\ readers # <<>>
     /\ ready_queue' = ready_queue \o SubSeq(readers, 1, served)
     /\ waiting_to_receive' = [waiting_to_receive EXCEPT ![t] = StillReading(t, served)]
     /\ tty_receive_len' =
          [p \in Proc |-> IF served > 0 /\ p = readers[served]
                          THEN taken - asked[served - 1] ELSE tty_receive_len[p]]
     /\ delivered' = [delivered EXCEPT ![t] = @ \o [i \in 1..taken |-> typed[t] + i]]
     /\ line_buffers' =
          [line_buffers EXCEPT ![t] = IF taken < n THEN Append(@, RestOfLine(t, n, taken)) ELSE @]

TrapTtyRecieve(t, n) ==
  /\ UserMode
  /\ typed[t] + n <= MaxTyped /\ Len(line_buffers[t]) < MaxLines
  /\ typed' = [typed EXCEPT ![t] = @ + n]
  /\ KeepLine(t, n) \/ ShareLine(t, n)
  /\ UNCHANGED <<machine, current_proc, clockVars, pending, familyVars, split_by_read,
                 outputVars, heapVars>>

-----------------------------------------------------------------------------
(* Output *)

\* TtyTransmit of len characters of p, as many as fit a line.
Chunk(p, from, len) ==
  [proc |-> p, from |-> from,
   len |-> IF TERMINAL_MAX_LINE < len THEN TERMINAL_MAX_LINE ELSE len]

\* Mutant: transmits although the device is busy.
StartsTransmittingAlways(t) == TRUE

\* The process finds the terminal idle.
StartsTransmitting(t) == waiting_to_transmit[t] = <<>>

\* Up to the context switch; then is the rest of the handler.
KernelTtyWriteInternal(t, len, then) ==
  /\ Calling
  /\ tty_transmit_len' = [tty_transmit_len EXCEPT ![current_proc] = len]
  /\ tty_transmit_pointer' = [tty_transmit_pointer EXCEPT ![current_proc] = 0]
  /\ \E b \in Blocks :
       Calloc(b) /\ tty_transmit_buffer' = [tty_transmit_buffer EXCEPT ![current_proc] = b]
  /\ transmitting' =
       [transmitting EXCEPT ![t] = IF StartsTransmitting(t) THEN Chunk(current_proc, 0, len)
                                   ELSE @]
  /\ waiting_to_transmit' = [waiting_to_transmit EXCEPT ![t] = Append(@, current_proc)]
  /\ pending' = [pending EXCEPT ![current_proc] = then]
  /\ SwitchToNextProc(ready_queue)
  /\ UNCHANGED <<machine, clockVars, familyVars, inputVars, tty_receive_buffer>>

KernelTtyWrite(t, len) == KernelTtyWriteInternal(t, len, "user")

\* More of the first writer's text is left.
NextChunk(t) ==
  LET p == Head(waiting_to_transmit[t])
      left == tty_transmit_len[p] - TERMINAL_MAX_LINE
      from == tty_transmit_pointer[p] + TERMINAL_MAX_LINE
  IN /\ tty_transmit_len[p] > TERMINAL_MAX_LINE
     /\ tty_transmit_pointer' = [tty_transmit_pointer EXCEPT ![p] = from]
     /\ tty_transmit_len' = [tty_transmit_len EXCEPT ![p] = left]
     /\ transmitting' = [transmitting EXCEPT ![t] = Chunk(p, from, left)]
     /\ UNCHANGED <<machine, ready_queue, waiting_to_transmit, free_blocks, misfreed_blocks>>

\* Mutants: the next writer's text is not started; the last chunk is sent again.
FirstChunkOfForgotten(t, writers) == NoChunk
FirstChunkOfStale(t, writers) == transmitting[t]

\* The chunk to send when writers is what is left of waiting_to_transmit.
FirstChunkOf(t, writers) ==
  IF writers = <<>> THEN NoChunk
  ELSE LET p == Head(writers) IN Chunk(p, tty_transmit_pointer[p], tty_transmit_len[p])

\* The first writer is done, and the next one's turn comes.
NextWriter(t) ==
  LET p == Head(waiting_to_transmit[t])
      writers == Tail(waiting_to_transmit[t])
  IN /\ tty_transmit_len[p] <= TERMINAL_MAX_LINE
     /\ waiting_to_transmit' = [waiting_to_transmit EXCEPT ![t] = writers]
     /\ ready_queue' = Append(ready_queue, p)
     /\ Free(tty_transmit_buffer[p])
     /\ transmitting' = [transmitting EXCEPT ![t] = FirstChunkOf(t, writers)]
     /\ UNCHANGED <<machine, tty_transmit_len, tty_transmit_pointer>>

\* The device has sent its chunk; assert(!ListEmpty(term.waiting_to_transmit)).
TrapTtyTransmit(t) ==
  /\ UserMode
  /\ transmitting[t] # NoChunk
  /\ IF waiting_to_transmit[t] = <<>>
     THEN Abort(<<ready_queue, outputVars, heapVars>>)
     ELSE NextChunk(t) \/ NextWriter(t)
  /\ UNCHANGED <<current_proc, clockVars, pending, familyVars, inputVars, tty_receive_buffer,
                 tty_transmit_buffer>>

-----------------------------------------------------------------------------
(* Exit *)

\* TrapIllegal, TrapMath and the fatal cases of TrapMemory: the message goes to
\* the console, the process blocks until it is out, and exits.
TrapKills(len) == KernelTtyWriteInternal(CONSOLE, len, "fatal")

Exiting == Calling \/ Resuming("fatal")

\* KernelExit frees both buffers, whose they are by now.  free of a block that is free
\* ends the run or goes unnoticed, depending on the allocator.
TtyExit ==
  /\ Exiting
  /\ current_proc # INIT_PID
  /\ \/ /\ LeaveFamily(ready_queue)
        /\ free_blocks' = free_blocks \cup LeftBuffers
        /\ misfreed_blocks' = misfreed_blocks \cup NotItsOwn
        /\ UNCHANGED <<machine, abandoned_pcbs, next_pid>>
     \/ /\ NotItsOwn # {}
        /\ machine' = "crashed"
        /\ UNCHANGED <<schedVars, familyVars, free_blocks, misfreed_blocks>>
  /\ UNCHANGED <<clockVars, pending, inputVars, outputVars, tty_receive_buffer,
                 tty_transmit_buffer>>

\* Once a block was freed by a process that did not own it, the allocator may stop at
\* any use of the heap, or give the block to a PCB, a list or a line while a process
\* still writes into it: from there on nothing is said about the kernel.
HeapBreaks ==
  /\ machine = "running"
  /\ misfreed_blocks # {}
  /\ machine' = "crashed"
  /\ UNCHANGED <<schedVars, clockVars, pending, familyVars, ttyVars>>

TtyHaltByInit ==
  /\ Exiting
  /\ current_proc = INIT_PID
  /\ machine' = "halted"
  /\ UNCHANGED <<schedVars, clockVars, pending, familyVars, ttyVars>>

\* After the message of a protection fault TrapMemory calls exit of the C library,
\* which ends the kernel.  Which trap a process died in is not kept: either end is
\* possible.
TrapMemoryEndsKernel ==
  /\ Resuming("fatal")
  /\ machine' = "halted"
  /\ UNCHANGED <<schedVars, clockVars, pending, familyVars, ttyVars>>

-----------------------------------------------------------------------------
(* The specification *)

TtyStopped == machine \in {"halted", "crashed"}

TtyNext ==
  \/ ProcessHandlers /\ UNCHANGED ttyVars
  \/ \E t \in Terminals, len \in Reads : KernelTtyRead(t, len)
  \/ KernelTtyReadReturns
  \/ \E t \in Terminals, n \in 0..TERMINAL_MAX_LINE : TrapTtyRecieve(t, n)
  \/ \E t \in Terminals, len \in Writes : KernelTtyWrite(t, len)
  \/ \E t \in Terminals : TrapTtyTransmit(t)
  \/ \E len \in 1..TERMINAL_MAX_LINE : TrapKills(len)
  \/ TtyExit
  \/ HeapBreaks
  \/ TtyHaltByInit
  \/ TrapMemoryEndsKernel
  \/ TtyStopped /\ UNCHANGED vars

\* The devices interrupt for ever; an interrupt that arrives in the kernel stays
\* pending.  The kernel does not stop inside a handler.
TtyFairness ==
  /\ SF_vars(TrapClock /\ UNCHANGED ttyVars)
  /\ WF_vars(KernelWaitReturns /\ UNCHANGED ttyVars)
  /\ WF_vars(KernelTtyReadReturns)
  /\ WF_vars(Resuming("fatal") /\ (TtyExit \/ TtyHaltByInit \/ TrapMemoryEndsKernel))
  /\ \A t \in Terminals : SF_vars(TrapTtyTransmit(t))

TtySpec == TtyInit /\ [][TtyNext]_vars /\ TtyFairness

-----------------------------------------------------------------------------
(* Properties *)

TtyWaiters ==
  UNION {Range(waiting_to_receive[t]) \cup Range(waiting_to_transmit[t]) : t \in Terminals}

\* A process blocked on a terminal is in one of its two queues, once, and nowhere
\* else, and its PCB is not freed, also when it waits to print why it dies.
TtyOnePlace ==
  /\ OnePlaceWith(TtyWaiters)
  /\ NoDanglingPCBWith(TtyWaiters)
  /\ \A t \in Terminals :
       /\ NoDuplicates(waiting_to_receive[t]) /\ NoDuplicates(waiting_to_transmit[t])
       /\ \A u \in Terminals :
            /\ Range(waiting_to_receive[t]) \cap Range(waiting_to_transmit[u]) = {}
            /\ t # u => /\ Range(waiting_to_receive[t]) \cap Range(waiting_to_receive[u]) = {}
                        /\ Range(waiting_to_transmit[t]) \cap Range(waiting_to_transmit[u]) = {}

\* A block that is not free has one owner, a process whose read or write is not over,
\* and a free one has none: no two buffers share a block, none is freed while it is
\* filled or sent, and none is lost.  It holds until an exit has freed a block that was
\* not its own (SystemCalls.c:265), and goes on to hold for the other blocks.  A reader
\* that gets a line has a buffer (assert(waiting_proc->tty_receive_buffer),
\* Traps.c:272).
BuffersOwned ==
  /\ \A b \in Blocks \ misfreed_blocks :
       /\ \A p, q \in Proc : Owns(p, b) /\ Owns(q, b) => p = q
       /\ b \in free_blocks <=> \A p \in Proc : ~Owns(p, b)
  /\ \A t \in Terminals : \A p \in Range(waiting_to_receive[t]) : tty_receive_buffer[p] # NULL

\* Nobody waits for input that is there.
NoIdleInput ==
  \A t \in Terminals : line_buffers[t] # <<>> => waiting_to_receive[t] = <<>>

\* "The first proc has transmitted and is waiting for a TRAP_TTY_TRANSMIT
\* interrupt" (Tty.h:29): the device sends the next characters of the first
\* writer, and is idle only when nobody writes.
FirstIsTransmitting ==
  \A t \in Terminals :
    transmitting[t] = FirstChunkOf(t, waiting_to_transmit[t])

Lines == INSTANCE SequencesExt

\* As many characters as were typed on a terminal have been given to a process or are in
\* a line.  Until KernelTtyRead has split a line of the terminal they are the characters
\* that were typed, in order, however TrapTtyRecieve has shared lines among readers;
\* after that only their number is claimed (InputGivenOnce).
InputConserved ==
  \A t \in Terminals :
    LET all == delivered[t] \o Lines!FlattenSeq(line_buffers[t])
    IN /\ Len(all) = typed[t]
       /\ t \notin split_by_read => all = [i \in 1..typed[t] |-> i]

\* The characters of a write go out in order and in one piece: the device goes on
\* where it stopped until the text is finished, and only then with another one.
OutputContiguous ==
  [][\A t \in Terminals :
       LET old == transmitting[t]
           new == transmitting'[t]
       IN new # old /\ old # NoChunk =>
            \/ new.proc = old.proc /\ new.from = old.from + old.len
            \/ old.len = tty_transmit_len[old.proc] /\ new.from = 0]_vars

\* Every write ends.
TtyWriteReturns ==
  \A p \in Proc, t \in Terminals :
    p \in Range(waiting_to_transmit[t]) ~>
    (p \notin Range(waiting_to_transmit[t]) \/ TtyStopped)

\* "consume as much as is there up to len" (SystemCalls.c:415): what one read has
\* consumed is not given to another one.
InputGivenOnce == \A t \in Terminals : NoDuplicates(delivered[t])

\* "clean up any the rest of the buffers" (SystemCalls.c:264): KernelExit frees
\* what is left, and no block that was freed before or is somebody else's.
ExitFreesTheRest ==
  [][\A p \in Running : p \notin Live(TtyWaiters)' => NotItsOwn = {}]_vars

=============================================================================
