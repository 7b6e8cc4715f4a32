-------------------------------- MODULE Pipe --------------------------------
(***************************************************************************)
(* Pipes (Pipe.c, KernelPipeInit, KernelPipeRead and KernelPipeWrite in    *)
(* SystemCalls.c) on top of the processes of Process.                      *)
(*                                                                         *)
(* The bytes a program writes are numbered in the order in which it writes *)
(* them.  A write wakes at most one reader; a reader that was woken looks  *)
(* again, because somebody may have read before it ran, and goes to the    *)
(* end of waiting_to_read when it has to wait once more.  A reclaimed pipe *)
(* is no longer found, but it is not freed and its readers stay.           *)
(***************************************************************************)
EXTENDS Resources

CONSTANTS MaxBytes,     \* bound: the bytes written to one pipe
          MaxLen        \* bound: the bytes of one read or write

ASSUME PipeAssumption == MaxBytes \in Nat /\ MaxLen \in Nat \ {0}

VARIABLES
  pipes,                \* ids in the list pipes
  written,              \* how many bytes were ever written
  num_chars_available,
  buffer,               \* a sequence of buffer_capacity bytes; 0 is a byte nobody wrote
  consumed_chars,       \* buffer_ptr - buffer
  waiting_to_read,      \* the process and the list id, which is the length it asked for
  awaited_read,         \* pipe and length of the KernelPipeRead a process is in
  last_read             \* pipe and bytes of the latest PipeCopyIntoUserBuffer

bufferVars == <<written, num_chars_available, buffer, consumed_chars>>
pipeVars == <<next_synch_resource_id, pipes, bufferVars, waiting_to_read, awaited_read,
              last_read>>
vars == <<processVars, pipeVars>>

Lengths == 1..MaxLen
Readers == [proc : Proc, len : Lengths]
NoRead == [pipe |-> NULL, len |-> 0]

\* The types, and with machine the assert of PipeCopyIntoUserBuffer (Pipe.c:33), which never
\* fails: a reader that finds less than it was woken for waits again.
PipeTypeOK ==
  /\ ProcessTypeOK({"running", "halted"}, {"user", "wait", "pipe"})
  /\ ResourcesTypeOK
  /\ pipes \subseteq Ids
  /\ written \in [Ids -> 0..MaxBytes]
  /\ num_chars_available \in [Ids -> Nat]
  /\ buffer \in [Ids -> Seq(0..MaxBytes)]
  /\ consumed_chars \in [Ids -> Nat]
  /\ waiting_to_read \in [Ids -> Seq(Readers)]
  /\ awaited_read \in [Proc -> [pipe : Ids, len : Lengths] \cup {NoRead}]
  /\ last_read \in [pipe : Ids \cup {0}, bytes : Seq(0..MaxBytes)]

PipeInit ==
  /\ ProcessInit
  /\ ResourcesInit
  /\ pipes = {}
  /\ written = [id \in Ids |-> 0]
  /\ num_chars_available = [id \in Ids |-> 0]
  /\ buffer = [id \in Ids |-> <<>>]
  /\ consumed_chars = [id \in Ids |-> 0]
  /\ waiting_to_read = [id \in Ids |-> <<>>]
  /\ awaited_read = [p \in Proc |-> NoRead]
  /\ last_read = [pipe |-> 0, bytes |-> <<>>]

KernelPipeInit ==
  /\ Calling
  /\ NewId
  /\ pipes' = pipes \cup {next_synch_resource_id}
  /\ UNCHANGED <<processVars, bufferVars, waiting_to_read, awaited_read, last_read>>

-----------------------------------------------------------------------------
(* Reading *)

\* assert(len <= p->num_chars_available), and the copy.
PipeCopyIntoUserBuffer(id, len) ==
  IF len <= num_chars_available[id]
  THEN /\ last_read' = [pipe |-> id,
                        bytes |-> SubSeq(buffer[id], consumed_chars[id] + 1,
                                         consumed_chars[id] + len)]
       /\ num_chars_available' = [num_chars_available EXCEPT ![id] = @ - len]
       /\ consumed_chars' =
            [consumed_chars EXCEPT ![id] = IF num_chars_available[id] = len THEN 0 ELSE @ + len]
       /\ UNCHANGED <<machine, written, buffer>>
  ELSE Abort(<<bufferVars, last_read>>)

ReadReturns(id, len) ==
  /\ PipeCopyIntoUserBuffer(id, len)
  /\ pending' = [pending EXCEPT ![current_proc] = "user"]
  /\ awaited_read' = [awaited_read EXCEPT ![current_proc] = NoRead]
  /\ UNCHANGED <<schedVars, waiting_to_read>>

\* One test of the loop's condition.
ReadOrBlock(id, len) ==
  \/ /\ num_chars_available[id] >= len
     /\ ReadReturns(id, len)
  \/ /\ num_chars_available[id] < len
     /\ waiting_to_read' =
          [waiting_to_read EXCEPT ![id] = Append(@, [proc |-> current_proc, len |-> len])]
     /\ pending' = [pending EXCEPT ![current_proc] = "pipe"]
     /\ awaited_read' = [awaited_read EXCEPT ![current_proc] = [pipe |-> id, len |-> len]]
     /\ SwitchToNextProc(ready_queue)
     /\ UNCHANGED <<machine, bufferVars, last_read>>

KernelPipeRead(id, len) ==
  /\ Calling
  /\ id \in pipes
  /\ ReadOrBlock(id, len)
  /\ UNCHANGED <<clockVars, familyVars, next_synch_resource_id, pipes>>

\* Mutant: an if in place of the while.
KernelPipeReadResumesOnce ==
  /\ Resuming("pipe")
  /\ ReadReturns(awaited_read[current_proc].pipe, awaited_read[current_proc].len)
  /\ UNCHANGED <<clockVars, familyVars, next_synch_resource_id, pipes>>

\* A reader that was woken tests the condition again.
KernelPipeReadResumes ==
  /\ Resuming("pipe")
  /\ ReadOrBlock(awaited_read[current_proc].pipe, awaited_read[current_proc].len)
  /\ UNCHANGED <<clockVars, familyVars, next_synch_resource_id, pipes>>

-----------------------------------------------------------------------------
(* Writing *)

PipeSpotsRemaining(id) == Len(buffer[id]) - num_chars_available[id] - consumed_chars[id]

\* Mutant: the old buffer is copied from its start, not from buffer_ptr.
RoomForFromStart(id, len) ==
  IF len > PipeSpotsRemaining(id)
  THEN [start |-> 0,
        bytes |-> [i \in 1..num_chars_available[id] + len |->
                     IF i <= num_chars_available[id] THEN buffer[id][i] ELSE 0]]
  ELSE [start |-> consumed_chars[id], bytes |-> buffer[id]]

\* The buffer and buffer_ptr once there is room for len more bytes: a larger
\* buffer with the unread bytes at its start, or the old one.
RoomFor(id, len) ==
  IF len > PipeSpotsRemaining(id)
  THEN [start |-> 0,
        bytes |-> [i \in 1..num_chars_available[id] + len |->
                     IF i <= num_chars_available[id] THEN buffer[id][consumed_chars[id] + i]
                     ELSE 0]]
  ELSE [start |-> consumed_chars[id], bytes |-> buffer[id]]

\* The part of KernelPipeWrite that fills the buffer, with PipeCopyIntoPipeBuffer.
Fill(id, len) ==
  LET room == RoomFor(id, len)
      end == room.start + num_chars_available[id]
  IN /\ buffer' = [buffer EXCEPT ![id] =
                     [i \in DOMAIN room.bytes |-> IF i \in end + 1..end + len
                                                  THEN written[id] + (i - end)
                                                  ELSE room.bytes[i]]]
     /\ consumed_chars' = [consumed_chars EXCEPT ![id] = room.start]
     /\ num_chars_available' = [num_chars_available EXCEPT ![id] = @ + len]
     /\ written' = [written EXCEPT ![id] = @ + len]

\* Mutant: a reader that asked for all there is gets passed over.
FirstServableStrict(id, n) ==
  {i \in DOMAIN waiting_to_read[id] :
     /\ waiting_to_read[id][i].len < n
     /\ \A j \in 1..i - 1 : waiting_to_read[id][j].len >= n}

\* ListFindFirstLessThanIdAndRemove: the position of the first waiting reader
\* that asked for no more than n bytes, if there is one.
FirstServable(id, n) ==
  {i \in DOMAIN waiting_to_read[id] :
     /\ waiting_to_read[id][i].len <= n
     /\ \A j \in 1..i - 1 : waiting_to_read[id][j].len > n}

\* Mutant: the reader that is woken stays in waiting_to_read.
WakeReaderKeepsEntry(id, n) ==
  \E woken \in SublistAt(waiting_to_read[id], FirstServable(id, n)) :
    /\ ready_queue' = ready_queue \o [i \in DOMAIN woken |-> woken[i].proc]
    /\ UNCHANGED waiting_to_read

WakeReader(id, n) ==
  LET Woken == FirstServable(id, n)
  IN \E woken \in SublistAt(waiting_to_read[id], Woken),
        still \in SublistAt(waiting_to_read[id], DOMAIN waiting_to_read[id] \ Woken) :
       /\ ready_queue' = ready_queue \o [i \in DOMAIN woken |-> woken[i].proc]
       /\ waiting_to_read' = [waiting_to_read EXCEPT ![id] = still]

KernelPipeWrite(id, len) ==
  /\ Calling
  /\ id \in pipes
  /\ written[id] + len <= MaxBytes
  /\ Fill(id, len)
  /\ WakeReader(id, num_chars_available[id] + len)
  /\ UNCHANGED <<machine, current_proc, clockVars, pending, familyVars,
                 next_synch_resource_id, pipes, awaited_read, last_read>>

\* KernelReclaim of a pipe: out of the list, whether or not processes wait to read.
KernelReclaim(id) ==
  /\ Calling
  /\ id \in pipes
  /\ pipes' = pipes \ {id}
  /\ UNCHANGED <<processVars, next_synch_resource_id, bufferVars, waiting_to_read,
                 awaited_read, last_read>>

-----------------------------------------------------------------------------
(* The specification *)

PipeNext ==
  \/ (ProcessHandlers \/ KernelExit) /\ UNCHANGED pipeVars
  \/ KernelPipeInit
  \/ \E id \in Ids, len \in Lengths : KernelPipeRead(id, len)
  \/ KernelPipeReadResumes
  \/ \E id \in Ids, len \in Lengths : KernelPipeWrite(id, len)
  \/ \E id \in Ids : KernelReclaim(id)
  \/ HaltByInit /\ UNCHANGED <<schedVars, clockVars, pending, familyVars, pipeVars>>
  \/ Stopped /\ UNCHANGED vars

\* As in Sync: an interrupt that arrives in the kernel stays pending.
PipeFairness ==
  /\ SF_vars(TrapClock /\ UNCHANGED pipeVars)
  /\ WF_vars(KernelWaitReturns /\ UNCHANGED pipeVars)
  /\ WF_vars(KernelPipeReadResumes)

PipeSpec == PipeInit /\ [][PipeNext]_vars /\ PipeFairness

-----------------------------------------------------------------------------
(* Properties *)

PipeWaiters == {e.proc : e \in UNION {Range(waiting_to_read[id]) : id \in Ids}}

\* A process blocked in KernelPipeRead is in one waiting_to_read, once, and
\* nowhere else, with the length it asked for as its list id; the write that
\* wakes it takes it out (SystemCalls.c:607).  Its PCB is not freed meanwhile.
PipeOnePlace ==
  /\ OnePlaceWith(PipeWaiters)
  /\ NoDanglingPCBWith(PipeWaiters)
  /\ \A id \in Ids : \A i, j \in DOMAIN waiting_to_read[id] :
       i # j => waiting_to_read[id][i].proc # waiting_to_read[id][j].proc
  /\ \A id \in Ids : \A e \in Range(waiting_to_read[id]) :
       pending[e.proc] = "pipe" /\ awaited_read[e.proc] = [pipe |-> id, len |-> e.len]

\* The buffer of a pipe, its growth and the reuse of its start implement a
\* stream: no byte is lost, repeated or read out of order.
Stream == INSTANCE ByteStream WITH
  Streams <- Ids,
  unread <- [id \in Ids |-> SubSeq(buffer[id], consumed_chars[id] + 1,
                                   consumed_chars[id] + num_chars_available[id])],
  delivered <- [from |-> last_read.pipe, bytes |-> last_read.bytes]

PipeIsByteStream == Stream!Spec

\* While only one process reads from a pipe it waits only when there is less in
\* the pipe than it asked for: a write that completes its request wakes it.
SoleReaderNotStranded ==
  \A id \in Ids, p \in Proc :
    [](\A q \in Proc \ {p} : awaited_read[q].pipe # id) =>
    [](\A e \in Range(waiting_to_read[id]) : num_chars_available[id] < e.len)

\* "Block until there are enough chars available" (SystemCalls.c:555): a reader
\* does not stay blocked while there are enough for it.
ReaderWithEnoughRuns ==
  \A id \in Ids : \A e \in Readers :
    (e \in Range(waiting_to_read[id]) /\ num_chars_available[id] >= e.len) ~>
    (e \notin Range(waiting_to_read[id]) \/ num_chars_available[id] < e.len
       \/ machine = "halted")

=============================================================================
