----------------------------- MODULE PipeProofs -----------------------------
(***************************************************************************)
(* Theorems about Pipe, for every number of processes and of pipes and     *)
(* every bound on what is written and read.                                *)
(***************************************************************************)
EXTENDS Pipe, ProcessProofs

-----------------------------------------------------------------------------
(* The buffers *)

\* The n bytes that were written after the first a.
Stretch(a, n) == [i \in 1..n |-> a + i]

BufferTypes ==
  /\ written \in [Ids -> 0..MaxBytes]
  /\ num_chars_available \in [Ids -> Nat]
  /\ buffer \in [Ids -> Seq(0..MaxBytes)]
  /\ consumed_chars \in [Ids -> Nat]
  /\ last_read \in [pipe : Ids \cup {0}, bytes : Seq(0..MaxBytes)]

\* The unread bytes of a pipe lie inside its buffer, and they are the last ones written.
BufferInv ==
  \A id \in Ids :
    /\ consumed_chars[id] + num_chars_available[id] <= Len(buffer[id])
    /\ num_chars_available[id] <= written[id]
    /\ \A i \in 1..num_chars_available[id] :
         buffer[id][consumed_chars[id] + i] = (written[id] - num_chars_available[id]) + i

\* A part of a sequence.
LEMMA SliceFacts ==
  ASSUME NEW S, NEW b \in Seq(S), NEW c \in Nat, NEW n \in Nat, c + n <= Len(b)
  PROVE  SubSeq(b, c + 1, c + n) = [i \in 1..n |-> b[c + i]]
<1>1. Len(b) \in Nat /\ DOMAIN b = 1..Len(b) /\ \A i \in 1..Len(b) : b[i] \in S
  OBVIOUS
<1>2. \A i \in c + 1..c + n : b[i] \in S
  <2>. SUFFICES ASSUME NEW i \in c + 1..c + n PROVE b[i] \in S
    OBVIOUS
  <2>1. i \in 1..Len(b)
    BY <1>1
  <2>. QED BY <1>1, <2>1
<1>0. PICK q : q = SubSeq(b, c + 1, c + n)
  OBVIOUS
<1>3. /\ q \in Seq(S)
      /\ Len(q) = IF c + 1 <= c + n THEN ((c + n) - (c + 1)) + 1 ELSE 0
      /\ \A i \in 1..((c + n) - (c + 1)) + 1 : q[i] = b[(c + 1) + (i - 1)]
  <2>1. c + 1 \in Int /\ c + n \in Int
    OBVIOUS
  <2>. QED BY <1>0, <1>2, <2>1, SubSeqProperties
<1>4. Len(q) = n
  BY <1>3
<1>5. ASSUME NEW i \in 1..n PROVE q[i] = b[c + i]
  <2>1. i \in 1..((c + n) - (c + 1)) + 1 /\ (c + 1) + (i - 1) = c + i
    OBVIOUS
  <2>. QED BY <1>3, <2>1
<1>6. q = [i \in 1..Len(q) |-> q[i]]
  <2>1. q \in Seq(S)
    BY <1>3
  <2>2. q \in [1..Len(q) -> S]
    BY <2>1, LenProperties
  <2>. QED BY <2>2
<1>. QED BY <1>0, <1>4, <1>5, <1>6

\* The first n unread bytes.
LEMMA UnreadFacts ==
  ASSUME BufferTypes, BufferInv, NEW id \in Ids, NEW n \in 0..num_chars_available[id]
  PROVE  /\ SubSeq(buffer[id], consumed_chars[id] + 1, consumed_chars[id] + n)
              = Stretch(written[id] - num_chars_available[id], n)
         /\ Stretch(written[id] - num_chars_available[id], n) \in Seq(0..MaxBytes)
<1>1. /\ buffer[id] \in Seq(0..MaxBytes) /\ consumed_chars[id] \in Nat
      /\ num_chars_available[id] \in Nat /\ written[id] \in 0..MaxBytes /\ n \in Nat
      /\ MaxBytes \in Nat
  BY PipeAssumption DEF BufferTypes
<1>2. PICK b, c, a : b = buffer[id] /\ c = consumed_chars[id]
                     /\ a = written[id] - num_chars_available[id]
  OBVIOUS
<1>3. /\ c + n <= Len(b) /\ \A i \in 1..n : b[c + i] = a + i
      /\ a \in Nat /\ a + n <= MaxBytes
  BY <1>1, <1>2 DEF BufferInv
<1>4. SubSeq(b, c + 1, c + n) = [i \in 1..n |-> b[c + i]]
  <2>1. b \in Seq(0..MaxBytes) /\ c \in Nat /\ n \in Nat /\ c + n <= Len(b)
    BY <1>1, <1>2, <1>3
  <2>. QED BY <2>1, SliceFacts
<1>5. SubSeq(b, c + 1, c + n) = Stretch(a, n)
  BY <1>3, <1>4 DEF Stretch
<1>6. Stretch(a, n) \in Seq(0..MaxBytes)
  BY <1>1, <1>3 DEF Stretch
<1>. QED BY <1>2, <1>5, <1>6

\* PipeCopyIntoUserBuffer of no more bytes than there are: the assert holds, and the
\* reader gets the oldest bytes.
LEMMA ReadBuffer ==
  ASSUME BufferTypes, BufferInv, NEW id \in Ids, NEW len \in Lengths,
         num_chars_available[id] >= len, PipeCopyIntoUserBuffer(id, len)
  PROVE  /\ BufferTypes' /\ BufferInv'
         /\ UNCHANGED <<machine, written>>
         /\ num_chars_available' =
              [num_chars_available EXCEPT ![id] = num_chars_available[id] - len]
         /\ last_read' = [pipe |-> id,
                          bytes |-> Stretch(written[id] - num_chars_available[id], len)]
<1>1. /\ buffer[id] \in Seq(0..MaxBytes) /\ consumed_chars[id] \in Nat
      /\ num_chars_available[id] \in Nat /\ written[id] \in 0..MaxBytes /\ len \in Nat
      /\ len \in 0..num_chars_available[id] /\ MaxBytes \in Nat
  BY PipeAssumption DEF BufferTypes, Lengths
<1>2. /\ last_read' = [pipe |-> id,
                       bytes |-> SubSeq(buffer[id], consumed_chars[id] + 1,
                                        consumed_chars[id] + len)]
      /\ num_chars_available' =
           [num_chars_available EXCEPT ![id] = num_chars_available[id] - len]
      /\ consumed_chars' =
           [consumed_chars EXCEPT ![id] = IF num_chars_available[id] = len THEN 0
                                          ELSE consumed_chars[id] + len]
      /\ UNCHANGED <<machine, written, buffer>>
  BY <1>1 DEF PipeCopyIntoUserBuffer
<1>3. last_read' = [pipe |-> id,
                    bytes |-> Stretch(written[id] - num_chars_available[id], len)]
  BY <1>1, <1>2, UnreadFacts
<1>4. BufferTypes'
  <2>1. Stretch(written[id] - num_chars_available[id], len) \in Seq(0..MaxBytes)
    BY <1>1, UnreadFacts
  <2>2. num_chars_available' \in [Ids -> Nat] /\ consumed_chars' \in [Ids -> Nat]
    BY <1>1, <1>2 DEF BufferTypes
  <2>3. last_read' \in [pipe : Ids \cup {0}, bytes : Seq(0..MaxBytes)]
    BY <1>3, <2>1
  <2>. QED BY <1>2, <2>2, <2>3 DEF BufferTypes
<1>5. BufferInv'
  <2>. SUFFICES ASSUME NEW s \in Ids
                PROVE  /\ consumed_chars'[s] + num_chars_available'[s] <= Len(buffer'[s])
                       /\ num_chars_available'[s] <= written'[s]
                       /\ \A i \in 1..num_chars_available'[s] :
                            buffer'[s][consumed_chars'[s] + i]
                              = (written'[s] - num_chars_available'[s]) + i
    BY DEF BufferInv
  <2>1. CASE s # id
    BY <1>2, <2>1 DEF BufferInv, BufferTypes
  <2>2. CASE s = id /\ num_chars_available[id] = len
    <3>1. /\ consumed_chars'[s] = 0 /\ num_chars_available'[s] = 0
          /\ buffer'[s] = buffer[id] /\ written'[s] = written[id]
      BY <1>1, <1>2, <2>2 DEF BufferTypes
    <3>2. Len(buffer[id]) \in Nat
      BY <1>1
    <3>. QED BY <1>1, <3>1, <3>2
  <2>3. CASE s = id /\ num_chars_available[id] # len
    <3>1. PICK b, c, n, w : /\ b = buffer[id] /\ c = consumed_chars[id]
                            /\ n = num_chars_available[id] /\ w = written[id]
      OBVIOUS
    <3>2. /\ c + n <= Len(b) /\ n <= w
          /\ \A i \in 1..n : b[c + i] = (w - n) + i
          /\ c \in Nat /\ n \in Nat /\ w \in Nat /\ len \in 1..n
      <4>1. /\ c + n <= Len(b) /\ n <= w
            /\ \A i \in 1..n : b[c + i] = (w - n) + i
        BY <3>1 DEF BufferInv
      <4>2. c \in Nat /\ n \in Nat /\ w \in Nat /\ len \in 1..n
        BY <1>1, <3>1 DEF Lengths
      <4>. QED BY <4>1, <4>2
    <3>3. \A i \in 1..n - len : b[(c + len) + i] = (w - (n - len)) + i
      <4>. SUFFICES ASSUME NEW i \in 1..n - len
                    PROVE  b[(c + len) + i] = (w - (n - len)) + i
        OBVIOUS
      <4>1. PICK j : j = len + i
        OBVIOUS
      <4>2. j \in 1..n /\ (c + len) + i = c + j /\ (w - (n - len)) + i = (w - n) + j
        BY <3>2, <4>1
      <4>. QED BY <3>2, <4>2
    <3>4. /\ buffer'[s] = b /\ written'[s] = w
          /\ consumed_chars'[s] = c + len /\ num_chars_available'[s] = n - len
      BY <1>2, <2>3, <3>1 DEF BufferTypes
    <3>5. (c + len) + (n - len) <= Len(b) /\ n - len <= w
      <4>. PICK k : k = Len(b)
        OBVIOUS
      <4>1. k \in Nat
        BY <1>1, <3>1
      <4>. QED BY <3>2, <4>1
    <3>. QED BY <3>3, <3>4, <3>5
  <2>. QED BY <2>1, <2>2, <2>3
<1>. QED BY <1>2, <1>3, <1>4, <1>5

\* The larger buffer, or the old one, has the unread bytes at start and room behind them.
LEMMA RoomFacts ==
  ASSUME BufferTypes, BufferInv, NEW id \in Ids, NEW len \in Lengths
  PROVE  /\ RoomFor(id, len).start \in Nat
         /\ RoomFor(id, len).bytes \in Seq(0..MaxBytes)
         /\ (RoomFor(id, len).start + num_chars_available[id]) + len
               <= Len(RoomFor(id, len).bytes)
         /\ \A i \in 1..num_chars_available[id] :
              RoomFor(id, len).bytes[RoomFor(id, len).start + i]
                = (written[id] - num_chars_available[id]) + i
<1>1. PICK b, c, n, w : /\ b = buffer[id] /\ c = consumed_chars[id]
                        /\ n = num_chars_available[id] /\ w = written[id]
  OBVIOUS
<1>2. /\ b \in Seq(0..MaxBytes) /\ c \in Nat /\ n \in Nat /\ w \in 0..MaxBytes
      /\ len \in Nat \ {0} /\ MaxBytes \in Nat
      /\ c + n <= Len(b) /\ n <= w
      /\ \A i \in 1..n : b[c + i] = (w - n) + i
  <2>1. /\ b \in Seq(0..MaxBytes) /\ c \in Nat /\ n \in Nat /\ w \in 0..MaxBytes
        /\ len \in Nat \ {0} /\ MaxBytes \in Nat
    BY <1>1, PipeAssumption DEF BufferTypes, Lengths
  <2>2. c + n <= Len(b) /\ n <= w /\ \A i \in 1..n : b[c + i] = (w - n) + i
    BY <1>1 DEF BufferInv
  <2>. QED BY <2>1, <2>2
<1>3. Len(b) \in Nat /\ \A i \in 1..Len(b) : b[i] \in 0..MaxBytes
  BY <1>2
<1>4. CASE len > PipeSpotsRemaining(id)
  <2>1. RoomFor(id, len) =
          [start |-> 0, bytes |-> [i \in 1..n + len |-> IF i <= n THEN b[c + i] ELSE 0]]
    BY <1>1, <1>4 DEF RoomFor
  <2>2. PICK r : r = [i \in 1..n + len |-> IF i <= n THEN b[c + i] ELSE 0]
    OBVIOUS
  <2>3. \A i \in 1..n : c + i \in 1..Len(b)
    BY <1>2, <1>3
  <2>4. r \in Seq(0..MaxBytes) /\ Len(r) = n + len
    BY <1>2, <1>3, <2>2, <2>3
  <2>5. \A i \in 1..n : r[0 + i] = (w - n) + i
    BY <1>2, <2>2
  <2>6. RoomFor(id, len).start = 0 /\ RoomFor(id, len).bytes = r
    BY <2>1, <2>2
  <2>. QED BY <1>1, <1>2, <2>4, <2>5, <2>6
<1>5. CASE ~(len > PipeSpotsRemaining(id))
  <2>1. RoomFor(id, len).start = c /\ RoomFor(id, len).bytes = b
    BY <1>1, <1>5 DEF RoomFor
  <2>2. (c + n) + len <= Len(b)
    BY <1>1, <1>2, <1>3, <1>5 DEF PipeSpotsRemaining
  <2>. QED BY <1>1, <1>2, <2>1, <2>2
<1>. QED BY <1>4, <1>5

\* KernelPipeWrite appends the next len bytes to the unread ones.
LEMMA WriteBuffer ==
  ASSUME BufferTypes, BufferInv, NEW id \in Ids, NEW len \in Lengths,
         written[id] + len <= MaxBytes, Fill(id, len), UNCHANGED last_read
  PROVE  /\ BufferTypes' /\ BufferInv'
         /\ num_chars_available' =
              [num_chars_available EXCEPT ![id] = num_chars_available[id] + len]
         /\ written' = [written EXCEPT ![id] = written[id] + len]
<1>1. PICK st, r, n, w : /\ st = RoomFor(id, len).start /\ r = RoomFor(id, len).bytes
                         /\ n = num_chars_available[id] /\ w = written[id]
  OBVIOUS
<1>2. /\ st \in Nat /\ r \in Seq(0..MaxBytes) /\ (st + n) + len <= Len(r)
      /\ \A i \in 1..n : r[st + i] = (w - n) + i
  BY <1>1, RoomFacts
<1>3. /\ n \in Nat /\ w \in 0..MaxBytes /\ w \in Nat /\ len \in Nat \ {0} /\ MaxBytes \in Nat
      /\ n <= w /\ w + len <= MaxBytes
  BY <1>1, PipeAssumption DEF BufferTypes, BufferInv, Lengths
<1>4. PICK e, g : /\ e = st + n
                  /\ g = [i \in DOMAIN r |-> IF i \in e + 1..e + len THEN w + (i - e)
                                             ELSE r[i]]
  OBVIOUS
<1>5. /\ buffer' = [buffer EXCEPT ![id] = g]
      /\ consumed_chars' = [consumed_chars EXCEPT ![id] = st]
      /\ num_chars_available' = [num_chars_available EXCEPT ![id] = n + len]
      /\ written' = [written EXCEPT ![id] = w + len]
  BY <1>1, <1>4 DEF Fill
<1>6. /\ e \in Nat /\ DOMAIN r = 1..Len(r) /\ Len(r) \in Nat /\ e + len <= Len(r)
      /\ \A i \in 1..Len(r) : r[i] \in 0..MaxBytes
  BY <1>2, <1>3, <1>4
<1>7. g \in Seq(0..MaxBytes) /\ Len(g) = Len(r)
  <2>1. \A i \in 1..Len(r) : g[i] \in 0..MaxBytes
    BY <1>3, <1>4, <1>6
  <2>. QED BY <1>4, <1>6, <2>1
<1>8. \A i \in 1..n + len : g[st + i] = ((w + len) - (n + len)) + i
  <2>. SUFFICES ASSUME NEW i \in 1..n + len
                PROVE  g[st + i] = ((w + len) - (n + len)) + i
    OBVIOUS
  <2>1. PICK j : j = st + i
    OBVIOUS
  <2>2. j \in 1..Len(r) /\ (j \in e + 1..e + len <=> i > n)
    BY <1>2, <1>3, <1>4, <1>6, <2>1
  <2>3. CASE i > n
    BY <1>2, <1>3, <1>4, <1>6, <2>1, <2>2, <2>3
  <2>4. CASE i <= n
    <3>1. g[j] = r[j]
      BY <1>3, <1>4, <1>6, <2>2, <2>4
    <3>2. r[st + i] = (w - n) + i
      <4>1. i \in 1..n
        BY <1>3, <2>4
      <4>. QED BY <1>2, <4>1
    <3>. QED BY <1>3, <2>1, <3>1, <3>2
  <2>. QED BY <1>3, <2>3, <2>4
<1>9. BufferTypes'
  <2>1. /\ written' \in [Ids -> 0..MaxBytes] /\ num_chars_available' \in [Ids -> Nat]
        /\ consumed_chars' \in [Ids -> Nat]
    <3>1. w + len \in 0..MaxBytes /\ n + len \in Nat /\ st \in Nat
      BY <1>2, <1>3
    <3>. QED BY <1>5, <3>1, Zenon DEF BufferTypes
  <2>2. buffer' \in [Ids -> Seq(0..MaxBytes)]
    BY <1>5, <1>7, Zenon DEF BufferTypes
  <2>. QED BY <2>1, <2>2 DEF BufferTypes
<1>10. BufferInv'
  <2>. SUFFICES ASSUME NEW s \in Ids
                PROVE  /\ consumed_chars'[s] + num_chars_available'[s] <= Len(buffer'[s])
                       /\ num_chars_available'[s] <= written'[s]
                       /\ \A i \in 1..num_chars_available'[s] :
                            buffer'[s][consumed_chars'[s] + i]
                              = (written'[s] - num_chars_available'[s]) + i
    BY DEF BufferInv
  <2>1. CASE s # id
    BY <1>5, <2>1 DEF BufferInv, BufferTypes
  <2>2. CASE s = id
    <3>1. /\ buffer'[s] = g /\ consumed_chars'[s] = st
          /\ num_chars_available'[s] = n + len /\ written'[s] = w + len
      BY <1>5, <2>2 DEF BufferTypes
    <3>2. st + (n + len) <= Len(g) /\ n + len <= w + len
      BY <1>2, <1>3, <1>4, <1>6, <1>7
    <3>. QED BY <1>8, <3>1, <3>2
  <2>. QED BY <2>1, <2>2
<1>. QED BY <1>1, <1>5, <1>9, <1>10

-----------------------------------------------------------------------------
(* The inductive invariant *)

PipeMachine == {"running", "halted", "aborted"}
PipePending == {"user", "wait", "pipe"}

ReaderTypes ==
  /\ waiting_to_read \in [Ids -> Seq(Readers)]
  /\ awaited_read \in [Proc -> [pipe : Ids, len : Lengths] \cup {NoRead}]

\* PipeTypeOK before it is known that no assert fails.
PipeTypes ==
  /\ ProcessTypeOK(PipeMachine, PipePending)
  /\ ResourcesTypeOK /\ pipes \subseteq Ids
  /\ BufferTypes /\ ReaderTypes

\* An entry of waiting_to_read stands for the read its process is in, and is there once.
ReadersInv ==
  /\ \A id \in Ids : NoDuplicates(waiting_to_read[id])
  /\ \A id \in Ids : \A e \in Range(waiting_to_read[id]) :
       pending[e.proc] = "pipe" /\ awaited_read[e.proc] = [pipe |-> id, len |-> e.len]
  /\ \A p \in Proc : pending[p] = "pipe" => awaited_read[p] \in [pipe : Ids, len : Lengths]

PlacesInv(E) == PlaceInv(E) /\ FamilyInv(E)

PipeInv == PlacesInv(PipeWaiters) /\ AssertInv /\ ReadersInv /\ BufferInv

\* What a step proves for the processes that wait in pipes after it.
LEMMA PlacesNow ==
  ASSUME NEW F, F = PipeWaiters', PlaceInv(F)', FamilyInv(F)'
  PROVE  PlacesInv(PipeWaiters)'
BY DEF PlacesInv, PlaceInv, OnePlaceWith, Unborn, Live, FamilyInv, FamilyTreeWith, PcbKept

LEMMA WaitersFacts ==
  ASSUME ReaderTypes
  PROVE  /\ PipeWaiters \in SUBSET Proc
         /\ \A id \in Ids : /\ waiting_to_read[id] \in Seq(Readers)
                            /\ Range(waiting_to_read[id]) \subseteq Readers
         /\ \A p : p \in PipeWaiters <=>
                    \E id \in Ids : \E e \in Range(waiting_to_read[id]) : p = e.proc
         /\ \A e \in Readers : e.proc \in Proc /\ e.len \in Lengths
         /\ \A e, g \in Readers : e.proc = g.proc /\ e.len = g.len => e = g
<1>1. \A id \in Ids : /\ waiting_to_read[id] \in Seq(Readers)
                     /\ Range(waiting_to_read[id]) \subseteq Readers
  BY EmptyFacts DEF ReaderTypes
<1>2. \A e \in Readers : e.proc \in Proc /\ e.len \in Lengths
  BY DEF Readers
<1>3. \A e, g \in Readers : e.proc = g.proc /\ e.len = g.len => e = g
  BY DEF Readers
<1>4. \A p : p \in PipeWaiters <=>
             \E id \in Ids : \E e \in Range(waiting_to_read[id]) : p = e.proc
  BY DEF PipeWaiters
<1>. QED BY <1>1, <1>2, <1>3, <1>4

\* Nobody waits for two reads.
LEMMA EntryUnique ==
  ASSUME ReaderTypes, ReadersInv, NEW s \in Ids, NEW t \in Ids,
         NEW e \in Range(waiting_to_read[s]), NEW g \in Range(waiting_to_read[t]),
         e.proc = g.proc
  PROVE  s = t /\ e = g
<1>1. [pipe |-> s, len |-> e.len] = [pipe |-> t, len |-> g.len]
  BY DEF ReadersInv
<1>2. s = t /\ e.len = g.len
  BY <1>1
<1>. QED BY <1>2, WaitersFacts

-----------------------------------------------------------------------------
(* Steps of Process *)

LEMMA PipeProcessStep ==
  ASSUME PipeTypes, PipeInv, ProcessHandlers \/ KernelExit, UNCHANGED pipeVars
  PROVE  PipeTypes' /\ PipeInv'
<1>1. UNCHANGED <<next_synch_resource_id, pipes, written, num_chars_available, buffer,
                  consumed_chars, waiting_to_read, awaited_read, last_read>>
  BY DEF pipeVars, bufferVars
<1>2. PipeWaiters' = PipeWaiters /\ PipeWaiters \in SUBSET Proc
  BY <1>1, WaitersFacts DEF PipeWaiters, PipeTypes
<1>3. PICK E \in SUBSET Proc : E = PipeWaiters
  BY <1>2
<1>4. /\ PlaceInv(E) /\ FamilyInv(E) /\ AssertInv
      /\ ProcessTypeOK(PipeMachine, PipePending)
      /\ {"running", "aborted"} \subseteq PipeMachine /\ {"user", "wait"} \subseteq PipePending
  BY <1>3 DEF PipeInv, PlacesInv, PipeTypes, PipeMachine, PipePending
<1>5. CASE ProcessHandlers
  <2>1. ProcessTypeOK(PipeMachine, PipePending)'
    BY <1>4, <1>5, HandlersType
  <2>2. PlaceInv(E)'
    BY <1>4, <1>5, HandlersPlace
  <2>3. FamilyInv(E)'
    BY <1>4, <1>5, HandlersFamily
  <2>4. AssertInv'
    BY <1>4, <1>5, HandlersAssert
  <2>5. \A p \in Proc : pending'[p] = "pipe" <=> pending[p] = "pipe"
    BY <1>4, <1>5, HandlersPending
  <2>6. ReadersInv' /\ BufferInv'
    BY <1>1, <2>5, WaitersFacts DEF ReadersInv, BufferInv, PipeInv, PipeTypes
  <2>7. PlacesInv(PipeWaiters)'
    BY <1>2, <1>3, <2>2, <2>3, PlacesNow
  <2>8. PipeTypes'
    BY <1>1, <2>1 DEF PipeTypes, ResourcesTypeOK, BufferTypes, ReaderTypes
  <2>. QED BY <2>4, <2>6, <2>7, <2>8 DEF PipeInv
<1>6. CASE KernelExit
  <2>1. /\ Calling /\ current_proc \in Proc /\ ready_queue \in Seq(Proc)
        /\ LeaveFamily(ready_queue)
        /\ UNCHANGED <<machine, clockVars, pending, abandoned_pcbs, next_pid>>
    BY <1>4, <1>6 DEF KernelExit, Calling, ProcessTypeOK
  <2>2. ProcessTypeOK(PipeMachine, PipePending)'
    BY <1>4, <2>1, LeaveFamilyType
  <2>3. PlaceInv(E)' /\ Live(E)' = Live(E) \ {current_proc}
    BY <1>4, <1>6, KernelExitPlace
  <2>4. current_proc \in Live(E)
    BY <1>4, <2>1, CurrentFacts
  <2>5. FamilyInv(E)'
    BY <1>4, <2>1, <2>3, <2>4, LeaveFamilyFamily
  <2>6. AssertInv'
    BY <1>4, <2>1, LeaveFamilyAssert DEF Calling, UserMode
  <2>7. ReadersInv' /\ BufferInv'
    BY <1>1, <2>1 DEF ReadersInv, BufferInv, PipeInv
  <2>8. PlacesInv(PipeWaiters)'
    BY <1>2, <1>3, <2>3, <2>5, PlacesNow
  <2>9. PipeTypes'
    BY <1>1, <2>2 DEF PipeTypes, ResourcesTypeOK, BufferTypes, ReaderTypes
  <2>. QED BY <2>6, <2>7, <2>8, <2>9 DEF PipeInv
<1>. QED BY <1>5, <1>6

-----------------------------------------------------------------------------
(* Reading and writing *)

\* A step without a context switch, in which at most a read returns.
LEMMA QuietPlaces ==
  ASSUME PipeTypes, PlacesInv(PipeWaiters),
         UNCHANGED <<schedVars, clockVars, familyVars, waiting_to_read>>,
         \A p \in Proc : pending'[p] \in {pending[p], "user"}
  PROVE  PlacesInv(PipeWaiters)'
<1>1. PipeWaiters' = PipeWaiters /\ PipeWaiters \in SUBSET Proc
  BY WaitersFacts DEF PipeWaiters, PipeTypes
<1>2. PICK E \in SUBSET Proc : E = PipeWaiters
  BY <1>1
<1>3. Live(E)' = Live(E)
  BY DEF Live, Running, Waiters, schedVars, clockVars, familyVars
<1>4. PlaceInv(E)'
  <2>1. PlaceInv(E)
    BY <1>2 DEF PlacesInv
  <2>. QED BY <1>3, <2>1 DEF PlaceInv, OnePlaceWith, Unborn, Running, Waiters, schedVars,
                            clockVars, familyVars
<1>5. FamilyInv(E)'
  <2>1. FamilyInv(E) /\ next_pid \in Nat
    BY <1>2, ProcessAssumption DEF PlacesInv, PipeTypes, ProcessTypeOK
  <2>. QED BY <1>3, <2>1, FamilyUnchanged DEF PipeTypes, familyVars
<1>. QED BY <1>1, <1>2, <1>4, <1>5, PlacesNow

LEMMA AssertKept ==
  ASSUME AssertInv, UNCHANGED <<machine, zombie_children, waiting_on_children>>,
         \A p \in Proc : pending'[p] = "wait" => pending[p] = "wait"
  PROVE  AssertInv'
BY DEF AssertInv, WokenHasZombie

\* One test of the loop's condition, on the call and after every wakeup.
LEMMA ReadInv ==
  ASSUME PipeTypes, PipeInv, NEW me \in Proc, me = current_proc, NEW id \in Ids,
         NEW len \in Lengths, ReadOrBlock(id, len),
         UNCHANGED <<clockVars, familyVars, next_synch_resource_id, pipes>>
  PROVE  PipeTypes' /\ PipeInv'
<1>1. /\ PlacesInv(PipeWaiters) /\ ReadersInv /\ BufferInv /\ AssertInv
      /\ ProcessTypeOK(PipeMachine, PipePending) /\ BufferTypes /\ ReaderTypes
  BY DEF PipeInv, PipeTypes
<1>2. PICK E \in SUBSET Proc : E = PipeWaiters
  BY <1>1, WaitersFacts
<1>3. PlaceInv(E) /\ FamilyInv(E) /\ me \notin E /\ next_pid \in Nat
  BY <1>1, <1>2, CurrentFacts, ProcessAssumption DEF PlacesInv, ProcessTypeOK
<1>4. \A s \in Ids : \A e \in Range(waiting_to_read[s]) : e.proc \in Proc /\ e.proc # me
  BY <1>1, <1>2, <1>3, WaitersFacts
<1>5. CASE num_chars_available[id] >= len /\ ReadReturns(id, len)
  <2>1. /\ BufferTypes' /\ BufferInv' /\ UNCHANGED machine
    BY <1>1, <1>5, ReadBuffer DEF ReadReturns
  <2>2. /\ pending' = [pending EXCEPT ![me] = "user"]
        /\ awaited_read' = [awaited_read EXCEPT ![me] = NoRead]
        /\ UNCHANGED <<schedVars, waiting_to_read>>
    BY <1>5 DEF ReadReturns
  <2>3. /\ pending'[me] = "user"
        /\ \A p \in Proc \ {me} : pending'[p] = pending[p] /\ awaited_read'[p] = awaited_read[p]
    BY <1>1, <2>2 DEF ProcessTypeOK, ReaderTypes
  <2>4. PlacesInv(PipeWaiters)' /\ AssertInv'
    BY <1>1, <2>1, <2>2, <2>3, QuietPlaces, AssertKept DEF familyVars
  <2>5. ReadersInv'
    BY <1>1, <1>4, <2>2, <2>3 DEF ReadersInv
  <2>6. PipeTypes'
    <3>1. ProcessTypeOK(PipeMachine, PipePending)'
      BY <1>1, <2>1, <2>2 DEF ProcessTypeOK, schedVars, clockVars, familyVars, PipePending
    <3>2. ReaderTypes'
      BY <1>1, <2>2 DEF ReaderTypes
    <3>. QED BY <2>1, <3>1, <3>2 DEF PipeTypes, ResourcesTypeOK
  <2>. QED BY <2>1, <2>4, <2>5, <2>6 DEF PipeInv
<1>6. CASE /\ num_chars_available[id] < len
           /\ waiting_to_read' =
                [waiting_to_read EXCEPT ![id] = Append(@, [proc |-> current_proc, len |-> len])]
           /\ pending' = [pending EXCEPT ![current_proc] = "pipe"]
           /\ awaited_read' = [awaited_read EXCEPT ![current_proc] = [pipe |-> id, len |-> len]]
           /\ SwitchToNextProc(ready_queue)
           /\ UNCHANGED <<machine, bufferVars, last_read>>
  <2>1. PICK new, q : new = [proc |-> me, len |-> len] /\ q = waiting_to_read[id]
    OBVIOUS
  <2>2. /\ new \in Readers /\ new.proc = me /\ new.len = len
        /\ q \in Seq(Readers) /\ new \notin Range(q)
    BY <1>1, <1>4, <2>1, WaitersFacts DEF Readers
  <2>3. /\ Append(q, new) \in Seq(Readers)
        /\ Range(Append(q, new)) = Range(q) \cup {new}
        /\ NoDuplicates(Append(q, new))
    BY <1>1, <2>1, <2>2, AppendFacts DEF ReadersInv
  <2>4. /\ waiting_to_read' = [waiting_to_read EXCEPT ![id] = Append(q, new)]
        /\ pending' = [pending EXCEPT ![me] = "pipe"]
        /\ awaited_read' = [awaited_read EXCEPT ![me] = [pipe |-> id, len |-> len]]
    BY <1>6, <2>1
  <2>5. /\ pending'[me] = "pipe" /\ awaited_read'[me] = [pipe |-> id, len |-> len]
        /\ \A p \in Proc \ {me} : pending'[p] = pending[p] /\ awaited_read'[p] = awaited_read[p]
        /\ waiting_to_read'[id] = Append(q, new)
        /\ \A s \in Ids \ {id} : waiting_to_read'[s] = waiting_to_read[s]
    BY <1>1, <2>4 DEF ProcessTypeOK, ReaderTypes
  <2>6. /\ ReaderTypes'
        /\ Range(waiting_to_read'[id]) = Range(waiting_to_read[id]) \cup {new}
    BY <1>1, <2>1, <2>3, <2>4, <2>5 DEF ReaderTypes
  <2>7. PipeWaiters' = E \cup {me}
    <3>1. \A p : p \in PipeWaiters' <=>
                 \E s \in Ids : \E e \in Range(waiting_to_read'[s]) : p = e.proc
      BY DEF PipeWaiters
    <3>2. \A p : p \in E <=>
                 \E s \in Ids : \E e \in Range(waiting_to_read[s]) : p = e.proc
      BY <1>1, <1>2, WaitersFacts
    <3>3. ASSUME NEW p \in PipeWaiters' PROVE p \in E \cup {me}
      <4>1. PICK s \in Ids : \E e \in Range(waiting_to_read'[s]) : p = e.proc
        BY <3>1, <3>3
      <4>2. PICK e \in Range(waiting_to_read'[s]) : p = e.proc
        BY <4>1
      <4>3. e = new \/ e \in Range(waiting_to_read[s])
        BY <2>5, <2>6
      <4>. QED BY <2>2, <3>2, <4>2, <4>3
    <3>4. me \in PipeWaiters'
      BY <2>2, <2>6, <3>1
    <3>5. ASSUME NEW p \in E PROVE p \in PipeWaiters'
      <4>1. PICK s \in Ids : \E e \in Range(waiting_to_read[s]) : p = e.proc
        BY <3>2, <3>5
      <4>2. Range(waiting_to_read[s]) \subseteq Range(waiting_to_read'[s])
        BY <2>5, <2>6
      <4>. QED BY <3>1, <4>1, <4>2
    <3>. QED BY <3>3, <3>4, <3>5
  <2>8. ready_queue \in Seq(Proc) /\ NoDuplicates(ready_queue)
    BY <1>1, <1>3 DEF ProcessTypeOK, PlaceInv, OnePlaceWith
  <2>9. PlaceInv(E \cup {me})' /\ Live(E \cup {me})' = Live(E)
    <3>1. /\ E = E \cup {} /\ E \cap {} = {}
          /\ Range(ready_queue) = Range(ready_queue) \cup {}
          /\ UNCHANGED <<clock_block_procs, waiting_on_children, next_pid>>
      BY DEF clockVars, familyVars
    <3>. QED BY <1>3, <1>6, <2>5, <2>8, <3>1, BlockPlace
  <2>10. FamilyInv(E \cup {me})'
    BY <1>1, <1>3, <2>9, FamilyMoved DEF familyVars
  <2>11. PlacesInv(PipeWaiters)'
    BY <2>7, <2>9, <2>10, PlacesNow
  <2>12. AssertInv'
    BY <1>1, <1>6, <2>5, AssertKept DEF familyVars
  <2>13. ReadersInv'
    <3>1. \A s \in Ids : NoDuplicates(waiting_to_read'[s])
      BY <1>1, <2>3, <2>5 DEF ReadersInv
    <3>2. \A s \in Ids : \A e \in Range(waiting_to_read'[s]) :
            pending'[e.proc] = "pipe" /\ awaited_read'[e.proc] = [pipe |-> s, len |-> e.len]
      <4>. SUFFICES ASSUME NEW s \in Ids, NEW e \in Range(waiting_to_read'[s])
                    PROVE  /\ pending'[e.proc] = "pipe"
                           /\ awaited_read'[e.proc] = [pipe |-> s, len |-> e.len]
        OBVIOUS
      <4>1. CASE s = id /\ e = new
        BY <2>2, <2>5, <4>1
      <4>2. CASE e \in Range(waiting_to_read[s])
        BY <1>1, <1>4, <2>5, <4>2 DEF ReadersInv
      <4>. QED BY <2>5, <2>6, <4>1, <4>2
    <3>3. \A p \in Proc : pending'[p] = "pipe" => awaited_read'[p] \in [pipe : Ids, len : Lengths]
      BY <1>1, <2>5 DEF ReadersInv
    <3>. QED BY <3>1, <3>2, <3>3 DEF ReadersInv
  <2>14. BufferTypes' /\ BufferInv'
    BY <1>1, <1>6 DEF BufferTypes, BufferInv, bufferVars
  <2>15. PipeTypes'
    <3>1. ready_queue' \in Seq(Proc) /\ current_proc' \in Proc \cup {IDLE_PID}
      BY <1>6, <2>8, SwitchType
    <3>2. ProcessTypeOK(PipeMachine, PipePending)'
      BY <1>1, <1>6, <2>4, <3>1 DEF ProcessTypeOK, clockVars, familyVars, PipePending
    <3>. QED BY <2>6, <2>14, <3>2 DEF PipeTypes, ResourcesTypeOK
  <2>. QED BY <2>11, <2>12, <2>13, <2>14, <2>15 DEF PipeInv
<1>. QED BY <1>5, <1>6 DEF ReadOrBlock

\* WakeReader splits the queue of the pipe into those it wakes and those that stay.
LEMMA WakeReaderFacts ==
  ASSUME ReaderTypes, ReadersInv, NEW id \in Ids, NEW n, WakeReader(id, n),
         ready_queue \in Seq(Proc)
  PROVE  \E woken \in Seq(Readers), still \in Seq(Readers), procs \in Seq(Proc) :
           /\ NoDuplicates(still)
           /\ Range(woken) \cup Range(still) = Range(waiting_to_read[id])
           /\ Range(woken) \cap Range(still) = {}
           /\ Range(still) = {e \in Range(waiting_to_read[id]) : e \notin Range(woken)}
           /\ NoDuplicates(procs) /\ Range(procs) = {e.proc : e \in Range(woken)}
           /\ ready_queue' = ready_queue \o procs
           /\ waiting_to_read' = [waiting_to_read EXCEPT ![id] = still]
<1>1. PICK q, S : q = waiting_to_read[id] /\ S = FirstServable(id, n)
  OBVIOUS
<1>2. PICK woken \in SublistAt(q, S), still \in SublistAt(q, DOMAIN q \ S) :
        /\ ready_queue' = ready_queue \o [i \in DOMAIN woken |-> woken[i].proc]
        /\ waiting_to_read' = [waiting_to_read EXCEPT ![id] = still]
  BY <1>1 DEF WakeReader
<1>3. q \in Seq(Readers) /\ NoDuplicates(q) /\ S \in SUBSET DOMAIN q
  BY <1>1, WaitersFacts DEF ReadersInv, FirstServable
<1>4. /\ woken \in Seq(Readers) /\ NoDuplicates(woken)
      /\ still \in Seq(Readers) /\ NoDuplicates(still)
      /\ Range(woken) \cup Range(still) = Range(q)
      /\ Range(woken) \cap Range(still) = {}
  BY <1>2, <1>3, SplitFacts
<1>5. PICK procs : procs = [i \in DOMAIN woken |-> woken[i].proc]
  OBVIOUS
<1>6. \A i \in DOMAIN woken : woken[i] \in Range(woken) /\ woken[i] \in Range(q)
  BY <1>4 DEF Range
<1>7. procs \in Seq(Proc) /\ DOMAIN procs = DOMAIN woken
  <2>1. DOMAIN woken = 1..Len(woken) /\ Len(woken) \in Nat
    BY <1>4
  <2>2. \A i \in 1..Len(woken) : woken[i].proc \in Proc
    BY <1>1, <1>3, <1>6, <2>1, WaitersFacts
  <2>. QED BY <1>5, <2>1, <2>2
<1>8. NoDuplicates(procs)
  <2>. SUFFICES ASSUME NEW i \in DOMAIN woken, NEW j \in DOMAIN woken, i # j
                PROVE  procs[i] # procs[j]
    BY <1>7 DEF NoDuplicates
  <2>1. woken[i] # woken[j]
    BY <1>4 DEF NoDuplicates
  <2>2. woken[i].proc # woken[j].proc
    BY <1>1, <1>6, <2>1, EntryUnique
  <2>. QED BY <1>5, <2>2
<1>9. Range(procs) = {e.proc : e \in Range(woken)}
  BY <1>5, <1>7 DEF Range
<1>. QED BY <1>1, <1>2, <1>4, <1>5, <1>7, <1>8, <1>9

LEMMA WriteInv ==
  ASSUME PipeTypes, PipeInv, NEW id \in Ids, NEW len \in Lengths, KernelPipeWrite(id, len)
  PROVE  PipeTypes' /\ PipeInv'
<1>1. /\ PlacesInv(PipeWaiters) /\ ReadersInv /\ BufferInv /\ AssertInv
      /\ ProcessTypeOK(PipeMachine, PipePending) /\ BufferTypes /\ ReaderTypes
      /\ ready_queue \in Seq(Proc) /\ next_pid \in Nat
  BY ProcessAssumption DEF PipeInv, PipeTypes, ProcessTypeOK
<1>2. PICK E \in SUBSET Proc : E = PipeWaiters
  BY <1>1, WaitersFacts
<1>3. PlaceInv(E) /\ FamilyInv(E)
  BY <1>1, <1>2 DEF PlacesInv
<1>4. /\ written[id] + len <= MaxBytes /\ Fill(id, len) /\ UNCHANGED last_read
      /\ WakeReader(id, num_chars_available[id] + len)
      /\ UNCHANGED <<machine, current_proc, clockVars, pending, familyVars,
                     next_synch_resource_id, pipes, awaited_read>>
  BY DEF KernelPipeWrite
<1>5. BufferTypes' /\ BufferInv'
  BY <1>1, <1>4, WriteBuffer
<1>6. PICK woken \in Seq(Readers), still \in Seq(Readers), procs \in Seq(Proc) :
           /\ NoDuplicates(still)
           /\ Range(woken) \cup Range(still) = Range(waiting_to_read[id])
           /\ Range(woken) \cap Range(still) = {}
           /\ NoDuplicates(procs) /\ Range(procs) = {e.proc : e \in Range(woken)}
           /\ ready_queue' = ready_queue \o procs
           /\ waiting_to_read' = [waiting_to_read EXCEPT ![id] = still]
  BY <1>1, <1>4, WakeReaderFacts
<1>7. /\ waiting_to_read'[id] = still
      /\ \A s \in Ids \ {id} : waiting_to_read'[s] = waiting_to_read[s]
      /\ \A s \in Ids : Range(waiting_to_read'[s]) \subseteq Range(waiting_to_read[s])
  BY <1>1, <1>6 DEF ReaderTypes
<1>8. ReaderTypes'
  BY <1>1, <1>4, <1>6 DEF ReaderTypes
<1>9. ReadersInv'
  BY <1>1, <1>4, <1>6, <1>7 DEF ReadersInv
<1>10. PICK F, W : F = PipeWaiters' /\ W = Range(procs)
  OBVIOUS
<1>11. /\ \A p : p \in E <=> \E s \in Ids : \E e \in Range(waiting_to_read[s]) : p = e.proc
       /\ \A p : p \in F <=> \E s \in Ids : \E e \in Range(waiting_to_read'[s]) : p = e.proc
       /\ \A p : p \in W <=> \E e \in Range(woken) : p = e.proc
  <2>1. \A p : p \in F <=> \E s \in Ids : \E e \in Range(waiting_to_read'[s]) : p = e.proc
    BY <1>10 DEF PipeWaiters
  <2>2. \A p : p \in E <=> \E s \in Ids : \E e \in Range(waiting_to_read[s]) : p = e.proc
    BY <1>1, <1>2, WaitersFacts
  <2>3. \A p : p \in W <=> \E e \in Range(woken) : p = e.proc
    BY <1>6, <1>10
  <2>. QED BY <2>1, <2>2, <2>3
<1>12. E = F \cup W
  <2>1. ASSUME NEW p \in E PROVE p \in F \cup W
    <3>1. PICK s \in Ids : \E e \in Range(waiting_to_read[s]) : p = e.proc
      BY <1>11, <2>1
    <3>2. PICK e \in Range(waiting_to_read[s]) : p = e.proc
      BY <3>1
    <3>3. e \in Range(waiting_to_read'[s]) \/ e \in Range(woken)
      BY <1>6, <1>7
    <3>. QED BY <1>11, <3>2, <3>3
  <2>2. ASSUME NEW p \in F PROVE p \in E
    BY <1>7, <1>11, <2>2
  <2>3. ASSUME NEW p \in W PROVE p \in E
    BY <1>6, <1>11, <2>3
  <2>. QED BY <2>1, <2>2, <2>3
<1>13. F \cap W = {}
  <2>. SUFFICES ASSUME NEW p \in F, p \in W PROVE FALSE
    OBVIOUS
  <2>0. PICK s \in Ids : \E e \in Range(waiting_to_read'[s]) : p = e.proc
    BY <1>11
  <2>1. PICK e \in Range(waiting_to_read'[s]) : p = e.proc
    BY <2>0
  <2>2. PICK g \in Range(woken) : p = g.proc
    BY <1>11
  <2>3. e \in Range(waiting_to_read[s]) /\ g \in Range(waiting_to_read[id])
    BY <1>6, <1>7
  <2>4. s = id /\ e = g
    BY <1>1, <2>1, <2>2, <2>3, EntryUnique
  <2>. QED BY <1>6, <1>7, <2>1, <2>4
<1>14. /\ NoDuplicates(ready_queue')
       /\ Range(ready_queue') = Range(ready_queue) \cup W
  <2>1. Range(ready_queue) \cap Range(procs) = {} /\ NoDuplicates(ready_queue)
    BY <1>3, <1>10, <1>12 DEF PlaceInv, OnePlaceWith
  <2>. QED BY <1>1, <1>6, <1>10, <2>1, ConcatFacts
<1>15. PlaceInv(F)' /\ Live(F)' = Live(E)
  BY <1>3, <1>4, <1>12, <1>13, <1>14, WakePlace DEF clockVars, familyVars
<1>16. FamilyInv(F)'
  <2>1. /\ UNCHANGED <<pcbs, abandoned_pcbs, live_parent, live_children, zombie_children>>
        /\ next_pid' = next_pid
    BY <1>4 DEF familyVars
  <2>2. ProcessTypeOK(PipeMachine, PipePending) /\ next_pid \in Nat
    BY <1>1
  <2>4. next_pid' \in Nat /\ next_pid' >= next_pid
    BY <2>1, <2>2
  <2>5. F \in SUBSET Proc /\ FamilyInv(E) /\ Live(F)' = Live(E)
    BY <1>1, <1>3, <1>12, <1>15
  <2>. QED BY <2>1, <2>2, <2>4, <2>5, FamilyMoved
<1>17. PlacesInv(PipeWaiters)'
  BY <1>10, <1>15, <1>16, PlacesNow
<1>18. AssertInv'
  BY <1>1, <1>4, AssertKept DEF familyVars
<1>19. PipeTypes'
  <2>1. ready_queue' \in Seq(Proc)
    BY <1>1, <1>6, ConcatFacts
  <2>2. ProcessTypeOK(PipeMachine, PipePending)'
    BY <1>1, <1>4, <2>1 DEF ProcessTypeOK, clockVars, familyVars
  <2>. QED BY <1>4, <1>5, <1>8, <2>2 DEF PipeTypes, ResourcesTypeOK
<1>. QED BY <1>5, <1>9, <1>17, <1>18, <1>19 DEF PipeInv

-----------------------------------------------------------------------------
(* Every step keeps the invariant *)

LEMMA QuietInv ==
  ASSUME PipeTypes, PipeInv, machine' \in {machine, "halted"}, pipes' \subseteq Ids,
         ResourcesTypeOK',
         UNCHANGED <<schedVars, clockVars, pending, familyVars, bufferVars, waiting_to_read,
                     awaited_read, last_read>>
  PROVE  PipeTypes' /\ PipeInv'
<1>1. PlacesInv(PipeWaiters)'
  BY QuietPlaces DEF PipeInv
<1>2. AssertInv' /\ ReadersInv' /\ BufferInv'
  BY DEF PipeInv, AssertInv, WokenHasZombie, ReadersInv, BufferInv, familyVars, bufferVars
<1>3. PipeTypes'
  BY DEF PipeTypes, ProcessTypeOK, PipeMachine, BufferTypes, ReaderTypes, schedVars, clockVars,
         familyVars, bufferVars
<1>. QED BY <1>1, <1>2, <1>3 DEF PipeInv

LEMMA PipeStep == PipeTypes /\ PipeInv /\ [PipeNext]_vars => PipeTypes' /\ PipeInv'
<1>. SUFFICES ASSUME PipeTypes, PipeInv, [PipeNext]_vars PROVE PipeTypes' /\ PipeInv'
  OBVIOUS
<1>0. current_proc \in Proc \cup {IDLE_PID} /\ ResourcesTypeOK /\ pipes \subseteq Ids
  BY DEF PipeTypes, ProcessTypeOK
<1>1. CASE (ProcessHandlers \/ KernelExit) /\ UNCHANGED pipeVars
  BY <1>1, PipeProcessStep
<1>2. CASE KernelPipeInit
  <2>1. ResourcesTypeOK' /\ pipes' \subseteq Ids
    BY <1>0, <1>2, ResourcesAssumption DEF KernelPipeInit, NewId, ResourcesTypeOK, Ids
  <2>. QED BY <1>2, <2>1, QuietInv DEF KernelPipeInit, processVars
<1>3. ASSUME NEW id \in Ids, NEW len \in Lengths, KernelPipeRead(id, len)
      PROVE  PipeTypes' /\ PipeInv'
  <2>1. PICK me \in Proc : me = current_proc
    BY <1>0, <1>3 DEF KernelPipeRead, Calling
  <2>. QED BY <1>3, <2>1, ReadInv DEF KernelPipeRead
<1>4. CASE KernelPipeReadResumes
  <2>1. PICK me \in Proc : me = current_proc
    BY <1>0, <1>4 DEF KernelPipeReadResumes, Resuming
  <2>2. awaited_read[me].pipe \in Ids /\ awaited_read[me].len \in Lengths
    BY <1>4, <2>1 DEF KernelPipeReadResumes, Resuming, PipeInv, ReadersInv
  <2>. QED BY <1>4, <2>1, <2>2, ReadInv DEF KernelPipeReadResumes
<1>5. ASSUME NEW id \in Ids, NEW len \in Lengths, KernelPipeWrite(id, len)
      PROVE  PipeTypes' /\ PipeInv'
  BY <1>5, WriteInv
<1>6. ASSUME NEW id \in Ids, KernelReclaim(id) PROVE PipeTypes' /\ PipeInv'
  <2>1. ResourcesTypeOK' /\ pipes' \subseteq Ids
    BY <1>0, <1>6 DEF KernelReclaim, ResourcesTypeOK
  <2>. QED BY <1>6, <2>1, QuietInv DEF KernelReclaim, processVars
<1>7. CASE HaltByInit /\ UNCHANGED <<schedVars, clockVars, pending, familyVars, pipeVars>>
  <2>1. ResourcesTypeOK' /\ pipes' \subseteq Ids /\ machine' = "halted"
    BY <1>0, <1>7 DEF HaltByInit, ResourcesTypeOK, pipeVars
  <2>. QED BY <1>7, <2>1, QuietInv DEF pipeVars
<1>8. CASE UNCHANGED vars
  <2>1. ResourcesTypeOK' /\ pipes' \subseteq Ids
    BY <1>0, <1>8 DEF vars, ResourcesTypeOK, pipeVars
  <2>. QED BY <1>8, <2>1, QuietInv DEF vars, pipeVars, processVars
<1>. QED BY <1>1, <1>2, <1>3, <1>4, <1>5, <1>6, <1>7, <1>8 DEF PipeNext

LEMMA PipeInitInv == PipeInit => PipeTypes /\ PipeInv
<1>. SUFFICES ASSUME PipeInit PROVE PipeTypes /\ PipeInv
  OBVIOUS
<1>1. ProcessInit /\ ResourcesInit
  BY DEF PipeInit
<1>2. ProcessTypeOK(PipeMachine, PipePending)
  BY <1>1, TypeInit DEF TypeOK, ProcessTypeOK, PipeMachine, PipePending
<1>3. /\ \A id \in Ids : /\ written[id] = 0 /\ num_chars_available[id] = 0
                         /\ buffer[id] = <<>> /\ consumed_chars[id] = 0
                         /\ waiting_to_read[id] = <<>>
      /\ \A p \in Proc : awaited_read[p] = NoRead /\ pending[p] = "user"
  BY <1>1 DEF PipeInit, ProcessInit
<1>4. BufferTypes /\ ReaderTypes /\ ResourcesTypeOK /\ pipes = {}
  BY <1>1, PipeAssumption, ResourcesAssumption, EmptyFacts
  DEF PipeInit, BufferTypes, ReaderTypes, ResourcesInit, ResourcesTypeOK
<1>5. PipeWaiters = {}
  BY <1>3, EmptyFacts DEF PipeWaiters
<1>6. PlacesInv(PipeWaiters)
  BY <1>1, <1>5, PlaceInit, FamilyInit DEF PlacesInv
<1>7. AssertInv /\ ReadersInv /\ BufferInv
  BY <1>1, <1>3, EmptyFacts DEF ProcessInit, AssertInv, WokenHasZombie, ReadersInv, BufferInv
<1>. QED BY <1>2, <1>4, <1>6, <1>7 DEF PipeTypes, PipeInv

LEMMA PipeInvariant == PipeSpec => [](PipeTypes /\ PipeInv)
BY PipeInitInv, PipeStep, PTL DEF PipeSpec

-----------------------------------------------------------------------------
(* The theorems *)

\* Every variable of Pipe keeps its type, and the assert of PipeCopyIntoUserBuffer
\* (Pipe.c:33) never fails, as machine shows (PipeSpec => []PipeTypeOK).
THEOREM PipeTypeCorrect == PipeSpec => []PipeTypeOK
<1>1. PipeTypes /\ PipeInv => PipeTypeOK
  BY DEF PipeTypes, PipeInv, AssertInv, PipeTypeOK, ProcessTypeOK, BufferTypes, ReaderTypes,
         PipeMachine, PipePending
<1>. QED BY <1>1, PipeInvariant, PTL

\* A process blocked in KernelPipeRead is in one queue, once, with the length it asked
\* for, and no PCB is freed while anybody can reach it (PipeSpec => []PipeOnePlace).
THEOREM PipeOnePlaceAlways == PipeSpec => []PipeOnePlace
<1>1. PipeTypes /\ PipeInv => PipeOnePlace
  <2>. SUFFICES ASSUME PipeTypes, PipeInv PROVE PipeOnePlace
    OBVIOUS
  <2>1. PlacesInv(PipeWaiters) /\ ReadersInv /\ ReaderTypes
    BY DEF PipeInv, PipeTypes
  <2>2. OnePlaceWith(PipeWaiters)
    BY <2>1 DEF PlacesInv, PlaceInv
  <2>3. NoDanglingPCBWith(PipeWaiters)
    <3>1. PICK E \in SUBSET Proc : E = PipeWaiters
      BY <2>1, WaitersFacts
    <3>. QED BY <2>1, <3>1, PcbKeptMeaning DEF PlacesInv, FamilyInv, PipeTypes
  <2>4. ASSUME NEW id \in Ids, NEW i \in DOMAIN waiting_to_read[id],
               NEW j \in DOMAIN waiting_to_read[id], i # j
        PROVE  waiting_to_read[id][i].proc # waiting_to_read[id][j].proc
    <3>1. waiting_to_read[id][i] # waiting_to_read[id][j]
      BY <2>1, <2>4 DEF ReadersInv, NoDuplicates
    <3>2. /\ waiting_to_read[id][i] \in Range(waiting_to_read[id])
          /\ waiting_to_read[id][j] \in Range(waiting_to_read[id])
      BY DEF Range
    <3>. QED BY <2>1, <3>1, <3>2, EntryUnique
  <2>. QED BY <2>1, <2>2, <2>3, <2>4 DEF PipeOnePlace, ReadersInv
<1>. QED BY <1>1, PipeInvariant, PTL

-----------------------------------------------------------------------------
(* The refinement *)

Unread == [id \in Ids |-> SubSeq(buffer[id], consumed_chars[id] + 1,
                                 consumed_chars[id] + num_chars_available[id])]
UnreadBytes(id) == Stretch(written[id] - num_chars_available[id], num_chars_available[id])

Undelivered == [id \in Ids |-> UnreadBytes(id)]

UnreadAgrees == Unread = Undelivered

LEMMA UnreadAll == BufferTypes /\ BufferInv => UnreadAgrees
<1>. SUFFICES ASSUME BufferTypes, BufferInv PROVE Unread = Undelivered
  BY DEF UnreadAgrees
<1>1. ASSUME NEW id \in Ids
      PROVE  SubSeq(buffer[id], consumed_chars[id] + 1,
                    consumed_chars[id] + num_chars_available[id]) = UnreadBytes(id)
  <2>1. num_chars_available[id] \in 0..num_chars_available[id]
    BY DEF BufferTypes
  <2>. QED BY <2>1, UnreadFacts DEF UnreadBytes
<1>. QED BY <1>1 DEF Unread, Undelivered

\* Appending to a stretch and cutting it.
LEMMA StretchFacts ==
  ASSUME NEW a \in Nat, NEW n \in Nat, NEW len \in Nat
  PROVE  /\ Stretch(a, n) \o [i \in 1..len |-> (a + n) + i] = Stretch(a, n + len)
         /\ Len(Stretch(a, n)) = n
         /\ len <= n => /\ SubSeq(Stretch(a, n), 1, len) = Stretch(a, len)
                        /\ SubSeq(Stretch(a, n), len + 1, n) = Stretch(a + len, n - len)
<1>1. \A m \in Nat : Stretch(a, m) \in Seq(Nat) /\ Len(Stretch(a, m)) = m
  BY DEF Stretch
<1>2. Stretch(a, n) \o [i \in 1..len |-> (a + n) + i] = Stretch(a, n + len)
  <2>1. PICK r : r = [i \in 1..len |-> (a + n) + i]
    OBVIOUS
  <2>2. r \in Seq(Nat) /\ Len(r) = len
    BY <2>1
  <2>3. PICK q : q = Stretch(a, n) /\ q \in Seq(Nat) /\ Len(q) = n
    BY <1>1
  <2>4. PICK t : t = q \o r
    OBVIOUS
  <2>5. /\ t \in Seq(Nat) /\ Len(t) = n + len
        /\ \A i \in 1..Len(t) : t[i] = IF i <= n THEN q[i] ELSE r[i - n]
    <3>1. /\ t \in Seq(Nat) /\ Len(t) = Len(q) + Len(r)
          /\ \A i \in 1..Len(q) + Len(r) :
               t[i] = IF i <= Len(q) THEN q[i] ELSE r[i - Len(q)]
      <4>1. q \in Seq(Nat) /\ r \in Seq(Nat)
        BY <2>2, <2>3
      <4>2. /\ q \o r \in Seq(Nat) /\ Len(q \o r) = Len(q) + Len(r)
            /\ \A i \in 1..Len(q) + Len(r) :
                 (q \o r)[i] = IF i <= Len(q) THEN q[i] ELSE r[i - Len(q)]
        BY <4>1, ConcatProperties
      <4>. QED BY <2>4, <4>2, Zenon
    <3>. QED BY <2>2, <2>3, <3>1
  <2>6. \A i \in 1..n + len : t[i] = a + i
    <3>. SUFFICES ASSUME NEW i \in 1..n + len PROVE t[i] = a + i
      OBVIOUS
    <3>1. CASE i <= n
      BY <2>3, <2>5, <3>1 DEF Stretch
    <3>2. CASE i > n
      <4>1. t[i] = r[i - n] /\ i - n \in 1..len
        BY <2>5, <3>2
      <4>2. r[i - n] = (a + n) + (i - n)
        BY <2>1, <4>1
      <4>. QED BY <4>1, <4>2
    <3>. QED BY <3>1, <3>2
  <2>7. t = [i \in 1..Len(t) |-> t[i]]
    BY <2>5
  <2>. QED BY <2>1, <2>3, <2>4, <2>5, <2>6, <2>7 DEF Stretch
<1>3. ASSUME len <= n PROVE SubSeq(Stretch(a, n), 1, len) = Stretch(a, len)
  <2>1. PICK q : q = Stretch(a, n) /\ q \in Seq(Nat) /\ Len(q) = n
    BY <1>1
  <2>2. SubSeq(q, 0 + 1, 0 + len) = [i \in 1..len |-> q[0 + i]]
    BY <1>3, <2>1, SliceFacts
  <2>3. \A i \in 1..len : q[0 + i] = a + i
    BY <1>3, <2>1 DEF Stretch
  <2>4. 0 + 1 = 1 /\ 0 + len = len
    OBVIOUS
  <2>. QED BY <2>1, <2>2, <2>3, <2>4 DEF Stretch
<1>4. ASSUME len <= n PROVE SubSeq(Stretch(a, n), len + 1, n) = Stretch(a + len, n - len)
  <2>1. PICK q, m : q = Stretch(a, n) /\ q \in Seq(Nat) /\ Len(q) = n /\ m = n - len
    BY <1>1
  <2>2. m \in Nat /\ len + m = n
    BY <1>4, <2>1
  <2>3. SubSeq(q, len + 1, len + m) = [i \in 1..m |-> q[len + i]]
    BY <2>1, <2>2, SliceFacts
  <2>4. \A i \in 1..m : q[len + i] = (a + len) + i
    BY <2>1, <2>2 DEF Stretch
  <2>. QED BY <2>1, <2>2, <2>3, <2>4 DEF Stretch
<1>. QED BY <1>1, <1>2, <1>3, <1>4

Delivered == [from |-> last_read.pipe, bytes |-> last_read.bytes]

LEMMA WriteStream ==
  ASSUME BufferTypes, BufferInv, NEW id \in Ids, NEW len \in Lengths,
         num_chars_available' =
              [num_chars_available EXCEPT ![id] = num_chars_available[id] + len],
         written' = [written EXCEPT ![id] = written[id] + len], UNCHANGED last_read,
         UnreadAgrees'
  PROVE  Stream!Next
<1>1. Unread = Undelivered /\ Unread' = Undelivered'
  BY UnreadAll DEF UnreadAgrees
<1>2. PICK n, w : n = num_chars_available[id] /\ w = written[id]
  OBVIOUS
<1>3. n \in Nat /\ w \in Nat /\ n <= w /\ len \in Nat \ {0} /\ w - n \in Nat
  BY <1>2, PipeAssumption DEF BufferTypes, BufferInv, Lengths
<1>4. /\ written'[id] = w + len /\ num_chars_available'[id] = n + len
      /\ \A s \in Ids \ {id} : /\ written'[s] = written[s]
                               /\ num_chars_available'[s] = num_chars_available[s]
  BY <1>2 DEF BufferTypes
<1>5. written'[id] - written[id] = len
  BY <1>2, <1>3, <1>4
<1>6. UnreadBytes(id)' = UnreadBytes(id) \o [i \in 1..len |-> w + i]
  <2>1. (w - n) + n = w /\ (w + len) - (n + len) = w - n
    BY <1>3
  <2>2. Stretch(w - n, n) \o [i \in 1..len |-> w + i] = Stretch(w - n, n + len)
    <3>1. PICK a \in Nat : a = w - n
      BY <1>3
    <3>2. Stretch(a, n) \o [i \in 1..len |-> (a + n) + i] = Stretch(a, n + len)
      BY <1>3, StretchFacts
    <3>3. a + n = w
      BY <1>3, <3>1
    <3>. QED BY <3>1, <3>2, <3>3
  <2>. QED BY <1>2, <1>4, <2>1, <2>2 DEF UnreadBytes
<1>7. Unread' = [Unread EXCEPT ![id] = Unread[id] \o [i \in 1..len |-> w + i]]
  <2>1. \A s \in Ids \ {id} : UnreadBytes(s)' = UnreadBytes(s)
    BY <1>4 DEF UnreadBytes
  <2>2. \A s \in Ids : Unread[s] = UnreadBytes(s) /\ Unread'[s] = UnreadBytes(s)'
    BY <1>1 DEF Undelivered
  <2>3. PICK f, g, x : f = Unread /\ g = Unread' /\ x = Unread[id] \o [i \in 1..len |-> w + i]
    OBVIOUS
  <2>4. f = [s \in Ids |-> f[s]] /\ g = [s \in Ids |-> g[s]]
    <3>1. f = [s \in Ids |-> UnreadBytes(s)] /\ g = [s \in Ids |-> UnreadBytes(s)']
      BY <1>1, <2>3 DEF Undelivered
    <3>. QED BY <3>1
  <2>5. g[id] = x /\ \A s \in Ids \ {id} : g[s] = f[s]
    BY <1>6, <2>1, <2>2, <2>3
  <2>6. g = [f EXCEPT ![id] = x]
    BY <2>4, <2>5
  <2>. QED BY <2>3, <2>6
<1>8. /\ written'[id] - written[id] > 0
      /\ written' = [written EXCEPT ![id] = written[id] + (written'[id] - written[id])]
      /\ Unread' = [Unread EXCEPT ![id] = Unread[id] \o
                       [i \in 1..written'[id] - written[id] |-> written[id] + i]]
      /\ Delivered' = Delivered
  <2>1. PICK m : m = written'[id] - written[id]
    OBVIOUS
  <2>2. m = len /\ m > 0 /\ Delivered' = Delivered
    BY <1>3, <1>5, <2>1 DEF Delivered
  <2>3. /\ written' = [written EXCEPT ![id] = written[id] + m]
        /\ Unread' = [Unread EXCEPT ![id] = Unread[id] \o [i \in 1..m |-> written[id] + i]]
    BY <1>2, <1>7, <2>2
  <2>. QED BY <2>1, <2>2, <2>3, Zenon
<1>9. Stream!Write(id)
  BY <1>8, Zenon DEF Stream!Write, Unread, Delivered
<1>. QED BY <1>9 DEF Stream!Next

LEMMA ReadStream ==
  ASSUME BufferTypes, BufferInv, NEW id \in Ids, NEW len \in Lengths,
         len <= num_chars_available[id], written' = written,
         num_chars_available' =
              [num_chars_available EXCEPT ![id] = num_chars_available[id] - len],
         last_read' = [pipe |-> id,
                       bytes |-> Stretch(written[id] - num_chars_available[id], len)],
         UnreadAgrees'
  PROVE  Stream!Next
<1>1. Unread = Undelivered /\ Unread' = Undelivered'
  BY UnreadAll DEF UnreadAgrees
<1>2. PICK n, w : n = num_chars_available[id] /\ w = written[id]
  OBVIOUS
<1>3. n \in Nat /\ w \in Nat /\ n <= w /\ len \in Nat \ {0} /\ w - n \in Nat /\ len <= n
  <2>1. n \in Nat /\ w \in Nat /\ len \in Nat \ {0}
    BY <1>2, PipeAssumption DEF BufferTypes, Lengths
  <2>2. n <= w /\ len <= n
    BY <1>2 DEF BufferInv
  <2>. QED BY <2>1, <2>2
<1>4. /\ num_chars_available'[id] = n - len
      /\ \A s \in Ids \ {id} : num_chars_available'[s] = num_chars_available[s]
  BY <1>2 DEF BufferTypes
<1>5. /\ Len(Stretch(w - n, len)) = len /\ Len(Stretch(w - n, n)) = n
      /\ SubSeq(Stretch(w - n, n), 1, len) = Stretch(w - n, len)
      /\ SubSeq(Stretch(w - n, n), len + 1, n) = Stretch((w - n) + len, n - len)
  <2>1. len \in Nat
    BY <1>3
  <2>. QED BY <1>3, <2>1, StretchFacts
<1>6. Unread[id] = Stretch(w - n, n) /\ Len(Unread[id]) = n
  BY <1>1, <1>2, <1>5 DEF UnreadBytes, Undelivered
<1>7. UnreadBytes(id)' = SubSeq(Unread[id], len + 1, Len(Unread[id]))
  <2>1. w - (n - len) = (w - n) + len
    BY <1>3
  <2>. QED BY <1>2, <1>4, <1>5, <1>6, <2>1 DEF UnreadBytes
<1>8. Unread' = [Unread EXCEPT ![id] = SubSeq(Unread[id], len + 1, Len(Unread[id]))]
  <2>1. \A s \in Ids \ {id} : UnreadBytes(s)' = UnreadBytes(s)
    BY <1>4 DEF UnreadBytes
  <2>2. \A s \in Ids : Unread[s] = UnreadBytes(s) /\ Unread'[s] = UnreadBytes(s)'
    BY <1>1 DEF Undelivered
  <2>3. PICK f, g, x : f = Unread /\ g = Unread' /\ x = SubSeq(Unread[id], len + 1, Len(Unread[id]))
    OBVIOUS
  <2>4. f = [s \in Ids |-> f[s]] /\ g = [s \in Ids |-> g[s]]
    <3>1. f = [s \in Ids |-> UnreadBytes(s)] /\ g = [s \in Ids |-> UnreadBytes(s)']
      BY <1>1, <2>3 DEF Undelivered
    <3>. QED BY <3>1
  <2>5. g[id] = x /\ \A s \in Ids \ {id} : g[s] = f[s]
    BY <1>7, <2>1, <2>2, <2>3
  <2>6. g = [f EXCEPT ![id] = x]
    BY <2>4, <2>5
  <2>. QED BY <2>3, <2>6
<1>9. Delivered' = [from |-> id, bytes |-> SubSeq(Unread[id], 1, len)]
  BY <1>2, <1>5, <1>6 DEF Delivered
<1>10. Len(Delivered'.bytes) = len /\ len \in 1..Len(Unread[id])
  BY <1>3, <1>5, <1>6, <1>9
<1>11. Stream!Read(id)
  BY <1>8, <1>9, <1>10 DEF Stream!Read, Unread, Delivered
<1>. QED BY <1>11 DEF Stream!Next

LEMMA StreamStep ==
  ASSUME PipeTypes, PipeInv, [PipeNext]_vars, UnreadAgrees'
  PROVE  Stream!Next \/ UNCHANGED <<written, Unread, Delivered>>
<1>0. BufferTypes /\ BufferInv
  BY DEF PipeTypes, PipeInv
<1>1. CASE UNCHANGED <<bufferVars, last_read>>
  BY <1>1 DEF bufferVars, Unread, Delivered
<1>2. ASSUME NEW id \in Ids, NEW len \in Lengths, ReadOrBlock(id, len)
      PROVE  Stream!Next \/ UNCHANGED <<written, Unread, Delivered>>
  <2>1. CASE num_chars_available[id] >= len /\ ReadReturns(id, len)
    <3>1. /\ UNCHANGED written
          /\ num_chars_available' =
               [num_chars_available EXCEPT ![id] = num_chars_available[id] - len]
          /\ last_read' = [pipe |-> id,
                           bytes |-> Stretch(written[id] - num_chars_available[id], len)]
      BY <1>0, <2>1, ReadBuffer DEF ReadReturns
    <3>2. len <= num_chars_available[id]
      BY <1>0, <2>1 DEF BufferTypes, Lengths
    <3>. QED BY <1>0, <3>1, <3>2, ReadStream
  <2>. QED BY <1>1, <1>2, <2>1 DEF ReadOrBlock
<1>3. ASSUME NEW id \in Ids, NEW len \in Lengths, KernelPipeWrite(id, len)
      PROVE  Stream!Next
  <2>1. /\ num_chars_available' =
             [num_chars_available EXCEPT ![id] = num_chars_available[id] + len]
        /\ written' = [written EXCEPT ![id] = written[id] + len]
        /\ UNCHANGED last_read
    BY <1>0, <1>3, WriteBuffer DEF KernelPipeWrite
  <2>. QED BY <1>0, <2>1, WriteStream
<1>4. CASE KernelPipeReadResumes
  <2>1. current_proc \in Proc
    BY <1>4 DEF KernelPipeReadResumes, Resuming, PipeTypes, ProcessTypeOK
  <2>2. /\ awaited_read[current_proc].pipe \in Ids /\ awaited_read[current_proc].len \in Lengths
    BY <1>4, <2>1 DEF KernelPipeReadResumes, Resuming, PipeInv, ReadersInv
  <2>. QED BY <1>2, <1>4, <2>2 DEF KernelPipeReadResumes
<1>5. ASSUME NEW id \in Ids, NEW len \in Lengths, KernelPipeRead(id, len)
      PROVE  Stream!Next \/ UNCHANGED <<written, Unread, Delivered>>
  BY <1>2, <1>5 DEF KernelPipeRead
<1>. QED BY <1>1, <1>3, <1>4, <1>5
         DEF PipeNext, KernelPipeInit, KernelReclaim, vars, pipeVars

\* A pipe is a stream: no byte is lost, repeated or read out of order, however the buffer
\* grows and its start is used again (PipeSpec => PipeIsByteStream).
THEOREM PipeImplementsByteStream == PipeSpec => PipeIsByteStream
<1>1. PipeInit => Stream!Init
  <2>. SUFFICES ASSUME PipeInit PROVE Stream!Init
    OBVIOUS
  <2>1. Unread = Undelivered
    BY PipeInitInv, UnreadAll DEF PipeTypes, PipeInv, UnreadAgrees
  <2>2. \A id \in Ids : UnreadBytes(id) = <<>>
    BY DEF PipeInit, UnreadBytes, Stretch
  <2>3. Unread = [id \in Ids |-> <<>>]
    BY <2>1, <2>2 DEF Undelivered
  <2>. QED BY <2>3 DEF PipeInit, Stream!Init, Unread
<1>2. PipeTypes /\ PipeInv => UnreadAgrees
  BY UnreadAll DEF PipeTypes, PipeInv
<1>3. PipeTypes /\ PipeInv /\ [PipeNext]_vars /\ UnreadAgrees'
        => [Stream!Next]_<<written, Unread, Delivered>>
  BY StreamStep
<1>4. PipeSpec => [][Stream!Next]_<<written, Unread, Delivered>>
  BY <1>2, <1>3, PipeInvariant, PTL DEF PipeSpec
<1>. QED BY <1>1, <1>4, PTL DEF PipeSpec, PipeIsByteStream, Stream!Spec, Unread, Delivered

-----------------------------------------------------------------------------
(* No reader is passed over while it is the only one *)

OnlyReader(id, p) == \A q \in Proc \ {p} : awaited_read[q].pipe # id
Unserved(id) == \A e \in Range(waiting_to_read[id]) : num_chars_available[id] < e.len

\* The one reader is the first that a write can serve.
LEMMA SoleReaderServed ==
  ASSUME PipeTypes, PipeInv, NEW id \in Ids, NEW p \in Proc, OnlyReader(id, p),
         NEW n \in Nat, WakeReader(id, n), NEW e \in Range(waiting_to_read'[id])
  PROVE  e.len > n
<1>1. ReaderTypes /\ ReadersInv
  BY DEF PipeTypes, PipeInv
<1>2. PICK q, S : q = waiting_to_read[id] /\ S = FirstServable(id, n)
  OBVIOUS
<1>3. PICK still \in SublistAt(q, DOMAIN q \ S) :
        waiting_to_read' = [waiting_to_read EXCEPT ![id] = still]
  BY <1>2 DEF WakeReader
<1>4. /\ q \in Seq(Readers) /\ NoDuplicates(q) /\ DOMAIN q \ S \in SUBSET DOMAIN q
      /\ waiting_to_read'[id] = still
  BY <1>1, <1>2, <1>3, WaitersFacts DEF ReadersInv, ReaderTypes
<1>5. Range(still) = {q[i] : i \in DOMAIN q \ S}
  BY <1>3, <1>4, SublistFacts
<1>6. PICK j \in DOMAIN q \ S : e = q[j]
  BY <1>4, <1>5
<1>7. \A i \in DOMAIN q : q[i] \in Range(waiting_to_read[id]) /\ q[i].proc = p
  <2>. SUFFICES ASSUME NEW i \in DOMAIN q
                PROVE  q[i] \in Range(waiting_to_read[id]) /\ q[i].proc = p
    OBVIOUS
  <2>1. q[i] \in Range(waiting_to_read[id])
    BY <1>2 DEF Range
  <2>2. awaited_read[q[i].proc] = [pipe |-> id, len |-> q[i].len] /\ q[i].proc \in Proc
    BY <1>1, <2>1, WaitersFacts DEF ReadersInv
  <2>3. awaited_read[q[i].proc].pipe = id
    BY <2>2
  <2>. QED BY <2>1, <2>2, <2>3 DEF OnlyReader
<1>8. \A i \in DOMAIN q : i = j
  <2>. SUFFICES ASSUME NEW i \in DOMAIN q PROVE i = j
    OBVIOUS
  <2>1. q[i] = q[j]
    BY <1>1, <1>6, <1>7, EntryUnique
  <2>. QED BY <1>4, <1>6, <2>1 DEF NoDuplicates
<1>9. ~(e.len <= n)
  <2>. SUFFICES ASSUME e.len <= n PROVE FALSE
    OBVIOUS
  <2>1. \A i \in 1..j - 1 : i \in DOMAIN q /\ i # j
    BY <1>4, <1>6
  <2>2. j \in FirstServable(id, n)
    BY <1>2, <1>6, <1>8, <2>1 DEF FirstServable
  <2>. QED BY <1>2, <1>6, <2>2
<1>10. e.len \in Lengths
  BY <1>1, <1>2, <1>6, <1>7, WaitersFacts
<1>. QED BY <1>9, <1>10 DEF Lengths

LEMMA SoleReaderStep ==
  ASSUME PipeTypes, PipeInv, NEW id \in Ids, NEW p \in Proc, OnlyReader(id, p),
         Unserved(id), [PipeNext]_vars
  PROVE  Unserved(id)'
<1>. SUFFICES ASSUME NEW e \in Range(waiting_to_read'[id])
              PROVE  num_chars_available'[id] < e.len
  BY DEF Unserved
<1>0. BufferTypes /\ BufferInv /\ ReaderTypes /\ ReadersInv
  BY DEF PipeTypes, PipeInv
<1>1. CASE UNCHANGED <<num_chars_available, waiting_to_read>>
  BY <1>1 DEF Unserved
<1>2. ASSUME NEW s \in Ids, NEW len \in Lengths, ReadOrBlock(s, len), current_proc \in Proc
      PROVE  num_chars_available'[id] < e.len
  <2>1. CASE num_chars_available[s] >= len /\ ReadReturns(s, len)
    <3>1. num_chars_available' =
            [num_chars_available EXCEPT ![s] = num_chars_available[s] - len]
      BY <1>0, <2>1, ReadBuffer DEF ReadReturns
    <3>2. e \in Range(waiting_to_read[id]) /\ e.len \in Lengths
      BY <1>0, <2>1, WaitersFacts DEF ReadReturns
    <3>3. num_chars_available[id] < e.len
      BY <3>2 DEF Unserved
    <3>. QED BY <1>0, <3>1, <3>2, <3>3 DEF BufferTypes, Lengths
  <2>2. CASE /\ num_chars_available[s] < len
             /\ waiting_to_read' =
                  [waiting_to_read EXCEPT ![s] = Append(@, [proc |-> current_proc, len |-> len])]
             /\ UNCHANGED bufferVars
    <3>1. PICK new : new = [proc |-> current_proc, len |-> len]
      OBVIOUS
    <3>2. new \in Readers /\ new.len = len /\ waiting_to_read[s] \in Seq(Readers)
      BY <1>0, <1>2, <3>1, WaitersFacts DEF Readers
    <3>3. waiting_to_read'[s] = Append(waiting_to_read[s], new)
      BY <1>0, <2>2, <3>1 DEF ReaderTypes
    <3>4. Range(waiting_to_read'[s]) = Range(waiting_to_read[s]) \cup {new}
      BY <3>2, <3>3, AppendFacts
    <3>5. e \in Range(waiting_to_read[id]) \/ (s = id /\ e = new)
      BY <1>0, <2>2, <3>4 DEF ReaderTypes
    <3>. QED BY <2>2, <3>2, <3>5 DEF Unserved, bufferVars
  <2>. QED BY <1>2, <2>1, <2>2 DEF ReadOrBlock
<1>3. ASSUME NEW s \in Ids, NEW len \in Lengths, KernelPipeWrite(s, len)
      PROVE  num_chars_available'[id] < e.len
  <2>1. /\ num_chars_available' =
             [num_chars_available EXCEPT ![s] = num_chars_available[s] + len]
        /\ WakeReader(s, num_chars_available[s] + len)
    BY <1>0, <1>3, WriteBuffer DEF KernelPipeWrite
  <2>2. CASE s = id
    <3>1. num_chars_available[id] + len \in Nat
      BY <1>0 DEF BufferTypes, Lengths
    <3>2. e.len > num_chars_available[id] + len
      BY <2>1, <2>2, <3>1, SoleReaderServed
    <3>3. num_chars_available'[id] = num_chars_available[id] + len
      BY <1>0, <2>1, <2>2 DEF BufferTypes
    <3>. QED BY <3>2, <3>3
  <2>3. CASE s # id
    <3>1. waiting_to_read'[id] = waiting_to_read[id]
      BY <1>0, <2>1, <2>3 DEF WakeReader, ReaderTypes
    <3>2. num_chars_available'[id] = num_chars_available[id]
      BY <1>0, <2>1, <2>3 DEF BufferTypes
    <3>. QED BY <3>1, <3>2 DEF Unserved
  <2>. QED BY <2>2, <2>3
<1>4. CASE KernelPipeReadResumes
  <2>1. current_proc \in Proc
    BY <1>4 DEF KernelPipeReadResumes, Resuming, PipeTypes, ProcessTypeOK
  <2>2. awaited_read[current_proc].pipe \in Ids /\ awaited_read[current_proc].len \in Lengths
    BY <1>0, <1>4, <2>1 DEF KernelPipeReadResumes, Resuming, ReadersInv
  <2>. QED BY <1>2, <1>4, <2>1, <2>2 DEF KernelPipeReadResumes
<1>5. ASSUME NEW s \in Ids, NEW len \in Lengths, KernelPipeRead(s, len)
      PROVE  num_chars_available'[id] < e.len
  <2>1. current_proc \in Proc
    BY <1>5 DEF KernelPipeRead, Calling, PipeTypes, ProcessTypeOK
  <2>. QED BY <1>2, <1>5, <2>1 DEF KernelPipeRead
<1>. QED BY <1>1, <1>3, <1>4, <1>5
         DEF PipeNext, KernelPipeInit, KernelReclaim, vars, pipeVars, bufferVars

\* While only one process reads from a pipe, it is never left waiting for bytes that are
\* there (PipeSpec => SoleReaderNotStranded).
THEOREM SoleReaderNotStrandedAlways == PipeSpec => SoleReaderNotStranded
<1>1. ASSUME NEW id \in Ids, NEW p \in Proc
      PROVE  PipeSpec => ([](\A q \in Proc \ {p} : awaited_read[q].pipe # id) =>
                          [](\A e \in Range(waiting_to_read[id]) :
                               num_chars_available[id] < e.len))
  <2>1. PipeInit => Unserved(id)
    <3>1. PipeInit => waiting_to_read[id] = <<>>
      BY DEF PipeInit
    <3>. QED BY <3>1, EmptyFacts DEF Unserved
  <2>2. PipeTypes /\ PipeInv /\ OnlyReader(id, p) /\ Unserved(id) /\ [PipeNext]_vars
          => Unserved(id)'
    BY SoleReaderStep
  <2>3. PipeSpec => ([]OnlyReader(id, p) => []Unserved(id))
    BY <2>1, <2>2, PipeInvariant, PTL DEF PipeSpec
  <2>. QED BY <2>3 DEF OnlyReader, Unserved
<1>. QED BY <1>1 DEF SoleReaderNotStranded

=============================================================================
