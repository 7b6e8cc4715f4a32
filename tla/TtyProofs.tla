----------------------------- MODULE TtyProofs -----------------------------
(***************************************************************************)
(* Theorems about Tty: every variable keeps its type and the assert of     *)
(* TrapTtyTransmit never fails, a process that waits for a terminal is in  *)
(* one queue and nowhere else, its buffer is its own unless an exit freed  *)
(* it, nobody waits for input that is there, as many characters as were    *)
(* typed are given or kept, and the device sends the texts of the writers  *)
(* one after the other and in one piece.                                   *)
(***************************************************************************)
EXTENDS Tty, ProcessProofs, WellFoundedInduction

-----------------------------------------------------------------------------
(* The readers that share a line *)

\* Induction over the readers of a queue goes by the least position where a claim fails.
LEMMA LeastFacts ==
  ASSUME NEW S \in SUBSET Nat, S # {}
  PROVE  \E m \in S : \A k \in S : m <= k
<1>1. PICK R : R = OpToRel(<, Nat)
  OBVIOUS
<1>2. IsWellFoundedOn(R, Nat)
  BY <1>1, NatLessThanWellFounded
<1>3. \A i, j \in Nat : i < j => <<i, j>> \in R
  BY <1>1 DEF OpToRel
<1>4. PICK m \in S : \A k \in S : ~(<<k, m>> \in R)
  BY <1>2, WFMin
<1>5. \A k \in S : ~(k < m)
  BY <1>3, <1>4
<1>. QED BY <1>5

\* asked of AskedBy is what its definition says.
LEMMA AskedFacts ==
  ASSUME NEW t, NEW q \in Seq(Proc), q = waiting_to_receive[t],
         NEW L \in [Proc -> Nat], L = tty_receive_len
  PROVE  /\ \A i \in 0..Len(q) : AskedBy(t)[i] \in Nat
         /\ AskedBy(t)[0] = 0
         /\ \A i \in 1..Len(q) : AskedBy(t)[i] = AskedBy(t)[i - 1] + L[q[i]]
<1>. DEFINE D == 0..Len(q)
            Is(f) == f = [i \in D |-> IF i = 0 THEN 0 ELSE f[i - 1] + L[q[i]]]
            UpTo(f, n) == /\ f \in [0..n -> Nat] /\ f[0] = 0
                          /\ \A i \in 1..n : f[i] = f[i - 1] + L[q[i]]
<1>1. AskedBy(t) = CHOOSE f : Is(f)
  BY DEF AskedBy
<1>2. Len(q) \in Nat /\ \A i \in 1..Len(q) : L[q[i]] \in Nat
  OBVIOUS
<1>3. \A n \in D : \E f : UpTo(f, n)
  <2>. DEFINE Bad == {n \in D : ~ \E f : UpTo(f, n)}
  <2>. SUFFICES ASSUME Bad # {} PROVE FALSE
    <3>. HIDE DEF UpTo, D
    <3>. QED OBVIOUS
  <2>1. Bad \in SUBSET Nat
    BY <1>2
  <2>2. PICK n \in Bad : \A k \in Bad : n <= k
    <3>. HIDE DEF Bad
    <3>. QED BY <2>1, LeastFacts
  <2>3. n \in 0..Len(q) /\ ~ \E f : UpTo(f, n)
    BY <2>2
  <2>4. n # 0
    <3>1. UpTo([i \in 0..0 |-> 0], 0)
      OBVIOUS
    <3>. QED BY <2>3, <3>1
  <2>5. n - 1 \in D /\ n - 1 \notin Bad
    <3>1. n - 1 \in D /\ ~(n <= n - 1)
      BY <1>2, <2>3, <2>4
    <3>. QED BY <2>2, <3>1
  <2>6. PICK f : UpTo(f, n - 1)
    BY <2>5
  <2>7. PICK g : g = [i \in 0..n |-> IF i = n THEN f[n - 1] + L[q[n]] ELSE f[i]]
    OBVIOUS
  <2>8. f[n - 1] \in Nat /\ L[q[n]] \in Nat /\ n \in Nat \ {0}
    BY <1>2, <2>3, <2>4, <2>6
  <2>9. UpTo(g, n)
    <3>1. g \in [0..n -> Nat] /\ g[0] = 0
      <4>1. f \in [0..n - 1 -> Nat] /\ f[0] = 0
        BY <2>6
      <4>2. \A i \in 0..n : i # n => i \in 0..n - 1
        BY <2>8
      <4>3. \A i \in 0..n : g[i] \in Nat
        BY <2>7, <2>8, <4>1, <4>2
      <4>4. 0 \in 0..n /\ 0 # n
        BY <2>8
      <4>. QED BY <2>7, <4>1, <4>3, <4>4
    <3>2. ASSUME NEW i \in 1..n PROVE g[i] = g[i - 1] + L[q[i]]
      <4>1. i - 1 \in 0..n /\ i - 1 # n /\ i \in 0..n /\ (i # n => i \in 1..n - 1)
        BY <2>8, <3>2
      <4>2. CASE i = n
        BY <2>7, <4>1, <4>2
      <4>3. CASE i # n
        BY <2>6, <2>7, <4>1, <4>3
      <4>. QED BY <4>2, <4>3
    <3>. QED BY <3>1, <3>2
  <2>. QED BY <2>3, <2>9
<1>4. \E f : Is(f)
  <2>1. Len(q) \in D
    BY <1>2
  <2>2. PICK f : UpTo(f, Len(q))
    <3>. HIDE DEF UpTo, D
    <3>. QED BY <1>3, <2>1
  <2>3. Is(f)
    BY <1>2, <2>2
  <2>. QED BY <2>3
<1>5. PICK s : s = AskedBy(t) /\ Is(s)
  BY <1>1, <1>4
<1>6. /\ s[0] = 0 /\ \A i \in 1..Len(q) : s[i] = s[i - 1] + L[q[i]]
  BY <1>2, <1>5
<1>7. \A i \in D : s[i] \in Nat
  <2>. DEFINE Bad == {n \in D : s[n] \notin Nat}
  <2>. SUFFICES ASSUME Bad # {} PROVE FALSE
    OBVIOUS
  <2>1. Bad \in SUBSET Nat
    BY <1>2
  <2>2. PICK n \in Bad : \A k \in Bad : n <= k
    <3>. HIDE DEF Bad
    <3>. QED BY <2>1, LeastFacts
  <2>3. n \in 1..Len(q) /\ s[n] \notin Nat
    BY <1>2, <1>6, <2>2
  <2>4. n - 1 \in D /\ ~(n <= n - 1)
    BY <1>2, <2>3
  <2>5. s[n - 1] \in Nat
    BY <2>2, <2>4
  <2>6. s[n] = s[n - 1] + L[q[n]] /\ L[q[n]] \in Nat
    BY <1>2, <1>6, <2>3
  <2>. QED BY <2>3, <2>5, <2>6
<1>. QED BY <1>5, <1>6, <1>7

\* More readers ask for no less.
LEMMA AskedGrows ==
  ASSUME NEW t, NEW q \in Seq(Proc), q = waiting_to_receive[t],
         tty_receive_len \in [Proc -> Nat],
         NEW i \in 0..Len(q), NEW j \in i..Len(q)
  PROVE  AskedBy(t)[i] <= AskedBy(t)[j]
<1>1. PICK s, L : s = AskedBy(t) /\ L = tty_receive_len
  OBVIOUS
<1>2. /\ \A k \in 0..Len(q) : s[k] \in Nat
      /\ \A k \in 1..Len(q) : s[k] = s[k - 1] + L[q[k]] /\ L[q[k]] \in Nat
  BY <1>1, AskedFacts
<1>. DEFINE Bad == {k \in i..Len(q) : ~(s[i] <= s[k])}
<1>. SUFFICES ASSUME Bad # {} PROVE FALSE
  BY <1>1
<1>3. Bad \in SUBSET Nat
  OBVIOUS
<1>4. PICK n \in Bad : \A k \in Bad : n <= k
  <2>. HIDE DEF Bad
  <2>. QED BY <1>3, LeastFacts
<1>5. n \in i..Len(q) /\ ~(s[i] <= s[n]) /\ n # i
  BY <1>2, <1>4
<1>6. n - 1 \in i..Len(q) /\ ~(n <= n - 1) /\ n \in 1..Len(q) /\ n - 1 \in 0..Len(q)
  BY <1>5
<1>7. s[i] <= s[n - 1]
  BY <1>4, <1>6
<1>8. s[n] = s[n - 1] + L[q[n]] /\ L[q[n]] \in Nat
  BY <1>2, <1>6
<1>9. s[i] \in Nat /\ s[n - 1] \in Nat
  BY <1>2, <1>6
<1>. HIDE DEF Bad
<1>10. PICK a, b, d, e : a = s[i] /\ b = s[n - 1] /\ d = s[n] /\ e = L[q[n]]
  OBVIOUS
<1>. QED BY <1>5, <1>7, <1>8, <1>9, <1>10

\* The readers q of t in turn ask for s, and n characters reach served of them.
Shares(t, n, q, s, served, taken) ==
  /\ q = waiting_to_receive[t] /\ q \in Seq(Proc)
  /\ s = AskedBy(t) /\ tty_receive_len \in [Proc -> Nat]
  /\ served = Cardinality({i \in DOMAIN q : s[i - 1] < n})
  /\ taken = IF s[served] < n THEN s[served] ELSE n

\* A line of n characters serves the first readers; what the last of them lacks is what
\* the line did not have, and all are served when some of the line is left.
LEMMA ServedFacts ==
  ASSUME NEW t, NEW n \in Nat, NEW q, NEW s, NEW served, NEW taken,
         Shares(t, n, q, s, served, taken)
  PROVE  /\ served \in 0..Len(q) /\ taken \in 0..n
         /\ served > 0 => taken - s[served - 1] \in Nat
         /\ taken < n => served = Len(q)
<1>0. /\ q = waiting_to_receive[t] /\ q \in Seq(Proc)
      /\ s = AskedBy(t) /\ tty_receive_len \in [Proc -> Nat]
      /\ served = Cardinality({i \in DOMAIN q : s[i - 1] < n})
      /\ taken = IF s[served] < n THEN s[served] ELSE n
  BY DEF Shares
<1>1. /\ \A k \in 0..Len(q) : s[k] \in Nat
      /\ \A i \in 0..Len(q) : \A j \in i..Len(q) : s[i] <= s[j]
      /\ Len(q) \in Nat /\ DOMAIN q = 1..Len(q)
  BY <1>0, AskedFacts, AskedGrows
<1>2. PICK P : P = {i \in DOMAIN q : s[i - 1] < n}
  OBVIOUS
<1>. DEFINE T == {k \in 0..Len(q) : k + 1 \notin P}
<1>3. T \in SUBSET Nat /\ T # {}
  <2>1. Len(q) \in T
    BY <1>1, <1>2
  <2>. QED BY <1>1, <2>1
<1>4. PICK m \in T : \A k \in T : m <= k
  <2>. HIDE DEF T
  <2>. QED BY <1>3, LeastFacts
<1>5. m \in 0..Len(q) /\ m + 1 \notin P
  BY <1>4
<1>6. P = 1..m
  <2>1. ASSUME NEW i \in 1..m PROVE i \in P
    <3>1. i - 1 \in 0..Len(q) /\ ~(m <= i - 1) /\ (i - 1) + 1 = i
      BY <1>5, <2>1
    <3>2. i - 1 \notin T
      BY <1>4, <3>1
    <3>. QED BY <3>1, <3>2
  <2>2. ASSUME NEW i \in P, i \notin 1..m PROVE FALSE
    <3>1. i \in 1..Len(q) /\ s[i - 1] < n
      BY <1>1, <1>2, <2>2
    <3>2. i - 1 \in m..Len(q) /\ i - 1 \in 0..Len(q) /\ m + 1 \in 1..Len(q)
      BY <1>5, <2>2, <3>1
    <3>3. s[m] <= s[i - 1] /\ s[m] \in Nat /\ s[i - 1] \in Nat
      BY <1>1, <1>5, <3>2
    <3>4. (m + 1) - 1 = m
      BY <1>5
    <3>5. m + 1 \in P
      BY <1>1, <1>2, <3>1, <3>2, <3>3, <3>4
    <3>. QED BY <1>5, <3>5
  <2>. QED BY <2>1, <2>2
<1>7. served = m
  <2>1. Cardinality(1..m) = m
    BY <1>5, FS_Interval
  <2>. QED BY <1>0, <1>2, <1>6, <2>1
<1>8. served > 0 => /\ s[served - 1] < n /\ s[served - 1] <= s[served]
                    /\ s[served - 1] \in Nat
  <2>. SUFFICES ASSUME served > 0
                PROVE  /\ s[served - 1] < n /\ s[served - 1] <= s[served]
                       /\ s[served - 1] \in Nat
    OBVIOUS
  <2>1. served \in P /\ served - 1 \in 0..Len(q) /\ served \in served - 1..Len(q)
    BY <1>5, <1>6, <1>7
  <2>. QED BY <1>1, <1>2, <2>1
<1>9. taken < n => served = Len(q)
  <2>. SUFFICES ASSUME s[served] < n, served # Len(q) PROVE FALSE
    BY <1>0, <1>1, <1>5, <1>7
  <2>1. served + 1 \in 1..Len(q) /\ (served + 1) - 1 = served
    BY <1>0, <1>1, <1>5, <1>7
  <2>2. served + 1 \in P
    BY <1>1, <1>2, <2>1
  <2>. QED BY <1>5, <1>7, <2>2
<1>10. s[served] \in Nat
  BY <1>1, <1>5, <1>7
<1>. QED BY <1>0, <1>5, <1>7, <1>8, <1>9, <1>10

-----------------------------------------------------------------------------
(* The inductive invariant *)

TtyMachine == {"running", "halted", "crashed", "aborted"}
TtyPending == {"user", "wait", "read", "fatal"}

InputTypes ==
  /\ typed \in [Terminals -> 0..MaxTyped]
  /\ line_buffers \in [Terminals -> Seq(Seq(1..MaxTyped))]
  /\ delivered \in [Terminals -> Seq(1..MaxTyped)]
  /\ split_by_read \subseteq Terminals
  /\ waiting_to_receive \in [Terminals -> Seq(Proc)]
  /\ tty_receive_len \in [Proc -> Nat]

OutputTypes ==
  /\ waiting_to_transmit \in [Terminals -> Seq(Proc)]
  /\ transmitting \in [Terminals -> Chunks \cup {NoChunk}]
  /\ tty_transmit_len \in [Proc -> Nat]
  /\ tty_transmit_pointer \in [Proc -> Nat]

\* TtyTypeOK before it is known that no assert fails, but for the heap.
TtyTypes == ProcessTypeOK(TtyMachine, TtyPending) /\ InputTypes /\ OutputTypes

\* Who reads from terminal t and who writes to it.
ReadersOf(t) == Range(waiting_to_receive[t])
WritersOf(t) == Range(waiting_to_transmit[t])

\* Nobody is in two queues or twice in one.
QueuesApart ==
  \A t, u \in Terminals :
    /\ NoDuplicates(waiting_to_receive[t]) /\ NoDuplicates(waiting_to_transmit[t])
    /\ ReadersOf(t) \cap WritersOf(u) = {}
    /\ t # u => ReadersOf(t) \cap ReadersOf(u) = {} /\ WritersOf(t) \cap WritersOf(u) = {}

\* Nothing of the text of a writer has gone out before it is the first.
OutputInv ==
  /\ FirstIsTransmitting
  /\ \A t \in Terminals : \A p \in WritersOf(t) :
       p # Head(waiting_to_transmit[t]) => tty_transmit_pointer[p] = 0

PlacesInv(E) == PlaceInv(E) /\ FamilyInv(E)

TtyInv == PlacesInv(TtyWaiters) /\ AssertInv /\ QueuesApart /\ NoIdleInput /\ OutputInv

\* What a step proves for the processes that wait for terminals after it.
LEMMA PlacesNow ==
  ASSUME NEW F, F = TtyWaiters', PlaceInv(F)', FamilyInv(F)'
  PROVE  PlacesInv(TtyWaiters)'
BY DEF PlacesInv, PlaceInv, OnePlaceWith, Unborn, Live, FamilyInv, FamilyTreeWith, PcbKept

LEMMA WaitersFacts ==
  ASSUME TtyTypes
  PROVE  /\ TtyWaiters \in SUBSET Proc
         /\ \A p : p \in TtyWaiters <=> \E t \in Terminals : p \in ReadersOf(t) \cup WritersOf(t)
         /\ \A t \in Terminals : /\ waiting_to_receive[t] \in Seq(Proc)
                                 /\ waiting_to_transmit[t] \in Seq(Proc)
                                 /\ ReadersOf(t) \subseteq Proc /\ WritersOf(t) \subseteq Proc
<1>1. \A t \in Terminals : /\ waiting_to_receive[t] \in Seq(Proc)
                           /\ waiting_to_transmit[t] \in Seq(Proc)
  BY DEF TtyTypes, InputTypes, OutputTypes
<1>2. \A t \in Terminals : ReadersOf(t) \subseteq Proc /\ WritersOf(t) \subseteq Proc
  BY <1>1, EmptyFacts DEF ReadersOf, WritersOf
<1>3. \A p : p \in TtyWaiters <=> \E t \in Terminals : p \in ReadersOf(t) \cup WritersOf(t)
  BY DEF TtyWaiters, ReadersOf, WritersOf
<1>. QED BY <1>1, <1>2, <1>3

\* The current process waits for nothing.
LEMMA CurrentIdle ==
  ASSUME TtyTypes, PlacesInv(TtyWaiters), NEW me \in Proc, me = current_proc
  PROVE  me \notin TtyWaiters /\ \A t \in Terminals : me \notin ReadersOf(t) \cup WritersOf(t)
<1>1. PICK E \in SUBSET Proc : E = TtyWaiters
  BY WaitersFacts
<1>2. me \notin E
  BY <1>1, CurrentFacts DEF PlacesInv
<1>. QED BY <1>1, <1>2, WaitersFacts

-----------------------------------------------------------------------------
(* Steps that wake or block somebody, or neither *)

\* No context switch, and the same processes wait.
LEMMA QuietPlaces ==
  ASSUME TtyTypes, PlacesInv(TtyWaiters), TtyWaiters' = TtyWaiters,
         UNCHANGED <<schedVars, clockVars, familyVars>>,
         \A p \in Proc : pending'[p] \in {pending[p], "user"}
  PROVE  PlacesInv(TtyWaiters)'
<1>1. PICK E \in SUBSET Proc : E = TtyWaiters
  BY WaitersFacts
<1>2. Live(E)' = Live(E)
  BY DEF Live, Running, Waiters, schedVars, clockVars, familyVars
<1>3. PlaceInv(E)'
  <2>1. PlaceInv(E)
    BY <1>1 DEF PlacesInv
  <2>. QED BY <1>2, <2>1 DEF PlaceInv, OnePlaceWith, Unborn, Running, Waiters, schedVars,
                            clockVars, familyVars
<1>4. FamilyInv(E)'
  <2>1. FamilyInv(E) /\ next_pid \in Nat
    BY <1>1, ProcessAssumption DEF PlacesInv, TtyTypes, ProcessTypeOK
  <2>. QED BY <1>2, <2>1, FamilyUnchanged DEF TtyTypes, familyVars
<1>. QED BY <1>1, <1>3, <1>4, PlacesNow

\* The current process joins a queue.
LEMMA BlockPlaces ==
  ASSUME TtyTypes, PlacesInv(TtyWaiters), NEW me \in Proc, me = current_proc,
         TtyWaiters' = TtyWaiters \cup {me}, SwitchToNextProc(ready_queue),
         UNCHANGED <<clockVars, familyVars>>,
         NEW v, pending' = [pending EXCEPT ![me] = v]
  PROVE  /\ PlacesInv(TtyWaiters)'
         /\ ready_queue' \in Seq(Proc) /\ current_proc' \in Proc \cup {IDLE_PID}
<1>1. PICK E \in SUBSET Proc : E = TtyWaiters
  BY WaitersFacts
<1>2. PlaceInv(E) /\ FamilyInv(E) /\ next_pid \in Nat
  BY <1>1, ProcessAssumption DEF PlacesInv, TtyTypes, ProcessTypeOK
<1>3. ready_queue \in Seq(Proc) /\ NoDuplicates(ready_queue)
  BY <1>2 DEF TtyTypes, ProcessTypeOK, PlaceInv, OnePlaceWith
<1>4. /\ E = E \cup {} /\ E \cap {} = {}
      /\ Range(ready_queue) = Range(ready_queue) \cup {}
      /\ UNCHANGED <<clock_block_procs, waiting_on_children, next_pid>>
      /\ \A p \in Proc \ {me} : pending'[p] = pending[p]
  BY DEF clockVars, familyVars, TtyTypes, ProcessTypeOK
<1>5. PlaceInv(E \cup {me})' /\ Live(E \cup {me})' = Live(E)
  BY <1>2, <1>3, <1>4, BlockPlace
<1>6. FamilyInv(E \cup {me})'
  BY <1>2, <1>5, FamilyMoved DEF familyVars, TtyTypes
<1>. QED BY <1>1, <1>3, <1>5, <1>6, PlacesNow, SwitchType

\* Processes W go to the ready queue.
LEMMA WakePlaces ==
  ASSUME TtyTypes, PlacesInv(TtyWaiters), NEW W, TtyWaiters = TtyWaiters' \cup W,
         TtyWaiters' \cap W = {}, NEW r \in Seq(Proc), NoDuplicates(r), Range(r) = W,
         ready_queue' = ready_queue \o r,
         UNCHANGED <<current_proc, clockVars, familyVars, pending>>
  PROVE  PlacesInv(TtyWaiters)' /\ ready_queue' \in Seq(Proc)
<1>0. PICK F : F = TtyWaiters'
  OBVIOUS
<1>1. PICK E \in SUBSET Proc : E = TtyWaiters
  BY WaitersFacts
<1>2. PlaceInv(E) /\ FamilyInv(E) /\ next_pid \in Nat /\ E = F \cup W /\ F \cap W = {}
  BY <1>0, <1>1, ProcessAssumption DEF PlacesInv, TtyTypes, ProcessTypeOK
<1>3. ready_queue \in Seq(Proc) /\ NoDuplicates(ready_queue) /\ Range(ready_queue) \cap W = {}
  BY <1>2 DEF TtyTypes, ProcessTypeOK, PlaceInv, OnePlaceWith
<1>4. /\ ready_queue' \in Seq(Proc) /\ NoDuplicates(ready_queue')
      /\ Range(ready_queue') = Range(ready_queue) \cup W
  BY <1>3, ConcatFacts
<1>5. PlaceInv(F)' /\ Live(F)' = Live(E)
  BY <1>2, <1>4, WakePlace DEF clockVars, familyVars
<1>6. FamilyInv(F)'
  <2>1. F \in SUBSET Proc
    BY <1>1, <1>2
  <2>. QED BY <1>2, <1>5, <2>1, FamilyMoved DEF familyVars, TtyTypes
<1>. QED BY <1>0, <1>4, <1>5, <1>6, PlacesNow

LEMMA AssertKept ==
  ASSUME AssertInv, UNCHANGED <<zombie_children, waiting_on_children>>, machine' # "aborted",
         \A p \in Proc : pending'[p] = "wait" => pending[p] = "wait"
  PROVE  AssertInv'
BY DEF AssertInv, WokenHasZombie

-----------------------------------------------------------------------------
(* Steps of Process, and Exit *)

LEMMA QueuesUnchanged ==
  ASSUME UNCHANGED <<inputVars, outputVars>>
  PROVE  /\ TtyWaiters' = TtyWaiters
         /\ InputTypes => InputTypes'
         /\ OutputTypes => OutputTypes'
         /\ QueuesApart => QueuesApart'
         /\ NoIdleInput => NoIdleInput'
         /\ OutputInv => OutputInv'
<1>. USE DEF inputVars, outputVars
<1>1. TtyWaiters' = TtyWaiters
  BY DEF TtyWaiters
<1>2. (InputTypes => InputTypes') /\ (OutputTypes => OutputTypes')
  BY DEF InputTypes, OutputTypes
<1>3. QueuesApart => QueuesApart'
  BY DEF QueuesApart, ReadersOf, WritersOf
<1>4. NoIdleInput => NoIdleInput'
  BY DEF NoIdleInput, ReadersOf
<1>5. OutputInv => OutputInv'
  BY DEF OutputInv, FirstIsTransmitting, FirstChunkOf, Chunk, WritersOf
<1>. QED BY <1>1, <1>2, <1>3, <1>4, <1>5

LEMMA HandlersStep ==
  ASSUME TtyTypes, TtyInv, ProcessHandlers, UNCHANGED <<inputVars, outputVars>>
  PROVE  TtyTypes' /\ TtyInv'
<1>1. PICK E \in SUBSET Proc : E = TtyWaiters
  BY WaitersFacts
<1>2. /\ PlaceInv(E) /\ FamilyInv(E) /\ AssertInv
      /\ ProcessTypeOK(TtyMachine, TtyPending)
      /\ {"running", "aborted"} \subseteq TtyMachine /\ {"user", "wait"} \subseteq TtyPending
  BY <1>1 DEF TtyInv, PlacesInv, TtyTypes, TtyMachine, TtyPending
<1>3. ProcessTypeOK(TtyMachine, TtyPending)'
  BY <1>2, HandlersType
<1>4. PlaceInv(E)' /\ FamilyInv(E)' /\ AssertInv'
  BY <1>2, HandlersPlace, HandlersFamily, HandlersAssert
<1>5. PlacesInv(TtyWaiters)'
  BY <1>1, <1>4, QueuesUnchanged, PlacesNow
<1>. QED BY <1>3, <1>4, <1>5, QueuesUnchanged DEF TtyTypes, TtyInv

\* A step that only stops the machine.
LEMMA StopStep ==
  ASSUME TtyTypes, TtyInv, machine' \in {"halted", "crashed", machine},
         UNCHANGED <<schedVars, clockVars, pending, familyVars, inputVars, outputVars>>
  PROVE  TtyTypes' /\ TtyInv'
<1>1. ProcessTypeOK(TtyMachine, TtyPending)'
  BY DEF TtyTypes, TtyMachine, ProcessTypeOK, schedVars, clockVars, familyVars
<1>2. PlacesInv(TtyWaiters)'
  BY QueuesUnchanged, QuietPlaces DEF TtyInv
<1>3. AssertInv'
  BY AssertKept DEF TtyInv, AssertInv, familyVars
<1>. QED BY <1>1, <1>2, <1>3, QueuesUnchanged DEF TtyTypes, TtyInv

LEMMA ExitStep ==
  ASSUME TtyTypes, TtyInv, TtyExit
  PROVE  TtyTypes' /\ TtyInv'
<1>1. CASE machine' = "crashed" /\ UNCHANGED <<schedVars, familyVars>>
  BY <1>1, StopStep DEF TtyExit
<1>2. CASE LeaveFamily(ready_queue) /\ UNCHANGED <<machine, abandoned_pcbs, next_pid>>
  <2>1. /\ UNCHANGED <<clockVars, pending, inputVars, outputVars>>
        /\ current_proc \in Proc /\ pending[current_proc] # "wait"
    BY DEF TtyExit, Exiting, Calling, UserMode, Resuming, TtyTypes, ProcessTypeOK
  <2>2. PICK E \in SUBSET Proc : E = TtyWaiters
    BY WaitersFacts
  <2>3. /\ PlaceInv(E) /\ FamilyInv(E) /\ AssertInv
        /\ ProcessTypeOK(TtyMachine, TtyPending) /\ ready_queue \in Seq(Proc)
    BY <2>2 DEF TtyInv, PlacesInv, TtyTypes, ProcessTypeOK
  <2>4. ProcessTypeOK(TtyMachine, TtyPending)'
    BY <1>2, <2>1, <2>3, LeaveFamilyType
  <2>5. /\ OnePlaceWith(E)'
        /\ Live(E)' = Range(ready_queue) \cup Range(clock_block_procs) \cup Waiters \cup E
    <3>1. /\ NoDuplicates(ready_queue) /\ NoDuplicates(clock_block_procs)
          /\ Range(clock_block_procs) \cap Range(ready_queue) = {}
          /\ Waiters \cap (Range(ready_queue) \cup Range(clock_block_procs)) = {}
          /\ E \cap (Range(ready_queue) \cup Range(clock_block_procs) \cup Waiters) = {}
      BY <2>3 DEF PlaceInv, OnePlaceWith
    <3>. QED BY <1>2, <2>1, <2>3, <3>1, LeaveFamilyPlace
  <2>6. Live(E)' = Live(E) \ {current_proc} /\ current_proc \in Live(E)
    BY <2>1, <2>3, <2>5, CurrentFacts DEF Live
  <2>7. PlaceInv(E)'
    BY <1>2, <2>1, <2>3, <2>5, <2>6 DEF PlaceInv, Unborn
  <2>8. FamilyInv(E)'
    BY <1>2, <2>1, <2>3, <2>6, LeaveFamilyFamily
  <2>9. AssertInv'
    BY <1>2, <2>1, <2>3, LeaveFamilyAssert
  <2>10. PlacesInv(TtyWaiters)'
    BY <2>1, <2>2, <2>7, <2>8, QueuesUnchanged, PlacesNow
  <2>. QED BY <2>1, <2>4, <2>9, <2>10, QueuesUnchanged DEF TtyTypes, TtyInv
<1>. QED BY <1>1, <1>2 DEF TtyExit

-----------------------------------------------------------------------------
(* Queues *)

LEMMA InputKept ==
  ASSUME UNCHANGED inputVars
  PROVE  /\ InputTypes => InputTypes'
         /\ NoIdleInput => NoIdleInput'
         /\ UNCHANGED waiting_to_receive
BY DEF inputVars, InputTypes, NoIdleInput, ReadersOf

LEMMA OutputKept ==
  ASSUME UNCHANGED outputVars
  PROVE  /\ OutputTypes => OutputTypes'
         /\ OutputInv => OutputInv'
         /\ UNCHANGED waiting_to_transmit
BY DEF outputVars, OutputTypes, OutputInv, FirstIsTransmitting, FirstChunkOf, Chunk, WritersOf

\* Queues are what their ranges are, but for the order.
LEMMA SameQueues ==
  ASSUME UNCHANGED <<waiting_to_receive, waiting_to_transmit>>
  PROVE  (QueuesApart => QueuesApart') /\ TtyWaiters' = TtyWaiters
BY DEF QueuesApart, ReadersOf, WritersOf, TtyWaiters

LEMMA WaitersAfter ==
  \A p : p \in TtyWaiters' <=> \E t \in Terminals : p \in ReadersOf(t)' \cup WritersOf(t)'
BY DEF TtyWaiters, ReadersOf, WritersOf

\* Somebody who is in no queue joins the readers of a terminal.
LEMMA ReaderJoins ==
  ASSUME TtyTypes, QueuesApart, NEW me \in Proc, me \notin TtyWaiters, NEW t \in Terminals,
         waiting_to_receive' = [waiting_to_receive EXCEPT ![t] = Append(@, me)],
         UNCHANGED waiting_to_transmit
  PROVE  /\ QueuesApart' /\ TtyWaiters' = TtyWaiters \cup {me}
         /\ ReadersOf(t)' = ReadersOf(t) \cup {me}
         /\ \A u \in Terminals \ {t} : waiting_to_receive'[u] = waiting_to_receive[u]
<1>1. /\ waiting_to_receive'[t] = Append(waiting_to_receive[t], me)
      /\ \A u \in Terminals \ {t} : waiting_to_receive'[u] = waiting_to_receive[u]
  BY DEF TtyTypes, InputTypes
<1>2. \A u \in Terminals : me \notin ReadersOf(u) \cup WritersOf(u)
  BY WaitersFacts
<1>3. /\ ReadersOf(t)' = ReadersOf(t) \cup {me}
      /\ NoDuplicates(waiting_to_receive'[t])
  BY <1>1, <1>2, WaitersFacts, AppendFacts DEF ReadersOf, QueuesApart
<1>4. /\ \A u \in Terminals \ {t} : ReadersOf(u)' = ReadersOf(u)
      /\ \A u \in Terminals : WritersOf(u)' = WritersOf(u)
  BY <1>1 DEF ReadersOf, WritersOf
<1>5. QueuesApart'
  BY <1>1, <1>2, <1>3, <1>4 DEF QueuesApart
<1>6. TtyWaiters' = TtyWaiters \cup {me}
  BY <1>3, <1>4, WaitersFacts, WaitersAfter
<1>. QED BY <1>1, <1>3, <1>5, <1>6

LEMMA WriterJoins ==
  ASSUME TtyTypes, QueuesApart, NEW me \in Proc, me \notin TtyWaiters, NEW t \in Terminals,
         waiting_to_transmit' = [waiting_to_transmit EXCEPT ![t] = Append(@, me)],
         UNCHANGED waiting_to_receive
  PROVE  /\ QueuesApart' /\ TtyWaiters' = TtyWaiters \cup {me}
         /\ WritersOf(t)' = WritersOf(t) \cup {me}
         /\ waiting_to_transmit'[t] = Append(waiting_to_transmit[t], me)
         /\ \A u \in Terminals \ {t} : waiting_to_transmit'[u] = waiting_to_transmit[u]
<1>1. /\ waiting_to_transmit'[t] = Append(waiting_to_transmit[t], me)
      /\ \A u \in Terminals \ {t} : waiting_to_transmit'[u] = waiting_to_transmit[u]
  BY DEF TtyTypes, OutputTypes
<1>2. \A u \in Terminals : me \notin ReadersOf(u) \cup WritersOf(u)
  BY WaitersFacts
<1>3. /\ WritersOf(t)' = WritersOf(t) \cup {me}
      /\ NoDuplicates(waiting_to_transmit'[t])
  BY <1>1, <1>2, WaitersFacts, AppendFacts DEF WritersOf, QueuesApart
<1>4. /\ \A u \in Terminals \ {t} : WritersOf(u)' = WritersOf(u)
      /\ \A u \in Terminals : ReadersOf(u)' = ReadersOf(u)
  BY <1>1 DEF ReadersOf, WritersOf
<1>5. QueuesApart'
  BY <1>1, <1>2, <1>3, <1>4 DEF QueuesApart
<1>6. TtyWaiters' = TtyWaiters \cup {me}
  BY <1>3, <1>4, WaitersFacts, WaitersAfter
<1>. QED BY <1>1, <1>3, <1>5, <1>6

\* Readers W leave the queue of a terminal, and still is what is left of it.
LEMMA ReadersLeave ==
  ASSUME TtyTypes, QueuesApart, NEW t \in Terminals, NEW still \in Seq(Proc),
         NoDuplicates(still), NEW W, ReadersOf(t) = Range(still) \cup W,
         Range(still) \cap W = {},
         waiting_to_receive' = [waiting_to_receive EXCEPT ![t] = still],
         UNCHANGED waiting_to_transmit
  PROVE  /\ QueuesApart' /\ TtyWaiters = TtyWaiters' \cup W /\ TtyWaiters' \cap W = {}
         /\ waiting_to_receive'[t] = still
         /\ \A u \in Terminals \ {t} : waiting_to_receive'[u] = waiting_to_receive[u]
         /\ \A u \in Terminals : ReadersOf(u)' \subseteq ReadersOf(u)
<1>1. /\ waiting_to_receive'[t] = still
      /\ \A u \in Terminals \ {t} : waiting_to_receive'[u] = waiting_to_receive[u]
  BY DEF TtyTypes, InputTypes
<1>2. /\ ReadersOf(t)' = Range(still)
      /\ \A u \in Terminals \ {t} : ReadersOf(u)' = ReadersOf(u)
      /\ \A u \in Terminals : WritersOf(u)' = WritersOf(u)
  BY <1>1 DEF ReadersOf, WritersOf
<1>3. QueuesApart'
  BY <1>1, <1>2 DEF QueuesApart
<1>4. TtyWaiters = TtyWaiters' \cup W
  BY <1>2, WaitersFacts, WaitersAfter
<1>5. TtyWaiters' \cap W = {}
  <2>. SUFFICES ASSUME NEW p \in W, p \in TtyWaiters' PROVE FALSE
    OBVIOUS
  <2>1. PICK u \in Terminals : p \in ReadersOf(u)' \cup WritersOf(u)'
    BY WaitersAfter
  <2>2. p \in ReadersOf(t) /\ p \notin ReadersOf(t)'
    BY <1>2
  <2>. QED BY <1>2, <2>1, <2>2 DEF QueuesApart
<1>. QED BY <1>1, <1>2, <1>3, <1>4, <1>5

LEMMA WritersLeave ==
  ASSUME TtyTypes, QueuesApart, NEW t \in Terminals, NEW still \in Seq(Proc),
         NoDuplicates(still), NEW W, WritersOf(t) = Range(still) \cup W,
         Range(still) \cap W = {},
         waiting_to_transmit' = [waiting_to_transmit EXCEPT ![t] = still],
         UNCHANGED waiting_to_receive
  PROVE  /\ QueuesApart' /\ TtyWaiters = TtyWaiters' \cup W /\ TtyWaiters' \cap W = {}
         /\ waiting_to_transmit'[t] = still
         /\ \A u \in Terminals \ {t} : waiting_to_transmit'[u] = waiting_to_transmit[u]
         /\ \A u \in Terminals : WritersOf(u)' \subseteq WritersOf(u)
<1>1. /\ waiting_to_transmit'[t] = still
      /\ \A u \in Terminals \ {t} : waiting_to_transmit'[u] = waiting_to_transmit[u]
  BY DEF TtyTypes, OutputTypes
<1>2. /\ WritersOf(t)' = Range(still)
      /\ \A u \in Terminals \ {t} : WritersOf(u)' = WritersOf(u)
      /\ \A u \in Terminals : ReadersOf(u)' = ReadersOf(u)
  BY <1>1 DEF ReadersOf, WritersOf
<1>3. QueuesApart'
  BY <1>1, <1>2 DEF QueuesApart
<1>4. TtyWaiters = TtyWaiters' \cup W
  BY <1>2, WaitersFacts, WaitersAfter
<1>5. TtyWaiters' \cap W = {}
  <2>. SUFFICES ASSUME NEW p \in W, p \in TtyWaiters' PROVE FALSE
    OBVIOUS
  <2>1. PICK u \in Terminals : p \in ReadersOf(u)' \cup WritersOf(u)'
    BY WaitersAfter
  <2>2. p \in WritersOf(t) /\ p \notin WritersOf(t)'
    BY <1>2
  <2>. QED BY <1>2, <2>1, <2>2 DEF QueuesApart
<1>. QED BY <1>1, <1>2, <1>3, <1>4, <1>5

-----------------------------------------------------------------------------
(* Input *)

\* A step in which nobody joins or leaves a queue, and lines change at most where nobody
\* reads.
LEMMA QuietInput ==
  ASSUME TtyTypes, TtyInv, InputTypes', NEW t \in Terminals, waiting_to_receive[t] = <<>>,
         \A u \in Terminals \ {t} : line_buffers'[u] = line_buffers[u],
         UNCHANGED <<machine, schedVars, clockVars, pending, familyVars, outputVars,
                     waiting_to_receive>>
  PROVE  TtyTypes' /\ TtyInv'
<1>1. /\ PlacesInv(TtyWaiters) /\ AssertInv /\ QueuesApart /\ NoIdleInput /\ OutputInv
      /\ ProcessTypeOK(TtyMachine, TtyPending) /\ OutputTypes
  BY DEF TtyTypes, TtyInv
<1>2. OutputTypes' /\ OutputInv' /\ QueuesApart' /\ TtyWaiters' = TtyWaiters
  BY <1>1, OutputKept, SameQueues
<1>3. ProcessTypeOK(TtyMachine, TtyPending)'
  BY <1>1 DEF ProcessTypeOK, schedVars, clockVars, familyVars
<1>4. PlacesInv(TtyWaiters)' /\ AssertInv'
  BY <1>1, <1>2, QuietPlaces, AssertKept DEF AssertInv, familyVars
<1>5. NoIdleInput'
  BY <1>1 DEF NoIdleInput, ReadersOf
<1>. QED BY <1>2, <1>3, <1>4, <1>5 DEF TtyTypes, TtyInv

LEMMA ReadLineStep ==
  ASSUME TtyTypes, TtyInv, NEW t \in Terminals, NEW len \in Nat, ReadLine(t, len),
         UNCHANGED <<machine, clockVars, familyVars, outputVars>>
  PROVE  TtyTypes' /\ TtyInv'
<1>1. /\ InputTypes /\ waiting_to_receive[t] = <<>>
      /\ UNCHANGED <<schedVars, pending, typed, waiting_to_receive, tty_receive_len>>
  BY DEF TtyTypes, TtyInv, NoIdleInput, ReadLine, LineThere
<1>2. PICK line, Chars : line = Head(line_buffers[t]) /\ Chars = 1..MaxTyped
  OBVIOUS
<1>3. /\ line_buffers[t] \in Seq(Seq(Chars)) /\ line_buffers[t] # <<>>
      /\ delivered[t] \in Seq(Chars)
  BY <1>1, <1>2 DEF InputTypes, ReadLine, LineThere
<1>4. line \in Seq(Chars) /\ Tail(line_buffers[t]) \in Seq(Seq(Chars))
  BY <1>2, <1>3, HeadTailFacts
<1>5. \A n \in Nat : n <= Len(line) => SubSeq(line, 1, n) \in Seq(Chars)
  <2>. SUFFICES ASSUME NEW n \in Nat, n <= Len(line) PROVE SubSeq(line, 1, n) \in Seq(Chars)
    OBVIOUS
  <2>1. \A i \in 1..n : line[i] \in Chars
    BY <1>4
  <2>. QED BY <2>1, SubSeqProperties
<1>6. CASE Len(line) - len > 0
  <2>1. /\ Len(line) - len \in Nat /\ Len(line) - len <= Len(line) /\ len <= Len(line)
    BY <1>4, <1>6
  <2>2. PICK first, rest : first = SubSeq(line, 1, len) /\ rest = SubSeq(line, 1, Len(line) - len)
    OBVIOUS
  <2>3. first \in Seq(Chars) /\ rest \in Seq(Chars)
    BY <1>5, <2>1, <2>2
  <2>4. /\ delivered' = [delivered EXCEPT ![t] = delivered[t] \o first]
        /\ line_buffers' = [line_buffers EXCEPT ![t] = <<rest>> \o Tail(line_buffers[t])]
        /\ split_by_read' = split_by_read \cup {t}
    BY <1>2, <1>6, <2>2 DEF ReadLine
  <2>5. /\ delivered[t] \o first \in Seq(Chars)
        /\ <<rest>> \o Tail(line_buffers[t]) \in Seq(Seq(Chars))
    <3>1. <<rest>> \in Seq(Seq(Chars))
      BY <2>3
    <3>. QED BY <1>3, <1>4, <2>3, <3>1, ConcatFacts
  <2>6. InputTypes'
    BY <1>1, <1>2, <2>4, <2>5 DEF InputTypes
  <2>7. \A u \in Terminals \ {t} : line_buffers'[u] = line_buffers[u]
    BY <1>1, <2>4 DEF InputTypes
  <2>. QED BY <2>6, <2>7, <1>1, QuietInput DEF TtyTypes
<1>7. CASE ~(Len(line) - len > 0)
  <2>1. /\ delivered' = [delivered EXCEPT ![t] = delivered[t] \o line]
        /\ line_buffers' = [line_buffers EXCEPT ![t] = Tail(line_buffers[t])]
        /\ split_by_read' = split_by_read
    BY <1>2, <1>7 DEF ReadLine
  <2>2. delivered[t] \o line \in Seq(Chars)
    BY <1>3, <1>4
  <2>3. InputTypes'
    BY <1>1, <1>2, <1>4, <2>1, <2>2 DEF InputTypes
  <2>4. \A u \in Terminals \ {t} : line_buffers'[u] = line_buffers[u]
    BY <1>1, <2>1 DEF InputTypes
  <2>. QED BY <2>3, <2>4, <1>1, QuietInput DEF TtyTypes
<1>. QED BY <1>6, <1>7

LEMMA AwaitLineStep ==
  ASSUME TtyTypes, TtyInv, NEW me \in Proc, me = current_proc, NEW t \in Terminals,
         NEW len \in Nat, AwaitLine(t, len),
         UNCHANGED <<machine, clockVars, familyVars, outputVars>>
  PROVE  TtyTypes' /\ TtyInv'
<1>1. /\ PlacesInv(TtyWaiters) /\ AssertInv /\ QueuesApart /\ NoIdleInput /\ OutputInv
      /\ ProcessTypeOK(TtyMachine, TtyPending) /\ OutputTypes /\ InputTypes
  BY DEF TtyTypes, TtyInv
<1>2. /\ line_buffers[t] = <<>>
      /\ waiting_to_receive' = [waiting_to_receive EXCEPT ![t] = Append(@, me)]
      /\ tty_receive_len' = [tty_receive_len EXCEPT ![me] = len]
      /\ pending' = [pending EXCEPT ![me] = "read"]
      /\ SwitchToNextProc(ready_queue)
      /\ UNCHANGED <<typed, line_buffers, delivered, split_by_read>>
  BY DEF AwaitLine, LineThere
<1>3. OutputTypes' /\ OutputInv' /\ UNCHANGED waiting_to_transmit
  BY <1>1, OutputKept
<1>4. me \notin TtyWaiters
  BY <1>1, CurrentIdle
<1>5. /\ QueuesApart' /\ TtyWaiters' = TtyWaiters \cup {me}
      /\ ReadersOf(t)' = ReadersOf(t) \cup {me}
      /\ \A u \in Terminals \ {t} : waiting_to_receive'[u] = waiting_to_receive[u]
  BY <1>1, <1>2, <1>3, <1>4, ReaderJoins
<1>6. /\ PlacesInv(TtyWaiters)'
      /\ ready_queue' \in Seq(Proc) /\ current_proc' \in Proc \cup {IDLE_PID}
  BY <1>1, <1>2, <1>5, BlockPlaces
<1>7. ProcessTypeOK(TtyMachine, TtyPending)'
  BY <1>1, <1>2, <1>6 DEF ProcessTypeOK, clockVars, familyVars, TtyPending
<1>8. InputTypes'
  <2>1. Append(waiting_to_receive[t], me) \in Seq(Proc)
    BY WaitersFacts, AppendFacts
  <2>. QED BY <1>1, <1>2, <2>1 DEF InputTypes
<1>9. NoIdleInput'
  BY <1>1, <1>2, <1>5 DEF NoIdleInput
<1>10. AssertInv'
  BY <1>1, <1>2, AssertKept DEF AssertInv, familyVars, ProcessTypeOK
<1>. QED BY <1>3, <1>5, <1>6, <1>7, <1>8, <1>9, <1>10 DEF TtyTypes, TtyInv

LEMMA ReadReturnsStep ==
  ASSUME TtyTypes, TtyInv, KernelTtyReadReturns
  PROVE  TtyTypes' /\ TtyInv'
<1>1. /\ PlacesInv(TtyWaiters) /\ AssertInv /\ QueuesApart /\ NoIdleInput /\ OutputInv
      /\ ProcessTypeOK(TtyMachine, TtyPending) /\ OutputTypes /\ InputTypes
  BY DEF TtyTypes, TtyInv
<1>2. PICK me \in Proc : me = current_proc
  BY <1>1 DEF KernelTtyReadReturns, Resuming, ProcessTypeOK
<1>3. /\ pending' = [pending EXCEPT ![me] = "user"]
      /\ UNCHANGED <<machine, schedVars, clockVars, familyVars, inputVars, outputVars>>
  BY <1>2 DEF KernelTtyReadReturns
<1>4. /\ InputTypes' /\ NoIdleInput' /\ OutputTypes' /\ OutputInv'
      /\ QueuesApart' /\ TtyWaiters' = TtyWaiters
  BY <1>1, <1>3, InputKept, OutputKept, SameQueues
<1>5. \A p \in Proc : pending'[p] \in {pending[p], "user"}
  BY <1>1, <1>3 DEF ProcessTypeOK
<1>6. PlacesInv(TtyWaiters)' /\ AssertInv'
  BY <1>1, <1>3, <1>4, <1>5, QuietPlaces, AssertKept DEF AssertInv, familyVars
<1>7. ProcessTypeOK(TtyMachine, TtyPending)'
  BY <1>1, <1>3 DEF ProcessTypeOK, schedVars, clockVars, familyVars, TtyPending
<1>. QED BY <1>4, <1>6, <1>7 DEF TtyTypes, TtyInv

LEMMA KeepLineStep ==
  ASSUME TtyTypes, TtyInv, NEW t \in Terminals, NEW n \in Nat, TrapTtyRecieve(t, n),
         KeepLine(t, n)
  PROVE  TtyTypes' /\ TtyInv'
<1>1. /\ InputTypes /\ waiting_to_receive[t] = <<>>
      /\ typed[t] + n <= MaxTyped /\ typed' = [typed EXCEPT ![t] = @ + n]
      /\ UNCHANGED <<machine, schedVars, clockVars, pending, familyVars, split_by_read,
                     outputVars, delivered, waiting_to_receive, tty_receive_len>>
  BY DEF TtyTypes, TrapTtyRecieve, KeepLine, schedVars
<1>2. PICK line : line = [i \in 1..n |-> typed[t] + i]
  OBVIOUS
<1>3. line_buffers' = [line_buffers EXCEPT ![t] = Append(line_buffers[t], line)]
  BY <1>2 DEF KeepLine
<1>4. typed[t] \in Nat /\ MaxTyped \in Nat
  BY <1>1, TtyAssumption DEF InputTypes
<1>5. line \in Seq(1..MaxTyped)
  BY <1>1, <1>2, <1>4
<1>6. Append(line_buffers[t], line) \in Seq(Seq(1..MaxTyped))
  BY <1>1, <1>5 DEF InputTypes
<1>7. typed' \in [Terminals -> 0..MaxTyped]
  BY <1>1, <1>4 DEF InputTypes
<1>8. InputTypes' /\ \A u \in Terminals \ {t} : line_buffers'[u] = line_buffers[u]
  BY <1>1, <1>3, <1>6, <1>7 DEF InputTypes
<1>. QED BY <1>1, <1>8, QuietInput

\* The first part of a queue and the rest.
LEMMA CutFacts ==
  ASSUME NEW q \in Seq(Proc), NoDuplicates(q), NEW k \in 0..Len(q)
  PROVE  LET first == SubSeq(q, 1, k)
             still == SubSeq(q, k + 1, Len(q))
         IN /\ first \in Seq(Proc) /\ still \in Seq(Proc)
            /\ NoDuplicates(first) /\ NoDuplicates(still)
            /\ Range(q) = Range(still) \cup Range(first)
            /\ Range(still) \cap Range(first) = {}
            /\ k = Len(q) => still = <<>>
<1>0. PICK n : n = Len(q)
  OBVIOUS
<1>1. PICK first, still : first = SubSeq(q, 1, k) /\ still = SubSeq(q, k + 1, Len(q))
  OBVIOUS
<1>2. /\ n \in Nat /\ k \in 0..n /\ n - k \in Nat
      /\ DOMAIN q = 1..n /\ \A i \in 1..n : q[i] \in Proc
  BY <1>0
<1>3. first \in Seq(Proc) /\ DOMAIN first = 1..k /\ \A i \in 1..k : first[i] = q[i]
  <2>1. \A i \in 1..k : q[i] \in Proc
    BY <1>2
  <2>2. /\ first \in Seq(Proc) /\ Len(first) = (IF 1 <= k THEN k - 1 + 1 ELSE 0)
        /\ \A i \in 1..k - 1 + 1 : first[i] = q[1 + i - 1]
    BY <1>1, <2>1, SubSeqProperties
  <2>. QED BY <2>2
<1>4. /\ still \in Seq(Proc) /\ DOMAIN still = 1..(n - k)
      /\ \A i \in 1..(n - k) : still[i] = q[k + i]
  <2>1. \A i \in k + 1..n : q[i] \in Proc
    BY <1>2
  <2>2. /\ still \in Seq(Proc)
        /\ Len(still) = (IF k + 1 <= n THEN n - (k + 1) + 1 ELSE 0)
        /\ \A i \in 1..n - (k + 1) + 1 : still[i] = q[k + 1 + i - 1]
    BY <1>0, <1>1, <1>2, <2>1, SubSeqProperties
  <2>3. n - (k + 1) + 1 = n - k /\ Len(still) = n - k /\ DOMAIN still = 1..(n - k)
    BY <1>2, <2>2
  <2>4. ASSUME NEW i \in 1..(n - k) PROVE still[i] = q[k + i]
    <3>1. k + 1 + i - 1 = k + i
      OBVIOUS
    <3>. QED BY <2>2, <2>3, <3>1
  <2>. QED BY <2>2, <2>3, <2>4
<1>5. NoDuplicates(first) /\ NoDuplicates(still)
  <2>1. NoDuplicates(first)
    BY <1>2, <1>3 DEF NoDuplicates
  <2>2. ASSUME NEW i \in 1..(n - k), NEW j \in 1..(n - k), i # j
        PROVE  still[i] # still[j]
    <3>1. k + i \in DOMAIN q /\ k + j \in DOMAIN q /\ k + i # k + j
      BY <1>2, <2>2
    <3>. QED BY <1>4, <3>1 DEF NoDuplicates
  <2>. QED BY <1>4, <2>1, <2>2 DEF NoDuplicates
<1>6. Range(q) = Range(still) \cup Range(first)
  <2>1. ASSUME NEW i \in 1..n PROVE q[i] \in Range(still) \cup Range(first)
    <3>1. i \in 1..k \/ (i - k \in 1..(n - k) /\ k + (i - k) = i)
      BY <1>2
    <3>2. CASE i \in 1..k
      BY <1>3, <3>2 DEF Range
    <3>3. CASE i - k \in 1..(n - k) /\ k + (i - k) = i
      <4>1. still[i - k] = q[i]
        BY <1>4, <3>3
      <4>. QED BY <1>4, <3>3, <4>1 DEF Range
    <3>. QED BY <3>1, <3>2, <3>3
  <2>2. Range(first) \subseteq Range(q)
    BY <1>2, <1>3 DEF Range
  <2>3. Range(still) \subseteq Range(q)
    <3>1. \A i \in 1..(n - k) : k + i \in DOMAIN q
      BY <1>2
    <3>. QED BY <1>4, <3>1 DEF Range
  <2>4. Range(q) \subseteq Range(still) \cup Range(first)
    BY <1>2, <2>1 DEF Range
  <2>. QED BY <2>2, <2>3, <2>4
<1>7. Range(still) \cap Range(first) = {}
  <2>. SUFFICES ASSUME NEW i \in 1..k, NEW j \in 1..(n - k), first[i] = still[j] PROVE FALSE
    BY <1>3, <1>4 DEF Range
  <2>1. i \in DOMAIN q /\ k + j \in DOMAIN q /\ i # k + j
    BY <1>2
  <2>. QED BY <1>3, <1>4, <2>1 DEF NoDuplicates
<1>8. k = Len(q) => still = <<>>
  BY <1>0, <1>2, <1>4
<1>. QED BY <1>1, <1>3, <1>4, <1>5, <1>6, <1>7, <1>8

LEMMA ShareLineStep ==
  ASSUME TtyTypes, TtyInv, NEW t \in Terminals, NEW n \in Nat, TrapTtyRecieve(t, n),
         ShareLine(t, n)
  PROVE  TtyTypes' /\ TtyInv'
<1>1. /\ PlacesInv(TtyWaiters) /\ AssertInv /\ QueuesApart /\ NoIdleInput /\ OutputInv
      /\ ProcessTypeOK(TtyMachine, TtyPending) /\ OutputTypes /\ InputTypes
  BY DEF TtyTypes, TtyInv
<1>2. PICK q, s, served, taken :
        /\ q = waiting_to_receive[t] /\ s = AskedBy(t)
        /\ served = Cardinality({i \in DOMAIN q : s[i - 1] < n})
        /\ taken = IF s[served] < n THEN s[served] ELSE n
  OBVIOUS
<1>3. q \in Seq(Proc) /\ NoDuplicates(q) /\ Range(q) = ReadersOf(t) /\ q # <<>>
  BY <1>1, <1>2, WaitersFacts DEF QueuesApart, ReadersOf, ShareLine
<1>4. /\ served \in 0..Len(q) /\ taken \in 0..n
      /\ served > 0 => taken - s[served - 1] \in Nat
      /\ taken < n => served = Len(q)
  <2>1. tty_receive_len \in [Proc -> Nat]
    BY <1>1 DEF InputTypes
  <2>2. Shares(t, n, q, s, served, taken)
    BY <1>2, <1>3, <2>1 DEF Shares
  <2>. QED BY <2>2, ServedFacts
<1>5. PICK first, still : first = SubSeq(q, 1, served) /\ still = SubSeq(q, served + 1, Len(q))
  OBVIOUS
<1>6. /\ first \in Seq(Proc) /\ still \in Seq(Proc)
      /\ NoDuplicates(first) /\ NoDuplicates(still)
      /\ Range(q) = Range(still) \cup Range(first)
      /\ Range(still) \cap Range(first) = {}
      /\ served = Len(q) => still = <<>>
  BY <1>3, <1>4, <1>5, CutFacts
<1>7. /\ ready_queue' = ready_queue \o first
      /\ waiting_to_receive' = [waiting_to_receive EXCEPT ![t] = still]
      /\ tty_receive_len' =
           [p \in Proc |-> IF served > 0 /\ p = q[served]
                           THEN taken - s[served - 1] ELSE tty_receive_len[p]]
      /\ delivered' = [delivered EXCEPT ![t] = @ \o [i \in 1..taken |-> typed[t] + i]]
      /\ line_buffers' =
           [line_buffers EXCEPT ![t] = IF taken < n THEN Append(@, RestOfLine(t, n, taken)) ELSE @]
  BY <1>2, <1>5 DEF ShareLine, StillReading
<1>8. /\ typed[t] + n <= MaxTyped /\ typed' = [typed EXCEPT ![t] = @ + n]
      /\ UNCHANGED <<machine, current_proc, clockVars, pending, familyVars, split_by_read,
                     outputVars>>
  BY DEF TrapTtyRecieve
<1>9. OutputTypes' /\ OutputInv' /\ UNCHANGED waiting_to_transmit
  BY <1>1, <1>8, OutputKept
<1>10. /\ QueuesApart' /\ TtyWaiters = TtyWaiters' \cup Range(first)
       /\ TtyWaiters' \cap Range(first) = {}
       /\ waiting_to_receive'[t] = still
       /\ \A u \in Terminals \ {t} : waiting_to_receive'[u] = waiting_to_receive[u]
       /\ \A u \in Terminals : ReadersOf(u)' \subseteq ReadersOf(u)
  BY <1>1, <1>3, <1>6, <1>7, <1>9, ReadersLeave
<1>11. PlacesInv(TtyWaiters)' /\ ready_queue' \in Seq(Proc)
  BY <1>1, <1>6, <1>7, <1>8, <1>10, WakePlaces
<1>12. AssertInv'
  BY <1>1, <1>8, AssertKept DEF AssertInv, familyVars
<1>13. ProcessTypeOK(TtyMachine, TtyPending)'
  BY <1>1, <1>8, <1>11 DEF ProcessTypeOK, clockVars, familyVars
<1>14. InputTypes'
  <2>1. typed[t] \in Nat /\ MaxTyped \in Nat
    BY <1>1, TtyAssumption DEF InputTypes
  <2>2. PICK given, rest : /\ given = [i \in 1..taken |-> typed[t] + i]
                           /\ rest = RestOfLine(t, n, taken)
    OBVIOUS
  <2>3. given \in Seq(1..MaxTyped)
    BY <1>4, <1>8, <2>1, <2>2
  <2>4. rest \in Seq(1..MaxTyped)
    BY <1>4, <1>8, <2>1, <2>2 DEF RestOfLine
  <2>5. typed' \in [Terminals -> 0..MaxTyped]
    BY <1>1, <1>8, <2>1 DEF InputTypes
  <2>6. delivered' \in [Terminals -> Seq(1..MaxTyped)]
    <3>1. delivered[t] \o given \in Seq(1..MaxTyped)
      BY <1>1, <2>3, ConcatFacts DEF InputTypes
    <3>2. delivered' = [delivered EXCEPT ![t] = delivered[t] \o given]
      BY <1>7, <2>2
    <3>. QED BY <1>1, <3>1, <3>2 DEF InputTypes
  <2>7. line_buffers' \in [Terminals -> Seq(Seq(1..MaxTyped))]
    <3>1. Append(line_buffers[t], rest) \in Seq(Seq(1..MaxTyped))
      BY <1>1, <2>4, AppendFacts DEF InputTypes
    <3>2. line_buffers' \in {line_buffers,
                             [line_buffers EXCEPT ![t] = Append(line_buffers[t], rest)]}
      BY <1>1, <1>7, <2>2 DEF InputTypes
    <3>. QED BY <1>1, <3>1, <3>2 DEF InputTypes
  <2>8. tty_receive_len' \in [Proc -> Nat]
    BY <1>1, <1>4, <1>7 DEF InputTypes
  <2>9. waiting_to_receive' \in [Terminals -> Seq(Proc)]
    BY <1>1, <1>6, <1>7 DEF InputTypes
  <2>. QED BY <1>1, <1>8, <2>5, <2>6, <2>7, <2>8, <2>9 DEF InputTypes
<1>15. NoIdleInput'
  <2>1. ASSUME NEW u \in Terminals, line_buffers'[u] # <<>>
        PROVE  waiting_to_receive'[u] = <<>>
    <3>1. CASE u = t
      <4>1. CASE taken < n
        BY <1>4, <1>6, <1>10, <3>1, <4>1
      <4>2. CASE ~(taken < n)
        <5>1. line_buffers'[t] = line_buffers[t]
          BY <1>1, <1>7, <4>2 DEF InputTypes
        <5>. QED BY <1>1, <1>2, <1>3, <2>1, <3>1, <5>1 DEF NoIdleInput
      <4>. QED BY <4>1, <4>2
    <3>2. CASE u # t
      <4>1. line_buffers'[u] = line_buffers[u]
        BY <1>1, <1>7, <3>2 DEF InputTypes
      <4>. QED BY <1>1, <1>10, <2>1, <3>2, <4>1 DEF NoIdleInput
    <3>. QED BY <3>1, <3>2
  <2>. QED BY <2>1 DEF NoIdleInput
<1>. QED BY <1>9, <1>10, <1>11, <1>12, <1>13, <1>14, <1>15 DEF TtyTypes, TtyInv

-----------------------------------------------------------------------------
(* Output *)

LEMMA ChunkType ==
  ASSUME NEW p \in Proc, NEW from \in Nat, NEW len \in Nat
  PROVE  Chunk(p, from, len) \in Chunks
BY TtyAssumption DEF Chunk, Chunks

LEMMA FirstChunkType ==
  ASSUME OutputTypes, NEW t, NEW writers \in Seq(Proc)
  PROVE  FirstChunkOf(t, writers) \in Chunks \cup {NoChunk}
<1>1. CASE writers = <<>>
  BY <1>1 DEF FirstChunkOf
<1>2. CASE writers # <<>>
  <2>1. Head(writers) \in Proc
    BY <1>2, HeadTailFacts
  <2>. QED BY <1>2, <2>1, ChunkType DEF FirstChunkOf, OutputTypes
<1>. QED BY <1>1, <1>2

\* The device is busy while somebody writes.
LEMMA Transmits ==
  ASSUME TtyTypes, OutputInv, NEW t \in Terminals
  PROVE  transmitting[t] = NoChunk <=> waiting_to_transmit[t] = <<>>
<1>1. PICK q : q = waiting_to_transmit[t] /\ q \in Seq(Proc)
  BY WaitersFacts
<1>2. transmitting[t] = FirstChunkOf(t, q)
  BY <1>1 DEF OutputInv, FirstIsTransmitting
<1>3. CASE q = <<>>
  BY <1>1, <1>2, <1>3 DEF FirstChunkOf
<1>4. CASE q # <<>>
  <2>1. Head(q) \in Proc /\ transmitting[t].proc = Head(q)
    BY <1>1, <1>2, <1>4, HeadTailFacts DEF FirstChunkOf, Chunk
  <2>2. NoChunk.proc \notin Proc
    BY PidFacts DEF NoChunk
  <2>. QED BY <1>1, <1>4, <2>1, <2>2
<1>. QED BY <1>3, <1>4

LEMMA WriteStep ==
  ASSUME TtyTypes, TtyInv, NEW me \in Proc, me = current_proc, NEW t \in Terminals,
         NEW len \in Nat, NEW then \in TtyPending \ {"wait"},
         KernelTtyWriteInternal(t, len, then)
  PROVE  TtyTypes' /\ TtyInv'
<1>1. /\ PlacesInv(TtyWaiters) /\ AssertInv /\ QueuesApart /\ NoIdleInput /\ OutputInv
      /\ ProcessTypeOK(TtyMachine, TtyPending) /\ OutputTypes /\ InputTypes
  BY DEF TtyTypes, TtyInv
<1>2. PICK q, chunk : q = waiting_to_transmit[t] /\ chunk = Chunk(me, 0, len)
  OBVIOUS
<1>3. /\ tty_transmit_len' = [tty_transmit_len EXCEPT ![me] = len]
      /\ tty_transmit_pointer' = [tty_transmit_pointer EXCEPT ![me] = 0]
      /\ transmitting' =
           [transmitting EXCEPT ![t] = IF q = <<>> THEN chunk ELSE transmitting[t]]
      /\ waiting_to_transmit' = [waiting_to_transmit EXCEPT ![t] = Append(@, me)]
      /\ pending' = [pending EXCEPT ![me] = then]
      /\ SwitchToNextProc(ready_queue)
      /\ UNCHANGED <<machine, clockVars, familyVars, inputVars>>
  BY <1>2 DEF KernelTtyWriteInternal, StartsTransmitting
<1>4. InputTypes' /\ NoIdleInput' /\ UNCHANGED waiting_to_receive
  BY <1>1, <1>3, InputKept
<1>5. me \notin TtyWaiters /\ \A u \in Terminals : me \notin WritersOf(u)
  BY <1>1, CurrentIdle
<1>6. /\ QueuesApart' /\ TtyWaiters' = TtyWaiters \cup {me}
      /\ WritersOf(t)' = WritersOf(t) \cup {me}
      /\ waiting_to_transmit'[t] = Append(q, me)
      /\ \A u \in Terminals \ {t} : waiting_to_transmit'[u] = waiting_to_transmit[u]
  BY <1>1, <1>2, <1>3, <1>4, <1>5, WriterJoins
<1>7. /\ PlacesInv(TtyWaiters)'
      /\ ready_queue' \in Seq(Proc) /\ current_proc' \in Proc \cup {IDLE_PID}
  BY <1>1, <1>3, <1>6, BlockPlaces
<1>8. ProcessTypeOK(TtyMachine, TtyPending)'
  BY <1>1, <1>3, <1>7 DEF ProcessTypeOK, clockVars, familyVars
<1>9. AssertInv'
  BY <1>1, <1>3, AssertKept DEF AssertInv, familyVars, ProcessTypeOK
<1>10. q \in Seq(Proc) /\ Append(q, me) \in Seq(Proc) /\ Append(q, me) # <<>>
  BY <1>2, WaitersFacts, AppendFacts
<1>11. OutputTypes'
  <2>1. chunk \in Chunks
    BY <1>2, ChunkType
  <2>2. transmitting' \in [Terminals -> Chunks \cup {NoChunk}]
    BY <1>1, <1>3, <2>1 DEF OutputTypes
  <2>3. waiting_to_transmit' \in [Terminals -> Seq(Proc)]
    BY <1>1, <1>2, <1>3, <1>10 DEF OutputTypes
  <2>. QED BY <1>1, <1>3, <2>2, <2>3 DEF OutputTypes
<1>12. /\ tty_transmit_len'[me] = len /\ tty_transmit_pointer'[me] = 0
       /\ \A p \in Proc \ {me} : /\ tty_transmit_len'[p] = tty_transmit_len[p]
                                 /\ tty_transmit_pointer'[p] = tty_transmit_pointer[p]
  BY <1>1, <1>3 DEF OutputTypes
<1>13. OutputInv'
  <2>1. \A u \in Terminals \ {t} : WritersOf(u)' = WritersOf(u)
    BY <1>6 DEF WritersOf
  <2>2. q # <<>> => Head(Append(q, me)) = Head(q) /\ Head(q) \in Proc /\ Head(q) # me
    <3>. SUFFICES ASSUME q # <<>>
                  PROVE  Head(Append(q, me)) = Head(q) /\ Head(q) \in Proc /\ Head(q) # me
      OBVIOUS
    <3>1. Head(q) \in WritersOf(t) /\ Head(q) \in Proc
      BY <1>2, <1>10, HeadTailFacts DEF WritersOf
    <3>. QED BY <1>5, <1>10, <3>1
  <2>3. q = <<>> => Head(Append(q, me)) = me
    BY <1>10
  <2>4. ASSUME NEW u \in Terminals, NEW p \in WritersOf(u)'
        PROVE  p # Head(waiting_to_transmit'[u]) => tty_transmit_pointer'[p] = 0
    <3>1. CASE p = me
      BY <1>12, <3>1
    <3>2. CASE p # me
      <4>1. p \in WritersOf(u) /\ p \in Proc
        BY <1>6, <2>1, <2>4, <3>2, WaitersFacts
      <4>2. p # Head(waiting_to_transmit[u]) => tty_transmit_pointer[p] = 0
        BY <1>1, <4>1 DEF OutputInv
      <4>3. Head(waiting_to_transmit'[u]) = Head(waiting_to_transmit[u])
        <5>1. CASE u = t
          <6>1. q # <<>>
            BY <1>2, <4>1, <5>1, EmptyFacts DEF WritersOf
          <6>. QED BY <1>2, <1>6, <2>2, <5>1, <6>1
        <5>2. CASE u # t
          BY <1>6, <5>2
        <5>. QED BY <5>1, <5>2
      <4>. QED BY <1>12, <3>2, <4>1, <4>2, <4>3
    <3>. QED BY <3>1, <3>2
  <2>5. ASSUME NEW u \in Terminals
        PROVE  transmitting'[u] = FirstChunkOf(u, waiting_to_transmit[u])'
    <3>1. transmitting[u] = FirstChunkOf(u, waiting_to_transmit[u])
      BY <1>1 DEF OutputInv, FirstIsTransmitting
    <3>2. CASE u = t
      <4>1. waiting_to_transmit'[u] = Append(q, me) /\ waiting_to_transmit[u] = q
        BY <1>2, <1>6, <3>2
      <4>2. CASE q = <<>>
        <5>1. transmitting'[u] = chunk
          BY <1>1, <1>3, <3>2, <4>2 DEF OutputTypes
        <5>. QED BY <1>2, <1>10, <1>12, <2>3, <4>1, <4>2, <5>1 DEF FirstChunkOf, Chunk
      <4>3. CASE q # <<>>
        <5>1. transmitting'[u] = transmitting[u]
          BY <1>1, <1>3, <3>2, <4>3 DEF OutputTypes
        <5>. QED BY <1>10, <1>12, <2>2, <3>1, <4>1, <4>3, <5>1 DEF FirstChunkOf, Chunk
      <4>. QED BY <4>2, <4>3
    <3>3. CASE u # t
      <4>1. /\ waiting_to_transmit'[u] = waiting_to_transmit[u]
            /\ transmitting'[u] = transmitting[u]
        BY <1>1, <1>3, <1>6, <3>3 DEF OutputTypes
      <4>2. PICK r : r = waiting_to_transmit[u] /\ r \in Seq(Proc)
        BY WaitersFacts
      <4>3. r # <<>> => Head(r) \in Proc /\ Head(r) # me
        BY <1>5, <4>2, HeadTailFacts DEF WritersOf
      <4>. QED BY <1>12, <3>1, <4>1, <4>2, <4>3 DEF FirstChunkOf, Chunk
    <3>. QED BY <3>2, <3>3
  <2>. QED BY <2>4, <2>5 DEF OutputInv, FirstIsTransmitting
<1>. QED BY <1>4, <1>6, <1>7, <1>8, <1>9, <1>11, <1>13 DEF TtyTypes, TtyInv

\* The first writer of a terminal writes to no other one.
LEMMA FirstWriter ==
  ASSUME TtyTypes, QueuesApart, NEW t \in Terminals, waiting_to_transmit[t] # <<>>,
         NEW p, p = Head(waiting_to_transmit[t])
  PROVE  /\ p \in Proc /\ p \in WritersOf(t)
         /\ \A u \in Terminals \ {t} : p \notin WritersOf(u)
         /\ \A u \in Terminals \ {t} :
              waiting_to_transmit[u] # <<>> => /\ Head(waiting_to_transmit[u]) \in Proc
                                               /\ Head(waiting_to_transmit[u]) # p
<1>1. \A u \in Terminals : waiting_to_transmit[u] # <<>> =>
        /\ Head(waiting_to_transmit[u]) \in Proc
        /\ Head(waiting_to_transmit[u]) \in WritersOf(u)
  BY WaitersFacts, HeadTailFacts DEF WritersOf
<1>2. \A u \in Terminals \ {t} : p \notin WritersOf(u)
  BY <1>1 DEF QueuesApart
<1>. QED BY <1>1, <1>2

LEMMA NextChunkStep ==
  ASSUME TtyTypes, TtyInv, NEW t \in Terminals, waiting_to_transmit[t] # <<>>, NextChunk(t),
         UNCHANGED <<current_proc, clockVars, pending, familyVars, inputVars>>
  PROVE  TtyTypes' /\ TtyInv'
<1>1. /\ PlacesInv(TtyWaiters) /\ AssertInv /\ QueuesApart /\ NoIdleInput /\ OutputInv
      /\ ProcessTypeOK(TtyMachine, TtyPending) /\ OutputTypes /\ InputTypes
  BY DEF TtyTypes, TtyInv
<1>2. PICK p, left, from : /\ p = Head(waiting_to_transmit[t])
                           /\ left = tty_transmit_len[p] - TERMINAL_MAX_LINE
                           /\ from = tty_transmit_pointer[p] + TERMINAL_MAX_LINE
  OBVIOUS
<1>3. /\ tty_transmit_len[p] > TERMINAL_MAX_LINE
      /\ tty_transmit_pointer' = [tty_transmit_pointer EXCEPT ![p] = from]
      /\ tty_transmit_len' = [tty_transmit_len EXCEPT ![p] = left]
      /\ transmitting' = [transmitting EXCEPT ![t] = Chunk(p, from, left)]
      /\ UNCHANGED <<machine, ready_queue, waiting_to_transmit>>
  BY <1>2 DEF NextChunk
<1>4. /\ p \in Proc
      /\ \A u \in Terminals \ {t} :
           /\ p \notin WritersOf(u)
           /\ waiting_to_transmit[u] # <<>> => /\ Head(waiting_to_transmit[u]) \in Proc
                                               /\ Head(waiting_to_transmit[u]) # p
  BY <1>1, <1>2, FirstWriter
<1>5. InputTypes' /\ NoIdleInput' /\ UNCHANGED waiting_to_receive
  BY <1>1, InputKept
<1>6. QueuesApart' /\ TtyWaiters' = TtyWaiters
  BY <1>1, <1>3, <1>5, SameQueues
<1>7. PlacesInv(TtyWaiters)' /\ AssertInv'
  BY <1>1, <1>3, <1>6, QuietPlaces, AssertKept DEF AssertInv, familyVars, schedVars
<1>8. ProcessTypeOK(TtyMachine, TtyPending)'
  BY <1>1, <1>3 DEF ProcessTypeOK, clockVars, familyVars
<1>9. left \in Nat /\ from \in Nat
  BY <1>1, <1>2, <1>3, <1>4, TtyAssumption DEF OutputTypes
<1>10. Chunk(p, from, left) \in Chunks
  BY <1>4, <1>9, ChunkType
<1>11. OutputTypes'
  BY <1>1, <1>3, <1>4, <1>9, <1>10 DEF OutputTypes
<1>12. /\ tty_transmit_len'[p] = left /\ tty_transmit_pointer'[p] = from
       /\ \A x \in Proc \ {p} : /\ tty_transmit_len'[x] = tty_transmit_len[x]
                                /\ tty_transmit_pointer'[x] = tty_transmit_pointer[x]
       /\ transmitting'[t] = Chunk(p, from, left)
       /\ \A u \in Terminals \ {t} : transmitting'[u] = transmitting[u]
  BY <1>1, <1>3, <1>4 DEF OutputTypes
<1>13. OutputInv'
  <2>1. \A u \in Terminals : WritersOf(u)' = WritersOf(u)
    BY <1>3 DEF WritersOf
  <2>2. ASSUME NEW u \in Terminals, NEW x \in WritersOf(u)
        PROVE  x # Head(waiting_to_transmit[u]) => tty_transmit_pointer'[x] = 0
    <3>1. /\ x \in Proc
          /\ x # Head(waiting_to_transmit[u]) => tty_transmit_pointer[x] = 0
      BY <1>1, <2>2, WaitersFacts DEF OutputInv
    <3>2. x = p => x = Head(waiting_to_transmit[u])
      BY <1>2, <1>4, <2>2
    <3>. QED BY <1>12, <3>1, <3>2
  <2>3. ASSUME NEW u \in Terminals
        PROVE  transmitting'[u] = FirstChunkOf(u, waiting_to_transmit[u])'
    <3>1. CASE u = t
      BY <1>2, <1>3, <1>12, <3>1 DEF FirstChunkOf
    <3>2. CASE u # t
      <4>1. transmitting[u] = FirstChunkOf(u, waiting_to_transmit[u])
        BY <1>1 DEF OutputInv, FirstIsTransmitting
      <4>. QED BY <1>3, <1>4, <1>12, <3>2, <4>1 DEF FirstChunkOf, Chunk
    <3>. QED BY <3>1, <3>2
  <2>. QED BY <1>3, <2>1, <2>2, <2>3 DEF OutputInv, FirstIsTransmitting
<1>. QED BY <1>5, <1>6, <1>7, <1>8, <1>11, <1>13 DEF TtyTypes, TtyInv

LEMMA NextWriterStep ==
  ASSUME TtyTypes, TtyInv, NEW t \in Terminals, waiting_to_transmit[t] # <<>>, NextWriter(t),
         UNCHANGED <<current_proc, clockVars, pending, familyVars, inputVars>>
  PROVE  TtyTypes' /\ TtyInv'
<1>1. /\ PlacesInv(TtyWaiters) /\ AssertInv /\ QueuesApart /\ NoIdleInput /\ OutputInv
      /\ ProcessTypeOK(TtyMachine, TtyPending) /\ OutputTypes /\ InputTypes
  BY DEF TtyTypes, TtyInv
<1>2. PICK q, p, still : /\ q = waiting_to_transmit[t] /\ p = Head(q) /\ still = Tail(q)
  OBVIOUS
<1>3. /\ waiting_to_transmit' = [waiting_to_transmit EXCEPT ![t] = still]
      /\ ready_queue' = Append(ready_queue, p)
      /\ transmitting' = [transmitting EXCEPT ![t] = FirstChunkOf(t, still)]
      /\ UNCHANGED <<machine, tty_transmit_len, tty_transmit_pointer>>
  BY <1>2 DEF NextWriter
<1>4. /\ p \in Proc /\ p \in WritersOf(t) /\ \A u \in Terminals \ {t} : p \notin WritersOf(u)
  BY <1>1, <1>2, FirstWriter
<1>5. InputTypes' /\ NoIdleInput' /\ UNCHANGED waiting_to_receive
  BY <1>1, InputKept
<1>6. q \in Seq(Proc) /\ NoDuplicates(q) /\ q # <<>> /\ Range(q) = WritersOf(t)
  BY <1>1, <1>2, WaitersFacts DEF QueuesApart, WritersOf
<1>7. /\ still \in Seq(Proc) /\ NoDuplicates(still)
      /\ Range(q) = Range(still) \cup {p} /\ Range(still) \cap {p} = {}
  BY <1>2, <1>6, HeadTailFacts
<1>8. /\ QueuesApart' /\ TtyWaiters = TtyWaiters' \cup {p} /\ TtyWaiters' \cap {p} = {}
      /\ waiting_to_transmit'[t] = still
      /\ \A u \in Terminals \ {t} : waiting_to_transmit'[u] = waiting_to_transmit[u]
      /\ \A u \in Terminals : WritersOf(u)' \subseteq WritersOf(u)
  BY <1>1, <1>3, <1>5, <1>6, <1>7, WritersLeave
<1>9. PlacesInv(TtyWaiters)' /\ ready_queue' \in Seq(Proc)
  <2>1. ready_queue \in Seq(Proc)
    BY <1>1 DEF ProcessTypeOK
  <2>2. /\ <<p>> \in Seq(Proc) /\ NoDuplicates(<<p>>) /\ Range(<<p>>) = {p}
        /\ ready_queue' = ready_queue \o <<p>>
    BY <1>3, <1>4, <2>1 DEF NoDuplicates, Range
  <2>. QED BY <1>1, <1>3, <1>8, <2>2, WakePlaces
<1>10. AssertInv'
  BY <1>1, <1>3, AssertKept DEF AssertInv, familyVars
<1>11. ProcessTypeOK(TtyMachine, TtyPending)'
  BY <1>1, <1>3, <1>9 DEF ProcessTypeOK, clockVars, familyVars
<1>12. OutputTypes'
  <2>1. FirstChunkOf(t, still) \in Chunks \cup {NoChunk}
    BY <1>1, <1>7, FirstChunkType
  <2>. QED BY <1>1, <1>3, <1>7, <2>1 DEF OutputTypes
<1>13. OutputInv'
  <2>1. ASSUME NEW u \in Terminals, NEW x \in WritersOf(u)'
        PROVE  /\ tty_transmit_pointer'[x] = tty_transmit_pointer[x]
               /\ x # Head(waiting_to_transmit[u]) => tty_transmit_pointer[x] = 0
               /\ u = t => x # Head(waiting_to_transmit[u])
    <3>1. x \in WritersOf(u) /\ x \in Proc
      BY <1>8, <2>1, WaitersFacts
    <3>2. x # p
      BY <1>8, <2>1, WaitersAfter
    <3>. QED BY <1>1, <1>2, <1>3, <3>1, <3>2 DEF OutputInv, OutputTypes
  <2>2. ASSUME NEW u \in Terminals, NEW x \in WritersOf(u)', x # Head(waiting_to_transmit'[u])
        PROVE  tty_transmit_pointer'[x] = 0
    <3>1. CASE u = t
      BY <2>1, <2>2, <3>1
    <3>2. CASE u # t
      <4>1. waiting_to_transmit'[u] = waiting_to_transmit[u]
        BY <1>8, <3>2
      <4>2. x # Head(waiting_to_transmit[u])
        BY <2>2, <4>1
      <4>. QED BY <2>1, <2>2, <4>2
    <3>. QED BY <3>1, <3>2
  <2>3. ASSUME NEW u \in Terminals
        PROVE  transmitting'[u] = FirstChunkOf(u, waiting_to_transmit[u])'
    <3>1. CASE u = t
      BY <1>1, <1>3, <1>8, <3>1 DEF FirstChunkOf, Chunk, OutputTypes
    <3>2. CASE u # t
      <4>1. transmitting[u] = FirstChunkOf(u, waiting_to_transmit[u])
        BY <1>1 DEF OutputInv, FirstIsTransmitting
      <4>2. /\ transmitting'[u] = transmitting[u]
            /\ waiting_to_transmit'[u] = waiting_to_transmit[u]
        BY <1>1, <1>3, <1>8, <3>2 DEF OutputTypes
      <4>. QED BY <1>3, <4>1, <4>2 DEF FirstChunkOf, Chunk
    <3>. QED BY <3>1, <3>2
  <2>. QED BY <2>1, <2>2, <2>3 DEF OutputInv, FirstIsTransmitting
<1>. QED BY <1>5, <1>8, <1>9, <1>10, <1>11, <1>12, <1>13 DEF TtyTypes, TtyInv

\* The assert of TrapTtyTransmit never fails: the device is busy only while somebody
\* writes.
LEMMA TransmitStep ==
  ASSUME TtyTypes, TtyInv, NEW t \in Terminals, TrapTtyTransmit(t)
  PROVE  TtyTypes' /\ TtyInv'
<1>1. waiting_to_transmit[t] # <<>>
  BY Transmits DEF TrapTtyTransmit, TtyInv
<1>2. /\ NextChunk(t) \/ NextWriter(t)
      /\ UNCHANGED <<current_proc, clockVars, pending, familyVars, inputVars>>
  BY <1>1 DEF TrapTtyTransmit
<1>. QED BY <1>1, <1>2, NextChunkStep, NextWriterStep

-----------------------------------------------------------------------------
(* The invariant *)

LEMMA TtyInitInv == TtyInit => TtyTypes /\ TtyInv
<1>. SUFFICES ASSUME TtyInit PROVE TtyTypes /\ TtyInv
  OBVIOUS
<1>1. ProcessInit
  BY DEF TtyInit
<1>2. ProcessTypeOK(TtyMachine, TtyPending)
  BY <1>1, TypeInit DEF TypeOK, ProcessTypeOK, TtyMachine, TtyPending
<1>3. InputTypes /\ OutputTypes
  <2>1. \A S : <<>> \in Seq(S)
    BY EmptyFacts
  <2>2. 0 \in 0..MaxTyped
    BY TtyAssumption
  <2>. QED BY <2>1, <2>2 DEF TtyInit, InputTypes, OutputTypes
<1>4. \A t \in Terminals : /\ waiting_to_receive[t] = <<>> /\ waiting_to_transmit[t] = <<>>
                           /\ line_buffers[t] = <<>> /\ transmitting[t] = NoChunk
                           /\ ReadersOf(t) = {} /\ WritersOf(t) = {}
  BY EmptyFacts DEF TtyInit, ReadersOf, WritersOf
<1>5. TtyWaiters = {}
  BY <1>4 DEF TtyWaiters, ReadersOf, WritersOf
<1>6. PlacesInv(TtyWaiters) /\ AssertInv
  <2>1. AssertInv
    BY <1>1 DEF ProcessInit, AssertInv, WokenHasZombie
  <2>. QED BY <1>1, <1>5, <2>1, PlaceInit, FamilyInit DEF PlacesInv
<1>7. QueuesApart
  BY <1>4, EmptyFacts DEF QueuesApart
<1>8. NoIdleInput /\ OutputInv
  BY <1>4 DEF NoIdleInput, OutputInv, FirstIsTransmitting, FirstChunkOf
<1>. QED BY <1>2, <1>3, <1>6, <1>7, <1>8 DEF TtyTypes, TtyInv

LEMMA TtyStep ==
  ASSUME TtyTypes, TtyInv, [TtyNext]_vars
  PROVE  TtyTypes' /\ TtyInv'
<1>0. Calling => current_proc \in Proc
  BY DEF Calling, TtyTypes, ProcessTypeOK
<1>1. CASE ProcessHandlers /\ UNCHANGED ttyVars
  BY <1>1, HandlersStep DEF ttyVars
<1>2. ASSUME NEW t \in Terminals, NEW len \in Reads, KernelTtyRead(t, len)
      PROVE  TtyTypes' /\ TtyInv'
  BY <1>0, <1>2, ReadLineStep, AwaitLineStep, TtyAssumption DEF KernelTtyRead
<1>3. CASE KernelTtyReadReturns
  BY <1>3, ReadReturnsStep
<1>4. ASSUME NEW t \in Terminals, NEW n \in 0..TERMINAL_MAX_LINE, TrapTtyRecieve(t, n)
      PROVE  TtyTypes' /\ TtyInv'
  <2>1. n \in Nat /\ (KeepLine(t, n) \/ ShareLine(t, n))
    BY <1>4, TtyAssumption DEF TrapTtyRecieve
  <2>. QED BY <1>4, <2>1, KeepLineStep, ShareLineStep
<1>5. ASSUME NEW t \in Terminals, NEW len \in Nat, NEW then \in TtyPending \ {"wait"},
             KernelTtyWriteInternal(t, len, then)
      PROVE  TtyTypes' /\ TtyInv'
  BY <1>0, <1>5, WriteStep DEF KernelTtyWriteInternal
<1>6. ASSUME NEW t \in Terminals, NEW len \in Writes, KernelTtyWrite(t, len)
      PROVE  TtyTypes' /\ TtyInv'
  BY <1>5, <1>6, TtyAssumption DEF KernelTtyWrite, TtyPending
<1>7. ASSUME NEW t \in Terminals, TrapTtyTransmit(t) PROVE TtyTypes' /\ TtyInv'
  BY <1>7, TransmitStep
<1>8. ASSUME NEW len \in 1..TERMINAL_MAX_LINE, TrapKills(len) PROVE TtyTypes' /\ TtyInv'
  <2>1. CONSOLE \in Terminals
    BY TtyAssumption DEF CONSOLE, Terminals
  <2>2. len \in Nat /\ "fatal" \in TtyPending \ {"wait"}
    BY TtyAssumption DEF TtyPending
  <2>. QED BY <1>5, <1>8, <2>1, <2>2 DEF TrapKills
<1>9. CASE TtyExit
  BY <1>9, ExitStep
<1>10. CASE TtyHaltByInit \/ TrapMemoryEndsKernel \/ HeapBreaks
  BY <1>10, StopStep DEF TtyHaltByInit, TrapMemoryEndsKernel, HeapBreaks, ttyVars
<1>11. CASE UNCHANGED vars
  BY <1>11, StopStep DEF vars, processVars, ttyVars
<1>. QED BY <1>1, <1>2, <1>3, <1>4, <1>6, <1>7, <1>8, <1>9, <1>10, <1>11 DEF TtyNext

LEMMA TtyInvariant == TtySpec => [](TtyTypes /\ TtyInv)
<1>1. TtyTypes /\ TtyInv /\ [TtyNext]_vars => (TtyTypes /\ TtyInv)'
  BY TtyStep
<1>. QED BY <1>1, TtyInitInv, PTL DEF TtySpec

-----------------------------------------------------------------------------
(* The blocks of the kernel heap *)

HeapTypes ==
  /\ tty_receive_buffer \in [Proc -> Blocks \cup {NULL}]
  /\ tty_transmit_buffer \in [Proc -> Blocks \cup {NULL}]
  /\ free_blocks \subseteq Blocks /\ misfreed_blocks \subseteq Blocks

Writing(p) == \E t \in Terminals : p \in WritersOf(t)

\* The first conjunct of BuffersOwned.
BlocksOwned ==
  \A b \in Blocks \ misfreed_blocks :
    /\ \A p, q \in Proc : Owns(p, b) /\ Owns(q, b) => p = q
    /\ b \in free_blocks <=> \A p \in Proc : ~Owns(p, b)

\* Whoever reads or writes has a block, and nobody does both.
WaitersHold ==
  /\ \A t \in Terminals : \A p \in ReadersOf(t) : pending[p] = "read"
  /\ \A p \in Proc : pending[p] = "read" => tty_receive_buffer[p] \in Blocks
  /\ \A p \in Proc : Writing(p) => pending[p] # "read" /\ tty_transmit_buffer[p] \in Blocks

HeapInv == HeapTypes /\ BlocksOwned /\ WaitersHold

LEMMA OwnsMeaning ==
  ASSUME NEW p, NEW b
  PROVE  /\ Owns(p, b) <=> \/ pending[p] = "read" /\ tty_receive_buffer[p] = b
                           \/ Writing(p) /\ tty_transmit_buffer[p] = b
         /\ Owns(p, b)' <=> \/ pending'[p] = "read" /\ tty_receive_buffer'[p] = b
                            \/ Writing(p)' /\ tty_transmit_buffer'[p] = b
BY DEF Owns, Writing, WritersOf

\* A process that gets block b owned none before.
LEMMA AllocatedBlock ==
  ASSUME BlocksOwned, NEW me \in Proc, NEW b \in Blocks, Calloc(b),
         \A c \in Blocks : ~Owns(me, c),
         \A p \in Proc, c \in Blocks : Owns(p, c)' <=> Owns(p, c) \/ (p = me /\ c = b)
  PROVE  BlocksOwned'
<1>1. /\ b \in free_blocks \cup misfreed_blocks /\ free_blocks' = free_blocks \ {b}
      /\ misfreed_blocks' = misfreed_blocks
  BY DEF Calloc
<1>2. ASSUME NEW c \in Blocks, c \notin misfreed_blocks
      PROVE  /\ \A p, q \in Proc : Owns(p, c)' /\ Owns(q, c)' => p = q
             /\ c \in free_blocks' <=> \A p \in Proc : ~Owns(p, c)'
  <2>1. CASE c = b
    <3>1. \A p \in Proc : ~Owns(p, c)
      BY <1>1, <1>2, <2>1 DEF BlocksOwned
    <3>. QED BY <1>1, <2>1, <3>1
  <2>2. CASE c # b
    <3>1. \A p \in Proc : Owns(p, c)' <=> Owns(p, c)
      BY <2>2
    <3>. QED BY <1>1, <1>2, <2>2, <3>1 DEF BlocksOwned
  <2>. QED BY <2>1, <2>2
<1>. QED BY <1>1, <1>2 DEF BlocksOwned

\* A process gives back the only block it owned.
LEMMA ReleasedBlock ==
  ASSUME BlocksOwned, NEW me \in Proc, NEW b \in Blocks, Free(b),
         \A c \in Blocks : Owns(me, c) <=> c = b,
         \A p \in Proc, c \in Blocks : Owns(p, c)' <=> Owns(p, c) /\ p # me
  PROVE  BlocksOwned'
<1>1. free_blocks' = free_blocks \cup {b} /\ misfreed_blocks' = misfreed_blocks
  BY DEF Free
<1>2. ASSUME NEW c \in Blocks, c \notin misfreed_blocks
      PROVE  /\ \A p, q \in Proc : Owns(p, c)' /\ Owns(q, c)' => p = q
             /\ c \in free_blocks' <=> \A p \in Proc : ~Owns(p, c)'
  <2>1. CASE c = b
    <3>1. \A p \in Proc : Owns(p, c) => p = me
      BY <1>2, <2>1 DEF BlocksOwned
    <3>. QED BY <1>1, <2>1, <3>1
  <2>2. CASE c # b
    <3>1. \A p \in Proc : Owns(p, c)' <=> Owns(p, c)
      BY <2>2
    <3>. QED BY <1>1, <1>2, <2>2, <3>1 DEF BlocksOwned
  <2>. QED BY <2>1, <2>2
<1>. QED BY <1>1, <1>2 DEF BlocksOwned

\* Blocks S are freed by somebody who owns none, perhaps no block at all: one that was not
\* misfreed before is free or somebody's, so that it is now.
LEMMA MisfreedBlocks ==
  ASSUME BlocksOwned, NEW S,
         free_blocks' = free_blocks \cup S,
         misfreed_blocks' = misfreed_blocks
                              \cup {b \in S : b \in free_blocks \/ \E q \in Proc : Owns(q, b)},
         \A p \in Proc, c \in Blocks : Owns(p, c)' <=> Owns(p, c)
  PROVE  BlocksOwned'
<1>1. ASSUME NEW c \in Blocks, c \notin misfreed_blocks'
      PROVE  /\ \A p, q \in Proc : Owns(p, c)' /\ Owns(q, c)' => p = q
             /\ c \in free_blocks' <=> \A p \in Proc : ~Owns(p, c)'
  <2>1. c \notin misfreed_blocks
    BY <1>1
  <2>2. c \notin S
    BY <1>1, <2>1 DEF BlocksOwned
  <2>. QED BY <2>1, <2>2 DEF BlocksOwned
<1>. QED BY <1>1 DEF BlocksOwned

-----------------------------------------------------------------------------
(* Steps that take and give back blocks, or neither *)

\* Nobody gets or gives back a buffer.
LEMMA QuietHeap ==
  ASSUME HeapInv, UNCHANGED heapVars,
         \A p \in Proc : pending'[p] = "read" <=> pending[p] = "read",
         \A t \in Terminals : ReadersOf(t)' \subseteq ReadersOf(t) /\ ReadersOf(t) \subseteq Proc,
         UNCHANGED waiting_to_transmit
  PROVE  HeapInv'
<1>1. \A p \in Proc : Writing(p)' <=> Writing(p)
  BY DEF Writing, WritersOf
<1>2. \A p \in Proc, c \in Blocks : Owns(p, c)' <=> Owns(p, c)
  BY <1>1, OwnsMeaning DEF heapVars
<1>3. BlocksOwned'
  BY <1>2 DEF HeapInv, BlocksOwned, heapVars
<1>4. HeapTypes'
  BY DEF HeapInv, HeapTypes, heapVars
<1>5. WaitersHold'
  BY <1>1 DEF HeapInv, WaitersHold, heapVars
<1>. QED BY <1>3, <1>4, <1>5 DEF HeapInv

\* The current process neither reads nor writes unless its handler is yet to return.
LEMMA CurrentOwns ==
  ASSUME TtyTypes, TtyInv, HeapInv, NEW me \in Proc, me = current_proc
  PROVE  /\ ~Writing(me)
         /\ \A c \in Blocks :
              Owns(me, c) <=> pending[me] = "read" /\ tty_receive_buffer[me] = c
<1>1. ~Writing(me)
  BY CurrentIdle DEF TtyInv, Writing
<1>. QED BY <1>1, OwnsMeaning

LEMMA AwaitLineHeap ==
  ASSUME TtyTypes, TtyInv, HeapInv, NEW me \in Proc, me = current_proc, pending[me] = "user",
         NEW t \in Terminals, NEW len, AwaitLine(t, len), UNCHANGED outputVars
  PROVE  HeapInv'
<1>1. PICK b \in Blocks : Calloc(b) /\ tty_receive_buffer' = ReceiveBuffer(b)
  BY DEF AwaitLine
<1>2. /\ tty_receive_buffer' = [tty_receive_buffer EXCEPT ![me] = b]
      /\ pending' = [pending EXCEPT ![me] = "read"]
      /\ waiting_to_receive' = [waiting_to_receive EXCEPT ![t] = Append(@, me)]
      /\ UNCHANGED <<tty_transmit_buffer, waiting_to_transmit>>
  BY <1>1 DEF AwaitLine, ReceiveBuffer, outputVars
<1>3. HeapTypes /\ BlocksOwned /\ WaitersHold /\ pending \in [Proc -> TtyPending]
  BY DEF HeapInv, TtyTypes, ProcessTypeOK
<1>4. /\ pending'[me] = "read" /\ tty_receive_buffer'[me] = b
      /\ \A p \in Proc \ {me} : /\ pending'[p] = pending[p]
                                /\ tty_receive_buffer'[p] = tty_receive_buffer[p]
      /\ \A p \in Proc : Writing(p)' <=> Writing(p)
  BY <1>2, <1>3 DEF HeapTypes, Writing, WritersOf
<1>5. ~Writing(me) /\ \A c \in Blocks : ~Owns(me, c)
  BY CurrentOwns
<1>6. BlocksOwned'
  <2>1. \A p \in Proc, c \in Blocks : Owns(p, c)' <=> Owns(p, c) \/ (p = me /\ c = b)
    <3>. SUFFICES ASSUME NEW p \in Proc, NEW c \in Blocks
                  PROVE  Owns(p, c)' <=> Owns(p, c) \/ (p = me /\ c = b)
      OBVIOUS
    <3>1. CASE p = me
      BY <1>4, <1>5, <3>1, OwnsMeaning
    <3>2. CASE p # me
      BY <1>2, <1>4, <3>2, OwnsMeaning
    <3>. QED BY <3>1, <3>2
  <2>. QED BY <1>1, <1>3, <1>5, <2>1, AllocatedBlock
<1>7. HeapTypes'
  BY <1>1, <1>2, <1>3 DEF HeapTypes, Calloc
<1>8. WaitersHold'
  <2>1. QueuesApart /\ me \notin TtyWaiters
    BY CurrentIdle DEF TtyInv
  <2>2. /\ ReadersOf(t)' = ReadersOf(t) \cup {me}
        /\ \A u \in Terminals \ {t} : ReadersOf(u)' = ReadersOf(u)
    BY <1>2, <2>1, ReaderJoins DEF ReadersOf
  <2>3. \A u \in Terminals : \A p \in ReadersOf(u)' : pending'[p] = "read"
    BY <1>3, <1>4, <2>2, WaitersFacts DEF WaitersHold
  <2>. QED BY <1>2, <1>3, <1>4, <1>5, <2>3 DEF WaitersHold
<1>. QED BY <1>6, <1>7, <1>8 DEF HeapInv

LEMMA ReadReturnsHeap ==
  ASSUME TtyTypes, TtyInv, HeapInv, KernelTtyReadReturns
  PROVE  HeapInv'
<1>1. HeapTypes /\ BlocksOwned /\ WaitersHold /\ pending \in [Proc -> TtyPending]
  BY DEF HeapInv, TtyTypes, ProcessTypeOK
<1>2. PICK me \in Proc : me = current_proc /\ pending[me] = "read"
  BY DEF KernelTtyReadReturns, Resuming, TtyTypes, ProcessTypeOK
<1>3. PICK b \in Blocks : b = tty_receive_buffer[me]
  BY <1>1, <1>2 DEF WaitersHold
<1>4. /\ Free(b) /\ pending' = [pending EXCEPT ![me] = "user"]
      /\ UNCHANGED <<tty_receive_buffer, tty_transmit_buffer, waiting_to_receive,
                     waiting_to_transmit>>
  BY <1>2, <1>3 DEF KernelTtyReadReturns, inputVars, outputVars
<1>5. /\ pending'[me] = "user" /\ \A p \in Proc \ {me} : pending'[p] = pending[p]
      /\ \A p \in Proc : Writing(p)' <=> Writing(p)
      /\ \A t \in Terminals : ReadersOf(t)' = ReadersOf(t)
  BY <1>1, <1>4 DEF Writing, WritersOf, ReadersOf
<1>6. ~Writing(me) /\ \A c \in Blocks : Owns(me, c) <=> c = b
  BY <1>2, <1>3, CurrentOwns
<1>7. BlocksOwned'
  <2>1. \A p \in Proc, c \in Blocks : Owns(p, c)' <=> Owns(p, c) /\ p # me
    BY <1>4, <1>5, <1>6, OwnsMeaning
  <2>. QED BY <1>1, <1>4, <1>6, <2>1, ReleasedBlock
<1>8. HeapTypes'
  BY <1>1, <1>4 DEF HeapTypes, Free
<1>9. WaitersHold'
  <2>1. \A t \in Terminals : me \notin ReadersOf(t) /\ ReadersOf(t) \subseteq Proc
    BY <1>2, CurrentIdle, WaitersFacts DEF TtyInv
  <2>. QED BY <1>1, <1>4, <1>5, <2>1 DEF WaitersHold
<1>. QED BY <1>7, <1>8, <1>9 DEF HeapInv

LEMMA RecieveHeap ==
  ASSUME TtyTypes, TtyInv, HeapInv, NEW t \in Terminals, NEW n \in Nat, TrapTtyRecieve(t, n)
  PROVE  HeapInv'
<1>1. PICK q : q = waiting_to_receive[t] /\ q \in Seq(Proc) /\ NoDuplicates(q)
  BY WaitersFacts DEF TtyInv, QueuesApart
<1>2. UNCHANGED <<heapVars, pending, waiting_to_transmit>>
  BY DEF TrapTtyRecieve, outputVars
<1>3. CASE KeepLine(t, n)
  BY <1>2, <1>3, QuietHeap, WaitersFacts DEF KeepLine, ReadersOf
<1>4. CASE ShareLine(t, n)
  <2>1. PICK s, served, taken : Shares(t, n, q, s, served, taken)
    BY <1>1 DEF Shares, TtyTypes, InputTypes
  <2>2. served \in 0..Len(q)
    BY <2>1, ServedFacts
  <2>3. PICK still : still = SubSeq(q, served + 1, Len(q)) /\ Range(still) \subseteq Range(q)
    <3>1. PICK first, still : /\ first = SubSeq(q, 1, served)
                              /\ still = SubSeq(q, served + 1, Len(q))
      OBVIOUS
    <3>2. Range(q) = Range(still) \cup Range(first)
      BY <1>1, <2>2, <3>1, CutFacts
    <3>. QED BY <3>1, <3>2
  <2>4. waiting_to_receive' = [waiting_to_receive EXCEPT ![t] = still]
    BY <1>1, <1>4, <2>1, <2>3 DEF ShareLine, StillReading, Shares
  <2>5. \A u \in Terminals : ReadersOf(u)' \subseteq ReadersOf(u)
    BY <1>1, <2>3, <2>4 DEF ReadersOf, TtyTypes, InputTypes
  <2>. QED BY <1>2, <2>5, QuietHeap, WaitersFacts
<1>. QED BY <1>3, <1>4 DEF TrapTtyRecieve

LEMMA WriteHeap ==
  ASSUME TtyTypes, TtyInv, HeapInv, NEW t \in Terminals, NEW len,
         NEW then, then # "read", KernelTtyWriteInternal(t, len, then)
  PROVE  HeapInv'
<1>1. HeapTypes /\ BlocksOwned /\ WaitersHold /\ pending \in [Proc -> TtyPending]
  BY DEF HeapInv, TtyTypes, ProcessTypeOK
<1>2. PICK me \in Proc : me = current_proc /\ pending[me] = "user"
  BY DEF KernelTtyWriteInternal, Calling, UserMode, TtyTypes, ProcessTypeOK
<1>3. PICK b \in Blocks : /\ Calloc(b)
                          /\ tty_transmit_buffer' = [tty_transmit_buffer EXCEPT ![me] = b]
  BY <1>2 DEF KernelTtyWriteInternal
<1>4. /\ pending' = [pending EXCEPT ![me] = then]
      /\ waiting_to_transmit' = [waiting_to_transmit EXCEPT ![t] = Append(@, me)]
      /\ UNCHANGED <<tty_receive_buffer, waiting_to_receive>>
  BY <1>2 DEF KernelTtyWriteInternal, inputVars
<1>5. QueuesApart /\ me \notin TtyWaiters /\ \A u \in Terminals : me \notin ReadersOf(u)
  BY <1>2, CurrentIdle DEF TtyInv
<1>6. /\ \A p \in Proc : Writing(p)' <=> Writing(p) \/ p = me
      /\ \A u \in Terminals : ReadersOf(u)' = ReadersOf(u) /\ ReadersOf(u) \subseteq Proc
  <2>1. /\ WritersOf(t)' = WritersOf(t) \cup {me}
        /\ \A u \in Terminals \ {t} : waiting_to_transmit'[u] = waiting_to_transmit[u]
    BY <1>4, <1>5, WriterJoins
  <2>. QED BY <1>4, <2>1, WaitersFacts DEF Writing, WritersOf, ReadersOf
<1>7. /\ pending'[me] = then /\ tty_transmit_buffer'[me] = b
      /\ \A p \in Proc \ {me} : /\ pending'[p] = pending[p]
                                /\ tty_transmit_buffer'[p] = tty_transmit_buffer[p]
  BY <1>1, <1>3, <1>4 DEF HeapTypes
<1>8. ~Writing(me) /\ \A c \in Blocks : ~Owns(me, c)
  BY <1>2, CurrentOwns
<1>9. BlocksOwned'
  <2>1. ASSUME NEW p \in Proc, NEW c \in Blocks
        PROVE  Owns(p, c)' <=> Owns(p, c) \/ (p = me /\ c = b)
    <3>1. CASE p = me
      BY <1>6, <1>7, <1>8, <3>1, OwnsMeaning
    <3>2. CASE p # me
      BY <1>4, <1>6, <1>7, <3>2, OwnsMeaning
    <3>. QED BY <3>1, <3>2
  <2>. QED BY <1>1, <1>3, <1>8, <2>1, AllocatedBlock
<1>10. HeapTypes'
  BY <1>1, <1>3, <1>4 DEF HeapTypes, Calloc
<1>11. WaitersHold'
  <2>1. \A u \in Terminals : \A p \in ReadersOf(u)' : pending'[p] = "read"
    BY <1>1, <1>5, <1>6, <1>7 DEF WaitersHold
  <2>2. ASSUME NEW p \in Proc
        PROVE  /\ pending'[p] = "read" => tty_receive_buffer'[p] \in Blocks
               /\ Writing(p)' => pending'[p] # "read" /\ tty_transmit_buffer'[p] \in Blocks
    <3>1. CASE p = me
      BY <1>7, <3>1
    <3>2. CASE p # me
      BY <1>1, <1>4, <1>6, <1>7, <3>2 DEF WaitersHold
    <3>. QED BY <3>1, <3>2
  <2>. QED BY <2>1, <2>2 DEF WaitersHold
<1>. QED BY <1>9, <1>10, <1>11 DEF HeapInv

\* TrapTtyTransmit frees the buffer of a writer that is done.
LEMMA TransmitHeap ==
  ASSUME TtyTypes, TtyInv, HeapInv, NEW t \in Terminals, TrapTtyTransmit(t)
  PROVE  HeapInv'
<1>1. HeapTypes /\ BlocksOwned /\ WaitersHold /\ QueuesApart
  BY DEF HeapInv, TtyInv
<1>2. waiting_to_transmit[t] # <<>>
  BY Transmits DEF TrapTtyTransmit, TtyInv
<1>3. /\ NextChunk(t) \/ NextWriter(t)
      /\ UNCHANGED <<pending, waiting_to_receive, tty_receive_buffer, tty_transmit_buffer>>
  BY <1>2 DEF TrapTtyTransmit, inputVars
<1>4. \A u \in Terminals : ReadersOf(u)' = ReadersOf(u) /\ ReadersOf(u) \subseteq Proc
  BY <1>3, WaitersFacts DEF ReadersOf
<1>5. CASE NextChunk(t)
  BY <1>3, <1>4, <1>5, QuietHeap DEF NextChunk, heapVars
<1>6. CASE NextWriter(t)
  <2>1. PICK q, p, still : /\ q = waiting_to_transmit[t] /\ p = Head(q) /\ still = Tail(q)
    OBVIOUS
  <2>2. /\ p \in Proc /\ p \in WritersOf(t) /\ \A u \in Terminals \ {t} : p \notin WritersOf(u)
    BY <1>1, <1>2, <2>1, FirstWriter
  <2>3. /\ Free(tty_transmit_buffer[p])
        /\ waiting_to_transmit' = [waiting_to_transmit EXCEPT ![t] = still]
    BY <1>6, <2>1 DEF NextWriter
  <2>4. q \in Seq(Proc) /\ NoDuplicates(q) /\ q # <<>> /\ Range(q) = WritersOf(t)
    BY <1>1, <1>2, <2>1, WaitersFacts DEF QueuesApart, WritersOf
  <2>5. /\ still \in Seq(Proc) /\ NoDuplicates(still)
        /\ Range(q) = Range(still) \cup {p} /\ Range(still) \cap {p} = {}
    BY <2>1, <2>4, HeadTailFacts
  <2>6. /\ waiting_to_transmit'[t] = still
        /\ \A u \in Terminals \ {t} : waiting_to_transmit'[u] = waiting_to_transmit[u]
    BY <1>1, <1>3, <2>3, <2>4, <2>5, WritersLeave
  <2>7. \A x \in Proc : Writing(x)' <=> Writing(x) /\ x # p
    <3>1. /\ WritersOf(t) = WritersOf(t)' \cup {p} /\ p \notin WritersOf(t)'
          /\ \A u \in Terminals \ {t} : WritersOf(u)' = WritersOf(u)
      BY <2>4, <2>5, <2>6 DEF WritersOf
    <3>. QED BY <2>2, <3>1 DEF Writing
  <2>8. PICK b \in Blocks : b = tty_transmit_buffer[p] /\ pending[p] # "read" /\ Writing(p)
    BY <1>1, <2>2 DEF WaitersHold, Writing
  <2>9. BlocksOwned'
    <3>1. \A c \in Blocks : Owns(p, c) <=> c = b
      BY <2>8, OwnsMeaning
    <3>2. \A x \in Proc, c \in Blocks : Owns(x, c)' <=> Owns(x, c) /\ x # p
      BY <1>3, <2>7, <2>8, OwnsMeaning
    <3>. QED BY <1>1, <2>2, <2>3, <2>8, <3>1, <3>2, ReleasedBlock
  <2>10. HeapTypes' /\ WaitersHold'
    BY <1>1, <1>3, <1>4, <2>3, <2>7, <2>8 DEF HeapTypes, WaitersHold, Free
  <2>. QED BY <2>9, <2>10 DEF HeapInv
<1>. QED BY <1>3, <1>5, <1>6

\* The blocks that KernelExit frees are not its own any more.
LEMMA ExitHeap ==
  ASSUME TtyTypes, TtyInv, HeapInv, TtyExit
  PROVE  HeapInv'
<1>1. HeapTypes /\ BlocksOwned /\ WaitersHold
  BY DEF HeapInv
<1>2. /\ UNCHANGED <<pending, waiting_to_receive, waiting_to_transmit, tty_receive_buffer,
                     tty_transmit_buffer>>
      /\ \/ UNCHANGED <<free_blocks, misfreed_blocks>>
         \/ /\ free_blocks' = free_blocks \cup LeftBuffers
            /\ misfreed_blocks' = misfreed_blocks \cup NotItsOwn
  BY DEF TtyExit, inputVars, outputVars
<1>3. \A t \in Terminals : ReadersOf(t)' = ReadersOf(t) /\ ReadersOf(t) \subseteq Proc
  BY <1>2, WaitersFacts DEF ReadersOf
<1>4. CASE UNCHANGED <<free_blocks, misfreed_blocks>>
  BY <1>2, <1>3, <1>4, QuietHeap DEF heapVars
<1>5. CASE /\ free_blocks' = free_blocks \cup LeftBuffers
           /\ misfreed_blocks' = misfreed_blocks \cup NotItsOwn
  <2>1. \A p \in Proc : Writing(p)' <=> Writing(p)
    BY <1>2 DEF Writing, WritersOf
  <2>2. \A p \in Proc, c \in Blocks : Owns(p, c)' <=> Owns(p, c)
    BY <1>2, <2>1, OwnsMeaning
  <2>3. BlocksOwned'
    BY <1>1, <1>5, <2>2, MisfreedBlocks DEF NotItsOwn
  <2>4. LeftBuffers \subseteq Blocks
    <3>1. current_proc \in Proc
      BY DEF TtyExit, Exiting, Calling, UserMode, Resuming, TtyTypes, ProcessTypeOK
    <3>. QED BY <1>1, <3>1 DEF HeapTypes, LeftBuffers
  <2>5. HeapTypes'
    BY <1>1, <1>2, <1>5, <2>4 DEF HeapTypes, NotItsOwn
  <2>6. WaitersHold'
    BY <1>1, <1>2, <1>3, <2>1 DEF WaitersHold
  <2>. QED BY <2>3, <2>5, <2>6 DEF HeapInv
<1>. QED BY <1>2, <1>4, <1>5

LEMMA HeapInit ==
  ASSUME TtyInit
  PROVE  HeapInv
<1>1. \A p \in Proc : ~Writing(p) /\ pending[p] = "user"
  BY EmptyFacts DEF TtyInit, ProcessInit, Writing, WritersOf
<1>2. \A t \in Terminals : ReadersOf(t) = {}
  BY EmptyFacts DEF TtyInit, ReadersOf
<1>3. \A p \in Proc, b \in Blocks : ~Owns(p, b)
  BY <1>1, OwnsMeaning
<1>. QED BY <1>1, <1>2, <1>3 DEF TtyInit, HeapInv, HeapTypes, BlocksOwned, WaitersHold

LEMMA HeapStep ==
  ASSUME TtyTypes, TtyInv, HeapInv, [TtyNext]_vars
  PROVE  HeapInv'
<1>0. /\ \A t \in Terminals : ReadersOf(t) \subseteq Proc
      /\ Calling => current_proc \in Proc /\ pending[current_proc] = "user"
  BY WaitersFacts DEF Calling, UserMode, TtyTypes, ProcessTypeOK
<1>1. CASE UNCHANGED <<heapVars, waiting_to_receive, waiting_to_transmit>>
           /\ \A p \in Proc : pending'[p] = "read" <=> pending[p] = "read"
  BY <1>0, <1>1, QuietHeap DEF ReadersOf
<1>2. CASE ProcessHandlers /\ UNCHANGED ttyVars
  <2>1. \A p \in Proc : pending'[p] = "read" <=> pending[p] = "read"
    BY <1>2, HandlersPending DEF TtyTypes
  <2>. QED BY <1>1, <1>2, <2>1 DEF ttyVars, inputVars, outputVars
<1>3. ASSUME NEW t \in Terminals, NEW len, KernelTtyRead(t, len) PROVE HeapInv'
  <2>1. CASE ReadLine(t, len)
    BY <1>1, <1>3, <2>1 DEF ReadLine, KernelTtyRead, outputVars
  <2>2. CASE AwaitLine(t, len)
    BY <1>0, <1>3, <2>2, AwaitLineHeap DEF KernelTtyRead
  <2>. QED BY <1>3, <2>1, <2>2 DEF KernelTtyRead
<1>4. CASE KernelTtyReadReturns
  BY <1>4, ReadReturnsHeap
<1>5. ASSUME NEW t \in Terminals, NEW n \in 0..TERMINAL_MAX_LINE, TrapTtyRecieve(t, n)
      PROVE  HeapInv'
  <2>1. n \in Nat
    BY TtyAssumption
  <2>. QED BY <1>5, <2>1, RecieveHeap
<1>6. ASSUME NEW t \in Terminals, NEW len, KernelTtyWrite(t, len) PROVE HeapInv'
  BY <1>6, WriteHeap DEF KernelTtyWrite
<1>7. ASSUME NEW t \in Terminals, TrapTtyTransmit(t) PROVE HeapInv'
  BY <1>7, TransmitHeap
<1>8. ASSUME NEW len, TrapKills(len) PROVE HeapInv'
  <2>1. CONSOLE \in Terminals
    BY TtyAssumption DEF CONSOLE, Terminals
  <2>. QED BY <1>8, <2>1, WriteHeap DEF TrapKills
<1>9. CASE TtyExit
  BY <1>9, ExitHeap
<1>10. CASE TtyHaltByInit \/ TrapMemoryEndsKernel \/ HeapBreaks \/ UNCHANGED vars
  BY <1>1, <1>10 DEF TtyHaltByInit, TrapMemoryEndsKernel, HeapBreaks, ttyVars, vars,
                     processVars, inputVars, outputVars
<1>. QED BY <1>2, <1>3, <1>4, <1>5, <1>6, <1>7, <1>8, <1>9, <1>10 DEF TtyNext

LEMMA HeapInvariant == TtySpec => []HeapInv
<1>1. TtyTypes /\ TtyInv /\ HeapInv /\ [TtyNext]_vars => HeapInv'
  BY HeapStep
<1>. QED BY <1>1, HeapInit, TtyInvariant, PTL DEF TtySpec

-----------------------------------------------------------------------------
(* The characters of all lines *)

\* What the concatenation is made of: at[i] is the first i lines.
Flattens(at, L) ==
  /\ DOMAIN at = 0..Len(L) /\ at[0] = <<>>
  /\ \A i \in 1..Len(L) : at[i] = at[i - 1] \o L[i]

\* The recursive function within FlattenSeq is defined for any lines, and there is one.
LEMMA FlattenFacts ==
  ASSUME NEW S, NEW L \in Seq(Seq(S))
  PROVE  \E at : /\ Flattens(at, L) /\ Lines!FlattenSeq(L) = at[Len(L)]
                 /\ \A i \in 0..Len(L) : at[i] \in Seq(S)
<1>. DEFINE D == 1..Len(L)
            Is(f) == f = [i \in D |-> IF i = 1 THEN L[i] ELSE f[i - 1] \o L[i]]
            UpTo(f, n) == /\ f \in [0..n -> Seq(S)] /\ f[0] = <<>>
                          /\ \A i \in 1..n : f[i] = f[i - 1] \o L[i]
<1>1. Len(L) \in Nat /\ \A i \in 1..Len(L) : L[i] \in Seq(S)
  BY LenProperties, ElementOfSeq
<1>2. Len(L) # 0 => Lines!FlattenSeq(L) = (CHOOSE f : Is(f))[Len(L)]
  BY DEF Lines!FlattenSeq
<1>3. \A n \in 0..Len(L) : \E f : UpTo(f, n)
  <2>. DEFINE Bad == {n \in 0..Len(L) : ~ \E f : UpTo(f, n)}
  <2>. SUFFICES ASSUME Bad # {} PROVE FALSE
    <3>. HIDE DEF UpTo
    <3>. QED OBVIOUS
  <2>1. Bad \in SUBSET Nat
    <3>. HIDE DEF UpTo
    <3>. QED OBVIOUS
  <2>2. PICK n \in Bad : \A k \in Bad : n <= k
    <3>. HIDE DEF Bad
    <3>. QED BY <2>1, LeastFacts
  <2>3. n \in 0..Len(L) /\ ~ \E f : UpTo(f, n)
    BY <2>2
  <2>4. n # 0
    <3>1. UpTo([i \in 0..0 |-> <<>>], 0)
      BY EmptyFacts
    <3>. QED BY <2>3, <3>1
  <2>5. n - 1 \in 0..Len(L) /\ n - 1 \notin Bad /\ n \in 1..Len(L)
    <3>1. n - 1 \in 0..Len(L) /\ ~(n <= n - 1) /\ n \in 1..Len(L)
      BY <1>1, <2>3, <2>4
    <3>. QED BY <2>2, <3>1
  <2>6. PICK f : UpTo(f, n - 1)
    BY <2>5
  <2>7. PICK x : x = f[n - 1] \o L[n]
    OBVIOUS
  <2>8. x \in Seq(S) /\ n \in Nat \ {0}
    <3>1. n - 1 \in 0..n - 1 /\ n \in Nat \ {0}
      BY <1>1, <2>5
    <3>2. f[n - 1] \in Seq(S) /\ L[n] \in Seq(S)
      BY <1>1, <2>5, <2>6, <3>1
    <3>. QED BY <2>7, <3>1, <3>2, ConcatProperties
  <2>9. PICK g : g = [i \in 0..n |-> IF i = n THEN x ELSE f[i]]
    OBVIOUS
  <2>10. UpTo(g, n)
    <3>1. \A i \in 0..n : i # n => i \in 0..n - 1
      BY <2>8
    <3>2. g \in [0..n -> Seq(S)]
      BY <2>6, <2>8, <2>9, <3>1
    <3>3. g[0] = <<>>
      BY <2>6, <2>8, <2>9
    <3>4. ASSUME NEW i \in 1..n PROVE g[i] = g[i - 1] \o L[i]
      <4>1. i - 1 \in 0..n /\ i - 1 # n /\ i \in 0..n /\ (i # n => i \in 1..n - 1)
        BY <2>8
      <4>2. CASE i = n
        BY <2>7, <2>9, <4>1, <4>2
      <4>3. CASE i # n
        <5>1. g[i] = f[i] /\ g[i - 1] = f[i - 1]
          BY <2>9, <4>1, <4>3
        <5>. QED BY <2>6, <4>1, <4>3, <5>1
      <4>. QED BY <4>2, <4>3
    <3>. QED BY <3>2, <3>3, <3>4
  <2>. QED BY <2>3, <2>10
<1>4. PICK at : UpTo(at, Len(L))
  <2>. HIDE DEF UpTo
  <2>. QED BY <1>1, <1>3
<1>5. Flattens(at, L) /\ \A i \in 0..Len(L) : at[i] \in Seq(S)
  BY <1>4 DEF Flattens
<1>6. Lines!FlattenSeq(L) = at[Len(L)]
  <2>1. CASE Len(L) = 0
    <3>1. Lines!FlattenSeq(L) = L /\ L = <<>>
      BY <2>1 DEF Lines!FlattenSeq
    <3>. QED BY <1>4, <2>1, <3>1
  <2>2. CASE Len(L) # 0
    <3>1. Is([i \in D |-> at[i]])
      <4>1. PICK f : f = [i \in D |-> at[i]]
        OBVIOUS
      <4>2. ASSUME NEW i \in D PROVE f[i] = IF i = 1 THEN L[i] ELSE f[i - 1] \o L[i]
        <5>1. at[i] = at[i - 1] \o L[i] /\ L[i] \in Seq(S)
          BY <1>1, <1>4
        <5>2. CASE i = 1
          <6>1. at[i - 1] = <<>>
            BY <1>4, <5>2
          <6>. QED BY <4>1, <5>1, <5>2, <6>1, ConcatEmptySeq
        <5>3. CASE i # 1
          <6>1. i - 1 \in D
            BY <1>1, <5>3
          <6>. QED BY <4>1, <5>1, <5>3, <6>1
        <5>. QED BY <5>2, <5>3
      <4>3. f = [i \in D |-> IF i = 1 THEN L[i] ELSE f[i - 1] \o L[i]]
        BY <4>1, <4>2
      <4>. QED BY <4>1, <4>3
    <3>2. PICK f : f = (CHOOSE g : Is(g)) /\ Is(f)
      BY <3>1
    <3>3. \A n \in D : f[n] = at[n]
      <4>. DEFINE Bad == {n \in D : f[n] # at[n]}
      <4>. SUFFICES ASSUME Bad # {} PROVE FALSE
        OBVIOUS
      <4>1. Bad \in SUBSET Nat
        BY <1>1
      <4>2. PICK n \in Bad : \A k \in Bad : n <= k
        <5>. HIDE DEF Bad
        <5>. QED BY <4>1, LeastFacts
      <4>3. n \in D /\ f[n] # at[n] /\ at[n] = at[n - 1] \o L[n]
        BY <1>4, <4>2
      <4>4. f[n] = IF n = 1 THEN L[n] ELSE f[n - 1] \o L[n]
        <5>1. f = [i \in D |-> IF i = 1 THEN L[i] ELSE f[i - 1] \o L[i]]
          BY <3>2
        <5>. QED BY <4>3, <5>1
      <4>5. CASE n = 1
        <5>1. at[n - 1] = <<>> /\ L[n] \in Seq(S)
          BY <1>1, <1>4, <4>3, <4>5
        <5>. QED BY <4>3, <4>4, <4>5, <5>1, ConcatEmptySeq
      <4>6. CASE n # 1
        <5>1. n - 1 \in D /\ ~(n <= n - 1)
          BY <1>1, <4>3, <4>6
        <5>2. f[n - 1] = at[n - 1]
          BY <4>2, <5>1
        <5>. QED BY <4>3, <4>4, <4>6, <5>2
      <4>. QED BY <4>5, <4>6
    <3>4. Len(L) \in D /\ Lines!FlattenSeq(L) = f[Len(L)]
      <4>1. Len(L) \in D
        BY <1>1, <2>2
      <4>. HIDE DEF Is
      <4>. QED BY <1>2, <2>2, <3>2, <4>1
    <3>. HIDE DEF Is
    <3>. QED BY <3>3, <3>4
  <2>. QED BY <2>1, <2>2
<1>. QED BY <1>5, <1>6

\* Two functions that agree at the start, and on each argument when they agree on the
\* one before it.
StepsAgree(f, g, n) ==
  /\ n \in Nat /\ f[0] = g[0]
  /\ \A i \in 1..n : f[i - 1] = g[i - 1] => f[i] = g[i]

LEMMA StepByStep ==
  ASSUME NEW f, NEW g, NEW n, StepsAgree(f, g, n)
  PROVE  \A i \in 0..n : f[i] = g[i]
<1>0. /\ n \in Nat /\ f[0] = g[0]
      /\ \A i \in 1..n : f[i - 1] = g[i - 1] => f[i] = g[i]
  BY DEF StepsAgree
<1>. DEFINE Bad == {i \in 0..n : f[i] # g[i]}
<1>. SUFFICES ASSUME Bad # {} PROVE FALSE
  OBVIOUS
<1>1. Bad \in SUBSET Nat
  BY <1>0
<1>2. PICK i \in Bad : \A k \in Bad : i <= k
  <2>. HIDE DEF Bad
  <2>. QED BY <1>1, LeastFacts
<1>3. i \in 0..n /\ f[i] # g[i]
  BY <1>2
<1>4. i \in 1..n /\ i - 1 \in 0..n /\ ~(i <= i - 1)
  BY <1>0, <1>3
<1>5. f[i - 1] = g[i - 1]
  BY <1>2, <1>4
<1>. QED BY <1>0, <1>3, <1>4, <1>5

LEMMA FlattenType ==
  ASSUME NEW S, NEW L \in Seq(Seq(S))
  PROVE  Lines!FlattenSeq(L) \in Seq(S)
<1>1. PICK at : Lines!FlattenSeq(L) = at[Len(L)] /\ \A i \in 0..Len(L) : at[i] \in Seq(S)
  BY FlattenFacts
<1>2. Len(L) \in 0..Len(L)
  <2>1. Len(L) \in Nat
    BY LenProperties
  <2>. QED BY <2>1
<1>. QED BY <1>1, <1>2

\* Three texts of characters from S.
Texts(S, x, y, z) == x \in Seq(S) /\ y \in Seq(S) /\ z \in Seq(S)

LEMMA JoinTexts ==
  ASSUME NEW S, NEW x, NEW y, NEW z, Texts(S, x, y, z)
  PROVE  (x \o y) \o z = x \o (y \o z)
<1>1. x \in Seq(S) /\ y \in Seq(S) /\ z \in Seq(S)
  BY DEF Texts
<1>. QED BY <1>1, ConcatAssociative

LEMMA FlattenEmpty == Lines!FlattenSeq(<<>>) = <<>>
BY DEF Lines!FlattenSeq

\* One more line at the end.
LEMMA FlattenAppend ==
  ASSUME NEW S, NEW L \in Seq(Seq(S)), NEW x \in Seq(S)
  PROVE  Lines!FlattenSeq(Append(L, x)) = Lines!FlattenSeq(L) \o x
<1>1. PICK M : M = Append(L, x)
  OBVIOUS
<1>2. PICK n : n = Len(L) /\ n \in Nat
  BY LenProperties
<1>3. /\ M \in Seq(Seq(S)) /\ Len(M) = n + 1 /\ M[n + 1] = x
      /\ \A i \in 1..n : M[i] = L[i]
  BY <1>1, <1>2, AppendProperties
<1>4. PICK at : Flattens(at, L) /\ Lines!FlattenSeq(L) = at[n]
  BY <1>2, FlattenFacts
<1>5. PICK bt : Flattens(bt, M) /\ Lines!FlattenSeq(M) = bt[n + 1]
  BY <1>3, FlattenFacts
<1>6. bt[0] = at[0]
  BY <1>4, <1>5 DEF Flattens
<1>7. ASSUME NEW i \in 1..n, bt[i - 1] = at[i - 1] PROVE bt[i] = at[i]
  <2>1. i \in 1..Len(L) /\ i \in 1..Len(M)
    BY <1>2, <1>3
  <2>2. at[i] = at[i - 1] \o L[i] /\ bt[i] = bt[i - 1] \o M[i]
    BY <1>4, <1>5, <2>1 DEF Flattens
  <2>. QED BY <1>3, <1>7, <2>2
<1>8. \A i \in 0..n : bt[i] = at[i]
  <2>1. StepsAgree(bt, at, n)
    BY <1>2, <1>6, <1>7 DEF StepsAgree
  <2>. QED BY <2>1, StepByStep
<1>9. n + 1 \in 1..Len(M) /\ n \in 0..n /\ (n + 1) - 1 = n
  BY <1>2, <1>3
<1>10. bt[n + 1] = bt[(n + 1) - 1] \o M[n + 1]
  BY <1>5, <1>9 DEF Flattens
<1>11. bt[n + 1] = at[n] \o x
  BY <1>3, <1>8, <1>9, <1>10
<1>. QED BY <1>1, <1>4, <1>5, <1>11

\* The first line and the others.
LEMMA FlattenHead ==
  ASSUME NEW S, NEW L \in Seq(Seq(S)), L # <<>>
  PROVE  Lines!FlattenSeq(L) = Head(L) \o Lines!FlattenSeq(Tail(L))
<1>1. PICK M : M = Tail(L)
  OBVIOUS
<1>2. PICK n : n = Len(M)
  OBVIOUS
<1>3. /\ M \in Seq(Seq(S)) /\ n \in Nat /\ Len(L) = n + 1
      /\ \A i \in 1..n : M[i] = L[i + 1]
      /\ Head(L) \in Seq(S) /\ Head(L) = L[1]
  <2>1. M \in Seq(Seq(S)) /\ n = Len(L) - 1 /\ Len(L) \in Nat
    BY <1>1, <1>2, HeadTailProperties, LenProperties
  <2>2. n \in Nat
    BY <1>2, <2>1, LenProperties
  <2>3. \A i \in 1..n : M[i] = L[i + 1]
    BY <1>1, <1>2, HeadTailProperties
  <2>4. Head(L) \in Seq(S)
    BY HeadTailProperties
  <2>. QED BY <2>1, <2>2, <2>3, <2>4
<1>4. PICK at : Flattens(at, L) /\ Lines!FlattenSeq(L) = at[n + 1]
  <2>1. PICK at : Flattens(at, L) /\ Lines!FlattenSeq(L) = at[Len(L)]
    BY FlattenFacts
  <2>. QED BY <1>3, <2>1
<1>5. PICK bt : /\ Flattens(bt, M) /\ Lines!FlattenSeq(M) = bt[n]
                /\ \A i \in 0..n : bt[i] \in Seq(S)
  BY <1>2, <1>3, FlattenFacts
<1>6. PICK f : f = [i \in 0..n |-> at[i + 1]]
  OBVIOUS
<1>7. PICK g : g = [i \in 0..n |-> Head(L) \o bt[i]]
  OBVIOUS
<1>8. f[0] = g[0]
  <2>1. at[0] = <<>> /\ bt[0] = <<>>
    BY <1>4, <1>5 DEF Flattens
  <2>2. at[1] = at[1 - 1] \o L[1]
    <3>1. 1 \in 1..Len(L)
      BY <1>3
    <3>. QED BY <1>4, <3>1 DEF Flattens
  <2>3. at[1] = Head(L) /\ Head(L) \o bt[0] = Head(L)
    <3>1. at[1 - 1] = at[0]
      OBVIOUS
    <3>. QED BY <1>3, <2>1, <2>2, <3>1, ConcatEmptySeq
  <2>4. f[0] = at[1] /\ g[0] = Head(L) \o bt[0]
    <3>1. 0 \in 0..n /\ 0 + 1 = 1
      BY <1>3
    <3>. QED BY <1>6, <1>7, <3>1
  <2>. QED BY <2>3, <2>4
<1>9. ASSUME NEW i \in 1..n, f[i - 1] = g[i - 1] PROVE f[i] = g[i]
  <2>1. /\ i \in 1..Len(M) /\ i + 1 \in 1..Len(L) /\ (i + 1) - 1 = i
        /\ i \in 0..n /\ i - 1 \in 0..n /\ (i - 1) + 1 = i
    BY <1>2, <1>3
  <2>2. at[i + 1] = at[(i + 1) - 1] \o L[i + 1]
    BY <1>4, <2>1 DEF Flattens
  <2>3. bt[i] = bt[i - 1] \o M[i]
    BY <1>5, <2>1 DEF Flattens
  <2>4. f[i] = at[i + 1] /\ f[i - 1] = at[(i - 1) + 1]
    BY <1>6, <2>1
  <2>5. g[i] = Head(L) \o bt[i] /\ g[i - 1] = Head(L) \o bt[i - 1]
    BY <1>7, <2>1
  <2>6. at[i] = Head(L) \o bt[i - 1]
    BY <1>9, <2>1, <2>4, <2>5
  <2>7. f[i] = (Head(L) \o bt[i - 1]) \o M[i]
    BY <1>3, <2>1, <2>2, <2>4, <2>6
  <2>8. bt[i - 1] \in Seq(S) /\ M[i] \in Seq(S)
    BY <1>3, <1>5, <2>1, ElementOfSeq
  <2>9. (Head(L) \o bt[i - 1]) \o M[i] = Head(L) \o (bt[i - 1] \o M[i])
    <3>1. PICK x, y, z : x = Head(L) /\ y = bt[i - 1] /\ z = M[i]
      OBVIOUS
    <3>2. x \in Seq(S) /\ y \in Seq(S) /\ z \in Seq(S)
      BY <1>3, <2>8, <3>1
    <3>3. Texts(S, x, y, z)
      BY <3>2 DEF Texts
    <3>4. (x \o y) \o z = x \o (y \o z)
      BY <3>3, JoinTexts
    <3>. QED BY <3>1, <3>4
  <2>. QED BY <2>3, <2>5, <2>7, <2>9
<1>10. f[n] = g[n] /\ n \in 0..n
  <2>1. StepsAgree(f, g, n)
    BY <1>3, <1>8, <1>9 DEF StepsAgree
  <2>2. n \in 0..n
    BY <1>3
  <2>. QED BY <2>1, <2>2, StepByStep
<1>11. f[n] = at[n + 1] /\ g[n] = Head(L) \o bt[n]
  BY <1>6, <1>7, <1>10
<1>. QED BY <1>1, <1>4, <1>5, <1>10, <1>11

-----------------------------------------------------------------------------
(* No character is lost *)

\* The characters of terminal t: those given to a process and those in a line.
CharsOf(t) == delivered[t] \o Lines!FlattenSeq(line_buffers[t])

\* x is the first n characters that are typed.
AsTyped(x, n) == x = [i \in 1..n |-> i]

Conserved(t) ==
  /\ Len(CharsOf(t)) = typed[t]
  /\ t \notin split_by_read => AsTyped(CharsOf(t), typed[t])

LEMMA CharsFacts ==
  ASSUME InputTypes, NEW t \in Terminals
  PROVE  /\ typed[t] \in Nat /\ delivered[t] \in Seq(1..MaxTyped)
         /\ line_buffers[t] \in Seq(Seq(1..MaxTyped))
         /\ Lines!FlattenSeq(line_buffers[t]) \in Seq(1..MaxTyped)
         /\ CharsOf(t) \in Seq(1..MaxTyped)
<1>1. /\ typed[t] \in Nat /\ delivered[t] \in Seq(1..MaxTyped)
      /\ line_buffers[t] \in Seq(Seq(1..MaxTyped))
  BY TtyAssumption DEF InputTypes
<1>2. Lines!FlattenSeq(line_buffers[t]) \in Seq(1..MaxTyped)
  BY <1>1, FlattenType
<1>. QED BY <1>1, <1>2, ConcatProperties DEF CharsOf

\* c is a with b after it, and b is the n numbers after the first m.
Continues(S, a, b, c, m, n) ==
  /\ a \in Seq(S) /\ b \in Seq(S) /\ m \in Nat /\ n \in Nat
  /\ b = [i \in 1..n |-> m + i] /\ c = a \o b

\* The first numbers and the next ones.
LEMMA NumberedFacts ==
  ASSUME NEW S, NEW a, NEW b, NEW c, NEW m, NEW n, NEW k,
         Continues(S, a, b, c, m, n), k = m + n
  PROVE  /\ Len(a) = m => Len(c) = k
         /\ AsTyped(a, m) => AsTyped(c, k)
<1>0. /\ a \in Seq(S) /\ b \in Seq(S) /\ m \in Nat /\ n \in Nat
      /\ b = [i \in 1..n |-> m + i] /\ c = a \o b
  BY DEF Continues
<1>1. Len(b) = n /\ Len(a) \in Nat
  BY <1>0, LenProperties
<1>2. /\ c \in Seq(S) /\ Len(c) = Len(a) + Len(b)
      /\ \A i \in 1..Len(a) + Len(b) :
           c[i] = IF i <= Len(a) THEN a[i] ELSE b[i - Len(a)]
  BY <1>0, ConcatProperties
<1>3. ASSUME AsTyped(a, m) PROVE AsTyped(c, k)
  <2>1. Len(a) = m
    BY <1>0, <1>3, LenProperties DEF AsTyped
  <2>3. c \in [1..m + n -> S]
    <3>1. c \in Seq(S) /\ Len(c) = m + n
      BY <1>1, <1>2, <2>1
    <3>. QED BY <3>1, LenProperties
  <2>4. ASSUME NEW i \in 1..m + n PROVE c[i] = i
    <3>1. CASE i <= m
      <4>1. c[i] = a[i] /\ i \in 1..m
        BY <1>0, <1>1, <1>2, <2>1, <3>1
      <4>. QED BY <1>3, <4>1 DEF AsTyped
    <3>2. CASE ~(i <= m)
      <4>1. c[i] = b[i - m]
        BY <1>0, <1>1, <1>2, <2>1, <3>2
      <4>2. i - m \in 1..n /\ m + (i - m) = i
        BY <1>0, <3>2
      <4>. QED BY <1>0, <4>1, <4>2
    <3>. QED BY <3>1, <3>2
  <2>. QED BY <2>3, <2>4 DEF AsTyped
<1>. QED BY <1>1, <1>2, <1>3

\* The characters after the first m, n of them.
LEMMA NumbersType ==
  ASSUME NEW x, NEW n \in Nat, NEW m \in Nat, x = [i \in 1..n |-> m + i], m + n <= MaxTyped
  PROVE  x \in Seq(1..MaxTyped)
<1>1. \A i \in 1..n : m + i \in 1..MaxTyped
  BY TtyAssumption
<1>2. x \in [1..n -> 1..MaxTyped]
  BY <1>1
<1>. QED BY <1>2

LEMMA NumbersJoin ==
  ASSUME NEW S, NEW a \in Seq(S), NEW b \in Seq(S), NEW n \in Nat, NEW m \in Nat, NEW k \in 0..n,
         a = [i \in 1..k |-> m + i], b = [i \in 1..n - k |-> m + k + i]
  PROVE  a \o b = [i \in 1..n |-> m + i]
<1>1. Len(a) = k /\ Len(b) = n - k /\ k \in Nat /\ n - k \in Nat
  <2>1. k \in Nat /\ n - k \in Nat
    OBVIOUS
  <2>. QED BY <2>1, LenProperties
<1>2. PICK c : c = a \o b
  OBVIOUS
<1>3. /\ c \in Seq(S) /\ Len(c) = k + (n - k)
      /\ \A i \in 1..k + (n - k) : c[i] = IF i <= k THEN a[i] ELSE b[i - k]
  BY <1>1, <1>2, ConcatProperties
<1>4. k + (n - k) = n
  BY <1>1
<1>5. c \in [1..n -> S]
  BY <1>3, <1>4, LenProperties
<1>6. ASSUME NEW i \in 1..n PROVE c[i] = m + i
  <2>1. CASE i <= k
    <3>1. c[i] = a[i] /\ i \in 1..k
      BY <1>1, <1>3, <1>4, <2>1
    <3>. QED BY <3>1
  <2>2. CASE ~(i <= k)
    <3>1. c[i] = b[i - k]
      BY <1>3, <1>4, <2>2
    <3>2. i - k \in 1..n - k /\ m + k + (i - k) = m + i
      BY <1>1, <2>2
    <3>. QED BY <3>1, <3>2
  <2>. QED BY <2>1, <2>2
<1>. QED BY <1>2, <1>5, <1>6

\* A line before others.
LEMMA PushedFacts ==
  ASSUME NEW S, NEW x \in S, NEW L \in Seq(S)
  PROVE  /\ <<x>> \o L \in Seq(S) /\ <<x>> \o L # <<>>
         /\ Head(<<x>> \o L) = x /\ Tail(<<x>> \o L) = L
<1>1. PICK a, c : a = <<x>> /\ c = a \o L
  OBVIOUS
<1>2. a \in Seq(S) /\ Len(a) = 1 /\ a[1] = x /\ Len(L) \in Nat
  BY <1>1, LenProperties
<1>3. /\ c \in Seq(S) /\ Len(c) = 1 + Len(L)
      /\ \A i \in 1..1 + Len(L) : c[i] = IF i <= 1 THEN a[i] ELSE L[i - 1]
  BY <1>1, <1>2, ConcatProperties
<1>4. c # <<>>
  <2>1. Len(c) # 0
    BY <1>2, <1>3
  <2>. QED BY <2>1, EmptySeq
<1>5. Head(c) = x
  <2>1. c[1] = x
    BY <1>2, <1>3
  <2>. QED BY <2>1
<1>6. Tail(c) = L
  <2>1. /\ Tail(c) \in Seq(S) /\ Len(Tail(c)) = Len(L)
        /\ \A i \in 1..Len(Tail(c)) : Tail(c)[i] = c[i + 1]
    BY <1>2, <1>3, <1>4, HeadTailProperties
  <2>2. \A i \in 1..Len(L) : c[i + 1] = L[i]
    <3>. SUFFICES ASSUME NEW i \in 1..Len(L) PROVE c[i + 1] = L[i]
      OBVIOUS
    <3>1. i + 1 \in 1..1 + Len(L) /\ ~(i + 1 <= 1) /\ (i + 1) - 1 = i
      BY <1>2
    <3>. QED BY <1>3, <3>1
  <2>. QED BY <2>1, <2>2, SeqEqual
<1>. QED BY <1>1, <1>3, <1>4, <1>5, <1>6

\* A step after which the characters are the old ones and those just typed.
LEMMA TypedConserved ==
  ASSUME InputTypes, InputTypes', NEW t \in Terminals, NEW n \in Nat, NEW line,
         Conserved(t), line = [i \in 1..n |-> typed[t] + i], line \in Seq(1..MaxTyped),
         typed'[t] = typed[t] + n, UNCHANGED split_by_read,
         CharsOf(t)' = CharsOf(t) \o line
  PROVE  Conserved(t)'
<1>1. PICK a, c, m, k : a = CharsOf(t) /\ c = CharsOf(t)' /\ m = typed[t] /\ k = m + n
  OBVIOUS
<1>2. a \in Seq(1..MaxTyped) /\ m \in Nat
  BY <1>1, CharsFacts
<1>3. (Len(a) = m => Len(c) = k) /\ (AsTyped(a, m) => AsTyped(c, k))
  <2>1. Continues(1..MaxTyped, a, line, c, m, n)
    BY <1>1, <1>2 DEF Continues
  <2>2. k = m + n
    BY <1>1
  <2>. QED BY <2>1, <2>2, NumberedFacts
<1>4. Len(a) = m /\ (t \notin split_by_read => AsTyped(a, m))
  BY <1>1 DEF Conserved
<1>. QED BY <1>1, <1>3, <1>4 DEF Conserved

LEMMA ReadLineConserves ==
  ASSUME InputTypes, NEW t \in Terminals, NEW len \in Nat, ReadLine(t, len), Conserved(t)
  PROVE  Conserved(t)'
<1>1. PICK d, L, Chars : d = delivered[t] /\ L = line_buffers[t] /\ Chars = 1..MaxTyped
  OBVIOUS
<1>2. d \in Seq(Chars) /\ L \in Seq(Seq(Chars)) /\ L # <<>>
  BY <1>1, CharsFacts DEF ReadLine, LineThere
<1>3. PICK line, more, T, F :
        line = Head(L) /\ more = Tail(L) /\ T = Lines!FlattenSeq(more) /\ F = Lines!FlattenSeq(L)
  OBVIOUS
<1>4. line \in Seq(Chars) /\ more \in Seq(Seq(Chars))
  BY <1>2, <1>3, HeadTailProperties
<1>5. T \in Seq(Chars) /\ F = line \o T
  BY <1>2, <1>3, <1>4, FlattenType, FlattenHead
<1>6. CharsOf(t) = d \o (line \o T) /\ typed'[t] = typed[t]
  BY <1>1, <1>3, <1>5 DEF CharsOf, ReadLine
<1>7. Len(CharsOf(t)) = Len(d) + Len(line) + Len(T)
  <2>1. line \o T \in Seq(Chars) /\ Len(line \o T) = Len(line) + Len(T)
    BY <1>4, <1>5, ConcatProperties
  <2>2. Len(d \o (line \o T)) = Len(d) + Len(line \o T)
    BY <1>2, <2>1, ConcatProperties
  <2>3. Len(d) \in Nat /\ Len(line) \in Nat /\ Len(T) \in Nat
    BY <1>2, <1>4, <1>5, LenProperties
  <2>. QED BY <1>6, <2>1, <2>2, <2>3
<1>8. CASE Len(line) - len > 0
  <2>1. PICK first, rest : first = SubSeq(line, 1, len) /\ rest = SubSeq(line, 1, Len(line) - len)
    OBVIOUS
  <2>2. /\ delivered' = [delivered EXCEPT ![t] = d \o first]
        /\ line_buffers' = [line_buffers EXCEPT ![t] = <<rest>> \o more]
        /\ split_by_read' = split_by_read \cup {t}
    BY <1>1, <1>3, <1>8, <2>1 DEF ReadLine
  <2>3. /\ first \in Seq(Chars) /\ rest \in Seq(Chars)
        /\ Len(first) + Len(rest) = Len(line) /\ Len(first) \in Nat /\ Len(rest) \in Nat
    <3>1. Len(line) \in Nat /\ \A i \in 1..Len(line) : line[i] \in Chars
      BY <1>4, LenProperties, ElementOfSeq
    <3>2. PICK k \in Nat : k = Len(line) - len
      BY <1>8, <3>1
    <3>3. k > 0 /\ k + len = Len(line)
      BY <1>8, <3>1, <3>2
    <3>4. ASSUME NEW m \in Nat, m <= Len(line)
          PROVE  SubSeq(line, 1, m) \in Seq(Chars) /\ Len(SubSeq(line, 1, m)) = m
      <4>1. \A i \in 1..m : line[i] \in Chars
        BY <3>1, <3>4
      <4>2. /\ SubSeq(line, 1, m) \in Seq(Chars)
            /\ Len(SubSeq(line, 1, m)) = IF 1 <= m THEN m - 1 + 1 ELSE 0
        BY <4>1, SubSeqProperties
      <4>. QED BY <4>2
    <3>5. k <= Len(line) /\ len <= Len(line)
      BY <3>1, <3>2, <3>3
    <3>6. rest = SubSeq(line, 1, k)
      BY <2>1, <3>2
    <3>7. first \in Seq(Chars) /\ rest \in Seq(Chars) /\ Len(first) = len /\ Len(rest) = k
      BY <2>1, <3>4, <3>5, <3>6
    <3>. QED BY <3>3, <3>7
  <2>4. PICK M : M = <<rest>> \o more
    OBVIOUS
  <2>5. M \in Seq(Seq(Chars)) /\ M # <<>> /\ Head(M) = rest /\ Tail(M) = more
    BY <1>4, <2>3, <2>4, PushedFacts
  <2>6. Lines!FlattenSeq(M) = rest \o T
    BY <1>3, <2>5, FlattenHead
  <2>7. CharsOf(t)' = (d \o first) \o (rest \o T)
    <3>1. delivered'[t] = d \o first /\ line_buffers'[t] = M
      BY <2>2, <2>4 DEF InputTypes
    <3>. QED BY <2>6, <3>1 DEF CharsOf
  <2>8. Len(CharsOf(t)') = Len(d) + Len(first) + (Len(rest) + Len(T))
    <3>1. d \o first \in Seq(Chars) /\ Len(d \o first) = Len(d) + Len(first)
      BY <1>2, <2>3, ConcatProperties
    <3>2. rest \o T \in Seq(Chars) /\ Len(rest \o T) = Len(rest) + Len(T)
      BY <1>5, <2>3, ConcatProperties
    <3>. QED BY <2>7, <3>1, <3>2, ConcatProperties
  <2>9. Len(CharsOf(t)') = Len(CharsOf(t))
    <3>1. Len(d) \in Nat /\ Len(T) \in Nat
      BY <1>2, <1>5, LenProperties
    <3>. QED BY <1>7, <2>3, <2>8, <3>1
  <2>10. t \in split_by_read'
    BY <2>2
  <2>. QED BY <1>6, <2>9, <2>10 DEF Conserved
<1>9. CASE ~(Len(line) - len > 0)
  <2>1. /\ delivered' = [delivered EXCEPT ![t] = d \o line]
        /\ line_buffers' = [line_buffers EXCEPT ![t] = more]
        /\ split_by_read' = split_by_read
    BY <1>1, <1>3, <1>9 DEF ReadLine
  <2>2. delivered'[t] = d \o line /\ line_buffers'[t] = more
    BY <2>1 DEF InputTypes
  <2>3. CharsOf(t)' = (d \o line) \o T
    BY <1>3, <2>2 DEF CharsOf
  <2>4. (d \o line) \o T = d \o (line \o T)
    <3>1. Texts(Chars, d, line, T)
      BY <1>2, <1>4, <1>5 DEF Texts
    <3>. QED BY <3>1, JoinTexts
  <2>5. CharsOf(t)' = CharsOf(t)
    BY <1>6, <2>3, <2>4
  <2>. QED BY <1>6, <2>1, <2>5 DEF Conserved
<1>. QED BY <1>8, <1>9

LEMMA KeepLineConserves ==
  ASSUME InputTypes, InputTypes', NEW t \in Terminals, NEW n \in Nat, KeepLine(t, n),
         typed' = [typed EXCEPT ![t] = @ + n], typed[t] + n <= MaxTyped,
         UNCHANGED split_by_read, Conserved(t)
  PROVE  Conserved(t)'
<1>1. PICK d, L, line : /\ d = delivered[t] /\ L = line_buffers[t]
                        /\ line = [i \in 1..n |-> typed[t] + i]
  OBVIOUS
<1>2. /\ d \in Seq(1..MaxTyped) /\ L \in Seq(Seq(1..MaxTyped)) /\ typed[t] \in Nat
      /\ Lines!FlattenSeq(L) \in Seq(1..MaxTyped)
  BY <1>1, CharsFacts
<1>3. line \in Seq(1..MaxTyped)
  BY <1>1, <1>2, NumbersType
<1>4. delivered'[t] = d /\ line_buffers'[t] = Append(L, line) /\ typed'[t] = typed[t] + n
  BY <1>1 DEF KeepLine, InputTypes
<1>5. Lines!FlattenSeq(Append(L, line)) = Lines!FlattenSeq(L) \o line
  BY <1>2, <1>3, FlattenAppend
<1>6. CharsOf(t)' = d \o (Lines!FlattenSeq(L) \o line)
  BY <1>4, <1>5 DEF CharsOf
<1>7. CharsOf(t) = d \o Lines!FlattenSeq(L)
  BY <1>1 DEF CharsOf
<1>8. CharsOf(t)' = CharsOf(t) \o line
  <2>1. PICK f : f = Lines!FlattenSeq(L)
    OBVIOUS
  <2>2. f \in Seq(1..MaxTyped)
    BY <1>2, <2>1
  <2>3. (d \o f) \o line = d \o (f \o line)
    <3>1. Texts(1..MaxTyped, d, f, line)
      BY <1>2, <1>3, <2>2 DEF Texts
    <3>. QED BY <3>1, JoinTexts
  <2>. QED BY <1>6, <1>7, <2>1, <2>3
<1>. QED BY <1>1, <1>3, <1>4, <1>8, TypedConserved

LEMMA ShareLineConserves ==
  ASSUME TtyTypes, TtyInv, InputTypes', NEW t \in Terminals, NEW n \in Nat, ShareLine(t, n),
         typed' = [typed EXCEPT ![t] = @ + n], typed[t] + n <= MaxTyped,
         UNCHANGED split_by_read, Conserved(t)
  PROVE  Conserved(t)'
<1>1. InputTypes /\ NoIdleInput
  BY DEF TtyTypes, TtyInv, NoIdleInput
<1>2. PICK q, s, served, taken :
        /\ q = waiting_to_receive[t] /\ s = AskedBy(t)
        /\ served = Cardinality({i \in DOMAIN q : s[i - 1] < n})
        /\ taken = IF s[served] < n THEN s[served] ELSE n
  OBVIOUS
<1>3. taken \in 0..n
  <2>1. Shares(t, n, q, s, served, taken)
    BY <1>1, <1>2 DEF Shares, InputTypes
  <2>. QED BY <2>1, ServedFacts
<1>4. line_buffers[t] = <<>>
  BY <1>1 DEF ShareLine, NoIdleInput
<1>5. PICK d, line, given, rest, m :
        /\ d = delivered[t] /\ m = typed[t]
        /\ line = [i \in 1..n |-> m + i]
        /\ given = [i \in 1..taken |-> m + i]
        /\ rest = [i \in 1..n - taken |-> m + taken + i]
  OBVIOUS
<1>6. d \in Seq(1..MaxTyped) /\ m \in Nat /\ m + n <= MaxTyped
  BY <1>1, <1>5, CharsFacts
<1>7. line \in Seq(1..MaxTyped) /\ given \in Seq(1..MaxTyped) /\ rest \in Seq(1..MaxTyped)
  <2>1. taken \in Nat /\ m + taken \in Nat /\ n - taken \in Nat
        /\ m + taken <= MaxTyped /\ (m + taken) + (n - taken) <= MaxTyped
    BY <1>3, <1>6, TtyAssumption
  <2>. QED BY <1>5, <1>6, <2>1, NumbersType
<1>8. CharsOf(t) = d
  BY <1>4, <1>5, <1>6, FlattenEmpty, ConcatEmptySeq DEF CharsOf
<1>9. /\ delivered'[t] = d \o given /\ typed'[t] = typed[t] + n
      /\ line_buffers'[t] = IF taken < n THEN Append(<<>>, rest) ELSE <<>>
  <2>1. /\ delivered' = [delivered EXCEPT ![t] = @ \o [i \in 1..taken |-> typed[t] + i]]
        /\ line_buffers' =
             [line_buffers EXCEPT ![t] =
                IF taken < n THEN Append(@, RestOfLine(t, n, taken)) ELSE @]
    BY <1>2 DEF ShareLine
  <2>2. RestOfLine(t, n, taken) = rest
    BY <1>5 DEF RestOfLine
  <2>3. delivered'[t] = d \o given /\ typed'[t] = typed[t] + n
    BY <1>1, <1>5, <2>1 DEF InputTypes
  <2>4. line_buffers'[t] = IF taken < n THEN Append(line_buffers[t], rest) ELSE line_buffers[t]
    BY <1>1, <2>1, <2>2 DEF InputTypes
  <2>. QED BY <1>4, <2>3, <2>4
<1>10. CharsOf(t)' = d \o line
  <2>1. CASE taken < n
    <3>1. Lines!FlattenSeq(Append(<<>>, rest)) = rest
      <4>1. <<>> \in Seq(Seq(1..MaxTyped))
        BY EmptySeq
      <4>2. Lines!FlattenSeq(Append(<<>>, rest)) = <<>> \o rest
        BY <1>7, <4>1, FlattenAppend, FlattenEmpty
      <4>. QED BY <1>7, <4>2, ConcatEmptySeq
    <3>2. CharsOf(t)' = (d \o given) \o rest
      BY <1>9, <2>1, <3>1 DEF CharsOf
    <3>3. (d \o given) \o rest = d \o (given \o rest)
      <4>1. Texts(1..MaxTyped, d, given, rest)
        BY <1>6, <1>7 DEF Texts
      <4>. QED BY <4>1, JoinTexts
    <3>4. given \o rest = line
      <4>1. n \in Nat /\ m \in Nat /\ taken \in 0..n
        BY <1>3, <1>6
      <4>2. given = [i \in 1..taken |-> m + i] /\ rest = [i \in 1..n - taken |-> m + taken + i]
        BY <1>5
      <4>3. given \o rest = [i \in 1..n |-> m + i]
        BY <1>7, <4>1, <4>2, NumbersJoin
      <4>. QED BY <1>5, <4>3
    <3>. QED BY <3>2, <3>3, <3>4
  <2>2. CASE ~(taken < n)
    <3>1. taken = n
      BY <1>3, <2>2
    <3>2. given = line
      BY <1>5, <3>1
    <3>3. CharsOf(t)' = (d \o given) \o <<>>
      BY <1>9, <2>2, FlattenEmpty DEF CharsOf
    <3>4. d \o given \in Seq(1..MaxTyped)
      BY <1>6, <1>7, ConcatProperties
    <3>. QED BY <3>2, <3>3, <3>4, ConcatEmptySeq
  <2>. QED BY <2>1, <2>2
<1>. QED BY <1>1, <1>5, <1>7, <1>8, <1>9, <1>10, TypedConserved

\* Lines of other terminals do not matter.
LEMMA SameConserved ==
  ASSUME NEW t, Conserved(t),
         typed'[t] = typed[t], delivered'[t] = delivered[t], line_buffers'[t] = line_buffers[t],
         t \in split_by_read' <=> t \in split_by_read
  PROVE  Conserved(t)'
BY DEF Conserved, CharsOf

LEMMA ConservedStep ==
  ASSUME TtyTypes, TtyInv, TtyTypes', [TtyNext]_vars, \A t \in Terminals : Conserved(t)
  PROVE  \A t \in Terminals : Conserved(t)'
<1>1. InputTypes /\ InputTypes'
  BY DEF TtyTypes
<1>2. ASSUME NEW u \in Terminals, NEW len \in Reads, KernelTtyRead(u, len),
             NEW t \in Terminals
      PROVE  Conserved(t)'
  <2>1. len \in Nat
    BY <1>2, TtyAssumption
  <2>2. CASE ReadLine(u, len) /\ t = u
    BY <1>1, <2>1, <2>2, ReadLineConserves
  <2>3. CASE ReadLine(u, len) /\ t # u
    <3>1. /\ typed'[t] = typed[t] /\ delivered'[t] = delivered[t]
          /\ line_buffers'[t] = line_buffers[t]
          /\ t \in split_by_read' <=> t \in split_by_read
      BY <1>1, <2>3 DEF ReadLine, InputTypes
    <3>. QED BY <3>1, SameConserved
  <2>4. CASE AwaitLine(u, len)
    BY <2>4, SameConserved DEF AwaitLine
  <2>. QED BY <1>2, <2>2, <2>3, <2>4 DEF KernelTtyRead
<1>3. ASSUME NEW u \in Terminals, NEW n \in 0..TERMINAL_MAX_LINE, TrapTtyRecieve(u, n),
             NEW t \in Terminals
      PROVE  Conserved(t)'
  <2>1. n \in Nat
    BY <1>3, TtyAssumption
  <2>2. /\ typed[u] + n <= MaxTyped /\ typed' = [typed EXCEPT ![u] = @ + n]
        /\ UNCHANGED split_by_read /\ (KeepLine(u, n) \/ ShareLine(u, n))
    BY <1>3 DEF TrapTtyRecieve
  <2>3. CASE KeepLine(u, n) /\ t = u
    BY <1>1, <2>1, <2>2, <2>3, KeepLineConserves
  <2>4. CASE ShareLine(u, n) /\ t = u
    BY <1>1, <2>1, <2>2, <2>4, ShareLineConserves
  <2>5. CASE t # u
    <3>1. /\ typed'[t] = typed[t] /\ delivered'[t] = delivered[t]
          /\ line_buffers'[t] = line_buffers[t]
      BY <1>1, <2>2, <2>5 DEF KeepLine, ShareLine, InputTypes
    <3>. QED BY <2>2, <3>1, SameConserved
  <2>. QED BY <2>2, <2>3, <2>4, <2>5
<1>4. CASE UNCHANGED <<typed, line_buffers, delivered, split_by_read>>
  BY <1>4, SameConserved
<1>5. \/ UNCHANGED <<typed, line_buffers, delivered, split_by_read>>
      \/ \E u \in Terminals, len \in Reads : KernelTtyRead(u, len)
      \/ \E u \in Terminals, n \in 0..TERMINAL_MAX_LINE : TrapTtyRecieve(u, n)
  BY DEF TtyNext, KernelTtyReadReturns, KernelTtyWrite, KernelTtyWriteInternal, TrapTtyTransmit,
         TrapKills, TtyExit, HeapBreaks, TtyHaltByInit, TrapMemoryEndsKernel, vars, ttyVars,
         inputVars
<1>. QED BY <1>2, <1>3, <1>4, <1>5

-----------------------------------------------------------------------------
(* The theorems *)

\* Every variable of Tty keeps its type, and the assert of TrapTtyTransmit (Traps.c:310)
\* never fails, as machine shows (TtySpec => []TtyTypeOK).
THEOREM TtyTypeCorrect == TtySpec => []TtyTypeOK
<1>1. TtyTypes /\ TtyInv /\ HeapInv => TtyTypeOK
  BY DEF TtyTypes, TtyInv, AssertInv, TtyTypeOK, ProcessTypeOK, InputTypes, OutputTypes,
         HeapInv, HeapTypes, TtyMachine, TtyPending
<1>. QED BY <1>1, TtyInvariant, HeapInvariant, PTL

\* A process blocked in KernelTtyRead or KernelTtyWrite is in one queue of one terminal,
\* once, and no PCB is freed while anybody can reach it (TtySpec => []TtyOnePlace).
THEOREM TtyOnePlaceAlways == TtySpec => []TtyOnePlace
<1>1. TtyTypes /\ TtyInv => TtyOnePlace
  <2>. SUFFICES ASSUME TtyTypes, TtyInv PROVE TtyOnePlace
    OBVIOUS
  <2>1. OnePlaceWith(TtyWaiters)
    BY DEF TtyInv, PlacesInv, PlaceInv
  <2>2. NoDanglingPCBWith(TtyWaiters)
    <3>1. PICK E \in SUBSET Proc : E = TtyWaiters
      BY WaitersFacts
    <3>. QED BY <3>1, PcbKeptMeaning DEF TtyInv, PlacesInv, FamilyInv, TtyTypes
  <2>3. QueuesApart
    BY DEF TtyInv
  <2>. QED BY <2>1, <2>2, <2>3 DEF TtyOnePlace, QueuesApart, ReadersOf, WritersOf
<1>. QED BY <1>1, TtyInvariant, PTL

\* However exits free blocks that are not theirs any more, every other block of the kernel
\* heap is free or belongs to one reader or writer, and a reader has a buffer when
\* TrapTtyRecieve fills it (TtySpec => []BuffersOwned).
THEOREM BuffersOwnedAlways == TtySpec => []BuffersOwned
<1>1. TtyTypes /\ HeapInv => BuffersOwned
  <2>. SUFFICES ASSUME TtyTypes, HeapInv PROVE BuffersOwned
    OBVIOUS
  <2>1. ASSUME NEW t \in Terminals, NEW p \in ReadersOf(t) PROVE tty_receive_buffer[p] # NULL
    <3>1. tty_receive_buffer[p] \in Blocks
      BY WaitersFacts DEF HeapInv, WaitersHold
    <3>. QED BY <3>1, TtyAssumption
  <2>. QED BY <2>1 DEF BuffersOwned, HeapInv, BlocksOwned, ReadersOf
<1>. QED BY <1>1, TtyInvariant, HeapInvariant, PTL

\* A line that somebody could read is never kept from the readers: TrapTtyRecieve leaves a
\* line behind only when it has served all of them (TtySpec => []NoIdleInput).
THEOREM NoIdleInputAlways == TtySpec => []NoIdleInput
<1>1. TtyTypes /\ TtyInv => NoIdleInput
  BY DEF TtyInv, NoIdleInput
<1>. QED BY <1>1, TtyInvariant, PTL

\* The device always sends the next characters of the first writer and is idle only when
\* nobody writes (TtySpec => []FirstIsTransmitting).
THEOREM FirstIsTransmittingAlways == TtySpec => []FirstIsTransmitting
<1>1. TtyTypes /\ TtyInv => FirstIsTransmitting
  BY DEF TtyInv, OutputInv
<1>. QED BY <1>1, TtyInvariant, PTL

GoesOn(t) ==
  LET old == transmitting[t]
      new == transmitting'[t]
  IN new # old /\ old # NoChunk =>
       \/ new.proc = old.proc /\ new.from = old.from + old.len
       \/ old.len = tty_transmit_len[old.proc] /\ new.from = 0

LEMMA GoesOnStep ==
  ASSUME TtyTypes, TtyInv, [TtyNext]_vars, NEW t \in Terminals
  PROVE  GoesOn(t)
<1>0. OutputTypes /\ OutputInv /\ QueuesApart
  BY DEF TtyTypes, TtyInv
<1>1. CASE UNCHANGED outputVars
  BY <1>1 DEF outputVars, GoesOn
<1>2. ASSUME NEW u \in Terminals, NEW len, NEW then, KernelTtyWriteInternal(u, len, then)
      PROVE  GoesOn(t)
  <2>1. CASE t # u \/ waiting_to_transmit[u] # <<>>
    <3>1. transmitting'[t] = transmitting[t]
      BY <1>0, <1>2, <2>1 DEF KernelTtyWriteInternal, StartsTransmitting, OutputTypes
    <3>. QED BY <3>1 DEF GoesOn
  <2>2. CASE t = u /\ waiting_to_transmit[u] = <<>>
    BY <1>0, <2>2, Transmits DEF GoesOn
  <2>. QED BY <2>1, <2>2
<1>3. ASSUME NEW u \in Terminals, TrapTtyTransmit(u) PROVE GoesOn(t)
  <2>1. PICK q : q = waiting_to_transmit[u]
    OBVIOUS
  <2>2. q # <<>> /\ q \in Seq(Proc) /\ Tail(q) \in Seq(Proc)
    BY <1>0, <1>3, <2>1, Transmits, WaitersFacts, HeadTailFacts DEF TrapTtyTransmit
  <2>3. PICK p \in Proc : p = Head(q)
    BY <2>2, HeadTailFacts
  <2>4. transmitting[u] = Chunk(p, tty_transmit_pointer[p], tty_transmit_len[p])
    BY <1>0, <2>1, <2>2, <2>3 DEF OutputInv, FirstIsTransmitting, FirstChunkOf
  <2>5. /\ transmitting[u].proc = p /\ transmitting[u].from = tty_transmit_pointer[p]
        /\ transmitting[u].len = IF TERMINAL_MAX_LINE < tty_transmit_len[p]
                                 THEN TERMINAL_MAX_LINE ELSE tty_transmit_len[p]
    BY <2>4 DEF Chunk
  <2>6. tty_transmit_len[p] \in Nat /\ TERMINAL_MAX_LINE \in Nat
    BY <1>0, TtyAssumption DEF OutputTypes
  <2>7. CASE t # u
    <3>1. transmitting'[t] = transmitting[t]
      BY <1>0, <1>3, <2>1, <2>2, <2>7 DEF TrapTtyTransmit, NextChunk, NextWriter, OutputTypes
    <3>. QED BY <3>1 DEF GoesOn
  <2>8. CASE t = u /\ NextChunk(u)
    <3>1. /\ transmitting'[u].proc = p
          /\ transmitting'[u].from = tty_transmit_pointer[p] + TERMINAL_MAX_LINE
          /\ tty_transmit_len[p] > TERMINAL_MAX_LINE
      BY <1>0, <2>1, <2>3, <2>8 DEF NextChunk, Chunk, OutputTypes
    <3>2. transmitting[u].len = TERMINAL_MAX_LINE
      BY <2>5, <2>6, <3>1
    <3>. QED BY <2>5, <2>8, <3>1, <3>2 DEF GoesOn
  <2>9. CASE t = u /\ NextWriter(u)
    <3>1. /\ transmitting'[u] = FirstChunkOf(u, Tail(q))
          /\ tty_transmit_len[p] <= TERMINAL_MAX_LINE
      BY <1>0, <2>1, <2>3, <2>9 DEF NextWriter, OutputTypes
    <3>2. transmitting[u].len = tty_transmit_len[p]
      BY <2>5, <2>6, <3>1
    <3>3. transmitting'[u].from = 0
      <4>1. CASE Tail(q) = <<>>
        BY <3>1, <4>1 DEF FirstChunkOf, NoChunk
      <4>2. CASE Tail(q) # <<>>
        <5>1. PICK next : next = Head(Tail(q))
          OBVIOUS
        <5>2. next \in Range(Tail(q))
          BY <2>2, <4>2, <5>1, HeadTailFacts
        <5>3. NoDuplicates(q)
          BY <1>0, <2>1 DEF QueuesApart
        <5>4. next \in Range(q) /\ next # p
          BY <2>2, <2>3, <5>2, <5>3, HeadTailFacts
        <5>5. tty_transmit_pointer[next] = 0
          BY <1>0, <2>1, <2>3, <5>4 DEF OutputInv, WritersOf
        <5>. QED BY <3>1, <4>2, <5>1, <5>5 DEF FirstChunkOf, Chunk
      <4>. QED BY <4>1, <4>2
    <3>. QED BY <2>5, <2>9, <3>2, <3>3 DEF GoesOn
  <2>. QED BY <1>3, <2>1, <2>2, <2>7, <2>8, <2>9 DEF TrapTtyTransmit
<1>4. CONSOLE \in Terminals
  BY TtyAssumption DEF CONSOLE, Terminals
<1>5. \/ UNCHANGED outputVars
      \/ \E u \in Terminals : \E len, then : KernelTtyWriteInternal(u, len, then)
      \/ \E u \in Terminals : TrapTtyTransmit(u)
  BY <1>4 DEF TtyNext, KernelTtyRead, KernelTtyReadReturns, TrapTtyRecieve, KernelTtyWrite,
              TrapKills, TtyExit, HeapBreaks, TtyHaltByInit, TrapMemoryEndsKernel, vars, ttyVars
<1>. QED BY <1>1, <1>2, <1>3, <1>5

\* However many processes write to a terminal at once, the characters of one write go out
\* in order and in one piece (TtySpec => OutputContiguous).
THEOREM OutputContiguousAlways == TtySpec => OutputContiguous
<1>1. TtyTypes /\ TtyInv /\ [TtyNext]_vars => \A t \in Terminals : GoesOn(t)
  BY GoesOnStep
<1>2. TtySpec => [][\A t \in Terminals : GoesOn(t)]_vars
  BY <1>1, TtyInvariant, PTL DEF TtySpec
<1>. QED BY <1>2, PTL DEF OutputContiguous, GoesOn

\* However lines are shared, as many characters as were typed on a terminal are given to
\* processes or in its lines; where no read has split a line they are the characters that
\* were typed, in order (TtySpec => []InputConserved).
THEOREM InputConservedAlways == TtySpec => []InputConserved
<1>. DEFINE Inv == \A t \in Terminals : Conserved(t)
<1>1. TtyInit => Inv
  <2>. SUFFICES ASSUME TtyInit, NEW t \in Terminals PROVE Conserved(t)
    OBVIOUS
  <2>1. /\ typed[t] = 0 /\ delivered[t] = <<>> /\ line_buffers[t] = <<>>
    BY DEF TtyInit
  <2>2. CharsOf(t) = <<>>
    BY <2>1, FlattenEmpty, EmptySeq, ConcatEmptySeq DEF CharsOf
  <2>3. Len(<<>>) = 0 /\ AsTyped(<<>>, 0)
    BY DEF AsTyped
  <2>. QED BY <2>1, <2>2, <2>3 DEF Conserved
<1>2. TtyTypes /\ TtyInv /\ (TtyTypes /\ TtyInv)' /\ Inv /\ [TtyNext]_vars => Inv'
  BY ConservedStep
<1>3. Inv => InputConserved
  BY DEF InputConserved, Conserved, CharsOf, AsTyped
<1>. QED BY <1>1, <1>2, <1>3, TtyInvariant, PTL DEF TtySpec

=============================================================================
