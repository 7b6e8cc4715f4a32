---------------------------- MODULE MemoryProofs ----------------------------
(***************************************************************************)
(* Theorems about Memory, for every number of processes, pages and frames, *)
(* every set of programs and every way in which frames are given out.      *)
(***************************************************************************)
EXTENDS Memory, FiniteSetTheorems, WellFoundedInduction, TLAPS

(* Places *)

LEMMA ConstantFacts ==
  /\ INIT_PID \in Proc /\ Proc \subseteq Nat
  /\ Page \subseteq Nat /\ 0 \in Page /\ NUM_PAGES_REG_1 \in Nat /\ MaxHeapPages \in Nat
  /\ NoFrame \notin Frame
BY MemoryAssumption DEF Proc, INIT_PID, Page

LEMMA UserInjective ==
  ASSUME NEW p, NEW i, NEW q, NEW j
  PROVE  User(p, i) = User(q, j) <=> p = q /\ i = j
BY DEF User

LEMMA PlaceFacts ==
  ASSUME NEW p \in Proc, NEW q \in Proc, NEW I, NEW J
  PROVE  /\ Region1(p) \subseteq Place /\ KernelStack(p) \subseteq Place
         /\ I \subseteq HeapPage => Heap(I) \subseteq Place
         /\ I \subseteq Page => UserPages(p, I) \subseteq Region1(p)
         /\ UserPages(p, I) \cap KernelStack(q) = {}
         /\ UserPages(p, I) \cap Heap(J) = {}
         /\ KernelStack(p) \cap Heap(J) = {}
         /\ p # q => /\ UserPages(p, I) \cap UserPages(q, J) = {}
                     /\ KernelStack(p) \cap KernelStack(q) = {}
<1>1. Region1(p) \subseteq Place /\ KernelStack(p) \subseteq Place
  BY DEF Place
<1>2. I \subseteq HeapPage => Heap(I) \subseteq Place
  <2>1. I \subseteq HeapPage => Heap(I) \subseteq Heap(HeapPage)
    BY DEF Heap
  <2>2. Heap(HeapPage) \subseteq Place
    BY DEF Place
  <2>. QED BY <2>1, <2>2
<1>3. I \subseteq Page => UserPages(p, I) \subseteq Region1(p)
  BY DEF Region1, UserPages
<1>4. UserPages(p, I) \cap KernelStack(q) = {}
  BY DEF UserPages, KernelStack, User
<1>5. UserPages(p, I) \cap Heap(J) = {}
  BY DEF UserPages, Heap, User
<1>6. KernelStack(p) \cap Heap(J) = {}
  BY DEF KernelStack, Heap
<1>7. p # q => UserPages(p, I) \cap UserPages(q, J) = {}
  BY DEF UserPages, User
<1>8. p # q => KernelStack(p) \cap KernelStack(q) = {}
  BY DEF KernelStack
<1>. QED BY <1>1, <1>2, <1>3, <1>4, <1>5, <1>6, <1>7, <1>8

LEMMA RegionIsUserPages == \A p : Region1(p) = UserPages(p, Page)
BY DEF Region1

LEMMA InUserPages ==
  ASSUME NEW p, NEW I, NEW i
  PROVE  User(p, i) \in UserPages(p, I) <=> i \in I
BY UserInjective DEF UserPages

-----------------------------------------------------------------------------
(* Remap *)

PteTypeOK == pte \in [Place -> Frame \cup {NoFrame}] /\ free \subseteq Frame

\* The entries T have a frame now, the others of U have none, and no frame is in two places.
Moved(U, T) ==
  /\ PteTypeOK' /\ FramesOnce'
  /\ \A x \in T : Valid(x)'
  /\ \A x \in U \ T : ~Valid(x)'
  /\ \A x \in Place \ (U \cup T) : pte'[x] = pte[x]

\* A remap whose targets were not in use keeps every frame in one place.
LEMMA RemapFacts ==
  ASSUME PteTypeOK, FramesOnce,
         NEW U \in SUBSET Place, NEW T \in SUBSET Place,
         \A x \in T : x \in U \/ ~Valid(x),
         Remap(U, T)
  PROVE  Moved(U, T)
<1>1. PICK g \in Granted(T, free \cup FramesOf(U)) :
        /\ pte' = [x \in Place |-> IF x \in T THEN g[x] ELSE IF x \in U THEN NoFrame ELSE pte[x]]
        /\ free' = (free \cup FramesOf(U)) \ {g[x] : x \in T}
  BY DEF Remap
<1>2. FramesOf(U) \subseteq Frame
  BY DEF FramesOf, Valid, PteTypeOK
<1>3. /\ \A x \in T : g[x] \in free \cup FramesOf(U)
      /\ \A x, y \in T : g[x] = g[y] => x = y
  BY <1>1 DEF Granted
<1>4. /\ \A x \in T : pte'[x] = g[x]
      /\ \A x \in U \ T : pte'[x] = NoFrame
      /\ \A x \in Place \ (U \cup T) : pte'[x] = pte[x]
  BY <1>1
<1>5. PteTypeOK'
  BY <1>1, <1>2, <1>3 DEF PteTypeOK
<1>6. \A x \in T : g[x] # NoFrame
  BY <1>2, <1>3, ConstantFacts DEF PteTypeOK
<1>7. \A x \in T, y \in Place \ (U \cup T) : g[x] # pte[y]
  <2>. SUFFICES ASSUME NEW x \in T, NEW y \in Place \ (U \cup T), g[x] = pte[y]
                PROVE  FALSE
    OBVIOUS
  <2>1. CASE g[x] \in free
    BY <2>1 DEF FramesOnce, PteTypeOK
  <2>2. CASE g[x] \in FramesOf(U)
    <3>1. PICK z \in U : Valid(z) /\ pte[z] = g[x]
      BY <2>2 DEF FramesOf
    <3>. QED BY <3>1 DEF FramesOnce
  <2>. QED BY <1>3, <2>1, <2>2
<1>8. \A x, y \in Place : pte'[x] # NoFrame /\ pte'[x] = pte'[y] => x = y
  <2>. SUFFICES ASSUME NEW x \in Place, NEW y \in Place, pte'[x] # NoFrame, pte'[x] = pte'[y]
                PROVE  x = y
    OBVIOUS
  <2>1. x \in T \/ x \in Place \ (U \cup T)
    BY <1>4
  <2>2. y \in T \/ y \in Place \ (U \cup T)
    BY <1>4
  <2>3. CASE x \in T /\ y \in T
    BY <1>3, <1>4, <2>3
  <2>4. CASE x \in T /\ y \in Place \ (U \cup T)
    BY <1>4, <1>7, <2>4
  <2>5. CASE x \in Place \ (U \cup T) /\ y \in T
    BY <1>4, <1>7, <2>5
  <2>6. CASE x \in Place \ (U \cup T) /\ y \in Place \ (U \cup T)
    BY <1>4, <2>6 DEF FramesOnce, Valid
  <2>. QED BY <2>1, <2>2, <2>3, <2>4, <2>5, <2>6
<1>9. \A f \in Frame : f \in free' <=> \A x \in Place : pte'[x] # f
  <2>. SUFFICES ASSUME NEW f \in Frame
                PROVE  f \in free' <=> \A x \in Place : pte'[x] # f
    OBVIOUS
  <2>1. ASSUME f \in free', NEW x \in Place
        PROVE  pte'[x] # f
    <3>1. CASE x \in T
      BY <1>1, <1>4, <2>1, <3>1
    <3>2. CASE x \in U \ T
      BY <1>4, <3>2, ConstantFacts
    <3>3. CASE x \in Place \ (U \cup T)
      <4>1. f \in free \cup FramesOf(U)
        BY <1>1, <2>1
      <4>2. CASE f \in free
        BY <1>4, <3>3, <4>2 DEF FramesOnce
      <4>3. CASE f \in FramesOf(U)
        <5>1. PICK z \in U : Valid(z) /\ pte[z] = f
          BY <4>3 DEF FramesOf
        <5>. QED BY <1>4, <3>3, <5>1 DEF FramesOnce
      <4>. QED BY <4>1, <4>2, <4>3
    <3>. QED BY <3>1, <3>2, <3>3
  <2>2. ASSUME \A x \in Place : pte'[x] # f
        PROVE  f \in free'
    <3>1. f \notin {g[x] : x \in T}
      BY <1>4, <2>2
    <3>2. CASE f \in free
      BY <1>1, <3>1, <3>2
    <3>3. CASE f \notin free
      <4>1. PICK x \in Place : pte[x] = f
        BY <3>3 DEF FramesOnce
      <4>2. x \in U
        <5>1. CASE x \in T
          BY <4>1, <5>1, ConstantFacts DEF Valid
        <5>2. CASE x \in Place \ (U \cup T)
          BY <1>4, <2>2, <4>1, <5>2
        <5>. QED BY <5>1, <5>2
      <4>3. f \in FramesOf(U)
        BY <4>1, <4>2, ConstantFacts DEF FramesOf, Valid
      <4>. QED BY <1>1, <3>1, <4>3
    <3>. QED BY <3>2, <3>3
  <2>. QED BY <2>1, <2>2
<1>10. FramesOnce'
  BY <1>8, <1>9 DEF FramesOnce, Valid
<1>. QED BY <1>4, <1>5, <1>6, <1>10 DEF Moved, Valid

LEMMA NothingMoves ==
  ASSUME PteTypeOK, FramesOnce, UNCHANGED <<pte, free>>
  PROVE  Moved({}, {})
BY DEF Moved, PteTypeOK, FramesOnce, Valid

-----------------------------------------------------------------------------
(* The inductive invariant *)

HeapMapped == \A i \in HeapPage : i < kernel_brk_page => Valid(<<"heap", 0, i>>)

MemInv ==
  /\ MemTypeOK
  /\ FramesOnce
  /\ FramesHaveOwner
  /\ HeapBelowStack
  /\ HeapMapped
  /\ MemAssertsHold
  /\ TlbIsolation

\* What an action does to the pages and the owners of one process, whichever it is.
LEMMA HeapBelowStackStep ==
  ASSUME HeapBelowStack, NEW q \in Proc,
         \A p \in Proc \ {q} :
           /\ status'[p] = "live" => status[p] = "live"
           /\ MappedPages(p)' = MappedPages(p)
           /\ user_brk_page'[p] = user_brk_page[p]
           /\ lowest_user_stack_page'[p] = lowest_user_stack_page[p],
         status'[q] = "live" =>
           /\ user_brk_page'[q] < lowest_user_stack_page'[q]
           /\ MappedPages(q)' = (0..user_brk_page'[q] - 1)
                                  \cup (lowest_user_stack_page'[q]..NUM_PAGES_REG_1 - 1)
  PROVE  HeapBelowStack'
<1>. SUFFICES ASSUME NEW p \in Proc, status'[p] = "live"
              PROVE  /\ user_brk_page'[p] < lowest_user_stack_page'[p]
                     /\ MappedPages(p)' =
                          (0..user_brk_page'[p] - 1)
                            \cup (lowest_user_stack_page'[p]..NUM_PAGES_REG_1 - 1)
  BY DEF HeapBelowStack
<1>1. CASE p = q
  BY <1>1
<1>2. CASE p # q
  BY <1>2 DEF HeapBelowStack
<1>. QED BY <1>1, <1>2

LEMMA MappedSame ==
  ASSUME NEW p \in Proc, \A x \in Region1(p) : pte'[x] = pte[x]
  PROVE  MappedPages(p)' = MappedPages(p)
<1>1. \A i \in Page : User(p, i) \in Region1(p)
  BY InUserPages DEF Region1
<1>. QED BY <1>1 DEF MappedPages, Valid

LEMMA CacheTypeOK ==
  ASSUME MemTypeOK, NEW I \in SUBSET Page, MayStayCached(I)
  PROVE  /\ tlb' \in [Page -> Frame \cup {NoFrame}]
         /\ \A i \in Page : tlb'[i] \in {NoFrame, tlb[i], pte[User(current_proc, i)]}
<1>1. PICK cached \in SUBSET (I \ {0}) :
        tlb' = [i \in Page |-> IF i \in cached /\ tlb[i] = NoFrame
                               THEN pte[User(current_proc, i)] ELSE tlb[i]]
  BY DEF MayStayCached
<1>2. \A i \in Page : User(current_proc, i) \in Place
  BY InUserPages, PlaceFacts DEF Region1, MemTypeOK
<1>3. \A i \in Page : pte[User(current_proc, i)] \in Frame \cup {NoFrame}
  BY <1>2 DEF MemTypeOK
<1>. QED BY <1>1, <1>3 DEF MemTypeOK

LEMMA NothingCachedType == NothingCached \in [Page -> Frame \cup {NoFrame}]
BY DEF NothingCached

\* Pages of the running process change hands; the kernel stacks, the kernel heap and the
\* other processes keep what they have.
LEMMA OwnStep ==
  ASSUME MemInv, NEW q, q = current_proc, status[q] \in {"live", "gutted"},
         NEW U \in SUBSET Region1(q), NEW T \in SUBSET Region1(q),
         Moved(U, T),
         NEW s \in {"live", "gutted", "dying"},
         status' = [status EXCEPT ![q] = s],
         UNCHANGED <<current_proc, kernel_brk_page>>,
         \A i \in Page : tlb'[i] \in {NoFrame, tlb[i], pte[User(q, i)]}
  PROVE  /\ PteTypeOK' /\ status' \in [Proc -> Statuses]
         /\ FramesOnce' /\ FramesHaveOwner' /\ HeapMapped' /\ TlbIsolation'
         /\ \A p \in Proc \ {q} : MappedPages(p)' = MappedPages(p)
         /\ \A x \in Region1(q) :
              Valid(x)' <=> x \in T \/ (x \notin U /\ Valid(x))
<1>1. /\ MemTypeOK /\ FramesOnce /\ FramesHaveOwner /\ HeapMapped /\ TlbIsolation
      /\ PteTypeOK /\ q \in Proc
  BY DEF MemInv, MemTypeOK, PteTypeOK
<1>2. U \in SUBSET Place /\ T \in SUBSET Place
  BY <1>1, PlaceFacts
<1>3. /\ PteTypeOK' /\ FramesOnce'
      /\ \A x \in T : Valid(x)'
      /\ \A x \in U \ T : ~Valid(x)'
      /\ \A x \in Place \ (U \cup T) : pte'[x] = pte[x]
  BY DEF Moved
<1>4. \A x \in Place \ Region1(q) : pte'[x] = pte[x]
  BY <1>3
<1>5. \A p \in Proc : KernelStack(p) \subseteq Place \ Region1(q)
  BY <1>1, PlaceFacts, RegionIsUserPages
<1>6. \A p \in Proc \ {q} : Region1(p) \subseteq Place \ Region1(q)
  BY <1>1, PlaceFacts, RegionIsUserPages
<1>7. status' \in [Proc -> Statuses]
  BY <1>1 DEF MemTypeOK, Statuses
<1>8. Alive' = Alive /\ q \in Alive
  BY <1>1 DEF Alive, MemTypeOK
<1>9. \A p \in Proc \ {q} : status'[p] = status[p]
  BY <1>1 DEF MemTypeOK
<1>10. FramesHaveOwner'
  <2>1. ASSUME NEW p \in Alive, NEW x \in KernelStack(p)
        PROVE  Valid(x)'
    BY <1>1, <1>4, <1>5, <2>1 DEF FramesHaveOwner, Valid, Alive
  <2>2. ASSUME NEW p \in Proc \ Alive
        PROVE  /\ \A x \in Region1(p) : ~Valid(x)'
               /\ status'[p] # "lost" => \A x \in KernelStack(p) : ~Valid(x)'
    BY <1>1, <1>4, <1>5, <1>6, <1>8, <1>9, <2>2 DEF FramesHaveOwner, Valid
  <2>. QED BY <1>8, <2>1, <2>2 DEF FramesHaveOwner
<1>11. HeapMapped'
  <2>1. \A i \in HeapPage : <<"heap", 0, i>> \in Place \ Region1(q)
    BY <1>1, PlaceFacts, RegionIsUserPages DEF Heap
  <2>. QED BY <1>1, <1>4, <2>1 DEF HeapMapped, Valid
<1>12. TlbIsolation'
  <2>. SUFFICES ASSUME NEW i \in Page, NEW p \in Alive \ {q}, tlb'[i] # NoFrame,
                       NEW x \in Region1(p) \cup KernelStack(p)
                PROVE  pte'[x] # tlb'[i]
    BY <1>8 DEF TlbIsolation
  <2>1. x \in Place \ Region1(q) /\ pte'[x] = pte[x]
    BY <1>4, <1>5, <1>6 DEF Alive
  <2>2. CASE tlb'[i] = tlb[i]
    BY <1>1, <2>1, <2>2 DEF TlbIsolation
  <2>3. CASE tlb'[i] = pte[User(q, i)]
    <3>1. User(q, i) \in Region1(q) /\ User(q, i) \in Place
      BY <1>1, InUserPages, PlaceFacts DEF Region1
    <3>. QED BY <1>1, <2>1, <2>3, <3>1 DEF FramesOnce, Valid
  <2>. QED BY <2>2, <2>3
<1>13. \A p \in Proc \ {q} : MappedPages(p)' = MappedPages(p)
  BY <1>4, <1>6, MappedSame
<1>14. \A x \in Region1(q) : Valid(x)' <=> x \in T \/ (x \notin U /\ Valid(x))
  <2>1. Region1(q) \subseteq Place
    BY <1>1, PlaceFacts
  <2>. QED BY <1>3, <2>1 DEF Valid
<1>. QED BY <1>3, <1>7, <1>10, <1>11, <1>12, <1>13, <1>14

-----------------------------------------------------------------------------
(* One lemma for each operation *)

LEMMA InvParts ==
  ASSUME MemInv
  PROVE  /\ MemTypeOK /\ FramesOnce /\ FramesHaveOwner /\ HeapBelowStack /\ HeapMapped
         /\ TlbIsolation /\ PteTypeOK
         /\ current_proc \in Proc /\ status \in [Proc -> Statuses]
BY DEF MemInv, MemTypeOK, PteTypeOK

LEMMA NothingCachedIsolates ==
  ASSUME tlb' = NothingCached
  PROVE  TlbIsolation'
BY DEF TlbIsolation, NothingCached

\* A new process takes pages of its own only.
LEMMA ChildStep ==
  ASSUME MemInv, NEW c \in Proc, status[c] = "unborn", c # current_proc,
         NEW T \in SUBSET (KernelStack(c) \cup Region1(c)),
         Remap({}, T),
         UNCHANGED kernel_brk_page
  PROVE  /\ PteTypeOK' /\ FramesOnce' /\ HeapMapped'
         /\ \A x \in T : Valid(x)'
         /\ \A x \in (KernelStack(c) \cup Region1(c)) \ T : ~Valid(x)'
         /\ \A p \in Proc \ {c} :
              /\ \A x \in KernelStack(p) \cup Region1(p) : pte'[x] = pte[x]
              /\ MappedPages(p)' = MappedPages(p)
<1>1. c \in Proc \ Alive /\ status[c] # "lost"
  BY DEF Alive
<1>2. \A x \in KernelStack(c) \cup Region1(c) : ~Valid(x)
  BY <1>1, InvParts DEF FramesHaveOwner
<1>3. KernelStack(c) \cup Region1(c) \subseteq Place
  BY PlaceFacts
<1>4. T \in SUBSET Place /\ {} \in SUBSET Place /\ \A x \in T : x \in {} \/ ~Valid(x)
  BY <1>2, <1>3
<1>5. /\ PteTypeOK' /\ FramesOnce'
      /\ \A x \in T : Valid(x)'
      /\ \A x \in Place \ ({} \cup T) : pte'[x] = pte[x]
  BY <1>4, InvParts, RemapFacts DEF Moved
<1>6. \A x \in (KernelStack(c) \cup Region1(c)) \ T : ~Valid(x)'
  BY <1>2, <1>3, <1>5 DEF Valid
<1>7. ASSUME NEW p \in Proc \ {c}
      PROVE  \A x \in KernelStack(p) \cup Region1(p) : pte'[x] = pte[x]
  <2>1. (KernelStack(p) \cup Region1(p)) \cap (KernelStack(c) \cup Region1(c)) = {}
    BY PlaceFacts, RegionIsUserPages
  <2>2. KernelStack(p) \cup Region1(p) \subseteq Place
    BY PlaceFacts
  <2>. QED BY <1>5, <2>1, <2>2
<1>8. HeapMapped'
  <2>1. \A i \in HeapPage : /\ <<"heap", 0, i>> \in Place
                            /\ <<"heap", 0, i>> \notin KernelStack(c) \cup Region1(c)
    BY PlaceFacts, RegionIsUserPages DEF Heap
  <2>. QED BY <1>5, <2>1, InvParts DEF HeapMapped, Valid
<1>. QED BY <1>5, <1>6, <1>7, <1>8, MappedSame

LEMMA ForkKeepsInv ==
  ASSUME MemInv, NEW c \in Proc, KernelFork(c)
  PROVE  MemInv'
<1>. DEFINE q == current_proc
<1>1. /\ machine = "running" /\ machine' = "running" /\ kernel_brk_page' = kernel_brk_page
      /\ status[q] \in {"live", "gutted"} /\ status[c] = "unborn" /\ c # q
  BY DEF KernelFork, Runs, NextPid
<1>2. ForkPages(c) \subseteq Region1(c) /\ KernelStack(c) \cap ForkPages(c) = {}
  BY PlaceFacts DEF ForkPages, MappedPages
<1>3. MemAssertsHold'
  BY <1>1 DEF MemAssertsHold
<1>4. CASE ForkRunsChild(c)
  <2>1. /\ Remap({}, KernelStack(c) \cup ForkPages(c))
        /\ status' = [status EXCEPT ![c] = status[q]]
        /\ user_brk_page' = [user_brk_page EXCEPT ![c] = user_brk_page[q]]
        /\ lowest_user_stack_page' =
             [lowest_user_stack_page EXCEPT ![c] = lowest_user_stack_page[q]]
        /\ current_proc' = c /\ tlb' = NothingCached
    BY <1>4 DEF ForkRunsChild, SwitchToProc
  <2>2. KernelStack(c) \cup ForkPages(c) \in SUBSET (KernelStack(c) \cup Region1(c))
    BY <1>2
  <2>3. /\ PteTypeOK' /\ FramesOnce' /\ HeapMapped'
        /\ \A x \in KernelStack(c) \cup ForkPages(c) : Valid(x)'
        /\ \A x \in Region1(c) \ ForkPages(c) : ~Valid(x)'
        /\ \A p \in Proc \ {c} :
             /\ \A x \in KernelStack(p) \cup Region1(p) : pte'[x] = pte[x]
             /\ MappedPages(p)' = MappedPages(p)
    <3>1. \A x \in Region1(c) \ ForkPages(c) :
            x \in (KernelStack(c) \cup Region1(c)) \ (KernelStack(c) \cup ForkPages(c))
      BY PlaceFacts, RegionIsUserPages
    <3>. QED BY <1>1, <2>1, <2>2, <3>1, ChildStep
  <2>4. MemTypeOK'
    BY <1>1, <2>1, <2>3, NothingCachedType, InvParts DEF MemTypeOK, PteTypeOK
  <2>5. Alive' = Alive \cup {c}
    BY <1>1, <2>1, InvParts DEF Alive
  <2>6. FramesHaveOwner'
    <3>1. \A p \in Alive' : \A x \in KernelStack(p) : Valid(x)'
      BY <2>3, <2>5, InvParts DEF FramesHaveOwner, Valid, Alive
    <3>2. \A p \in Proc \ Alive' :
            /\ \A x \in Region1(p) : ~Valid(x)'
            /\ status'[p] # "lost" => \A x \in KernelStack(p) : ~Valid(x)'
      BY <2>1, <2>3, <2>5, InvParts DEF FramesHaveOwner, Valid
    <3>. QED BY <3>1, <3>2 DEF FramesHaveOwner
  <2>7. MappedPages(c)' = MappedPages(q)
    <3>1. ASSUME NEW i \in Page
          PROVE  Valid(User(c, i))' <=> i \in MappedPages(q)
      <4>1. User(c, i) \in ForkPages(c) <=> i \in MappedPages(q)
        BY InUserPages DEF ForkPages
      <4>2. User(c, i) \in Region1(c)
        BY InUserPages DEF Region1
      <4>. QED BY <2>3, <4>1, <4>2
    <3>. QED BY <3>1 DEF MappedPages
  <2>8. HeapBelowStack'
    <3>1. status'[c] = "live" =>
            /\ user_brk_page'[c] < lowest_user_stack_page'[c]
            /\ MappedPages(c)' = (0..user_brk_page'[c] - 1)
                                   \cup (lowest_user_stack_page'[c]..NUM_PAGES_REG_1 - 1)
      BY <2>1, <2>7, InvParts DEF HeapBelowStack, MemTypeOK
    <3>2. \A p \in Proc \ {c} :
            /\ status'[p] = "live" => status[p] = "live"
            /\ MappedPages(p)' = MappedPages(p)
            /\ user_brk_page'[p] = user_brk_page[p]
            /\ lowest_user_stack_page'[p] = lowest_user_stack_page[p]
      BY <2>1, <2>3, InvParts DEF MemTypeOK
    <3>. QED BY <3>1, <3>2, InvParts, HeapBelowStackStep
  <2>. QED BY <1>3, <2>1, <2>3, <2>4, <2>6, <2>8, NothingCachedIsolates DEF MemInv
<1>5. CASE ForkFails(c)
  <2>. DEFINE T == IF Enough(NUM_KERNEL_PAGES) THEN KernelStack(c) ELSE {}
  <2>1. /\ Remap({}, T)
        /\ status' = [status EXCEPT ![c] = "lost"]
        /\ UNCHANGED <<current_proc, tlb>>
    BY <1>5 DEF ForkFails
  <2>2. /\ user_brk_page' \in [Proc -> Page] /\ lowest_user_stack_page' \in [Proc -> Page]
        /\ \A p \in Proc \ {c} : /\ user_brk_page'[p] = user_brk_page[p]
                                 /\ lowest_user_stack_page'[p] = lowest_user_stack_page[p]
    BY <1>5, InvParts DEF ForkFails, MemTypeOK
  <2>3. /\ PteTypeOK' /\ FramesOnce' /\ HeapMapped'
        /\ \A x \in Region1(c) : ~Valid(x)'
        /\ \A p \in Proc \ {c} :
             /\ \A x \in KernelStack(p) \cup Region1(p) : pte'[x] = pte[x]
             /\ MappedPages(p)' = MappedPages(p)
    <3>1. T \in SUBSET (KernelStack(c) \cup Region1(c))
      OBVIOUS
    <3>2. \A x \in Region1(c) : x \in (KernelStack(c) \cup Region1(c)) \ T
      BY PlaceFacts, RegionIsUserPages
    <3>. HIDE DEF T
    <3>. QED BY <1>1, <2>1, <3>1, <3>2, ChildStep
  <2>4. MemTypeOK'
    BY <1>1, <2>1, <2>2, <2>3, InvParts DEF MemTypeOK, PteTypeOK, Statuses
  <2>5. Alive' = Alive /\ c \notin Alive
    BY <1>1, <2>1, InvParts DEF Alive
  <2>6. FramesHaveOwner'
    <3>1. \A p \in Alive' : \A x \in KernelStack(p) : Valid(x)'
      BY <2>3, <2>5, InvParts DEF FramesHaveOwner, Valid, Alive
    <3>2. \A p \in Proc \ Alive' :
            /\ \A x \in Region1(p) : ~Valid(x)'
            /\ status'[p] # "lost" => \A x \in KernelStack(p) : ~Valid(x)'
      BY <2>1, <2>3, <2>5, InvParts DEF FramesHaveOwner, Valid
    <3>. QED BY <3>1, <3>2 DEF FramesHaveOwner
  <2>7. HeapBelowStack'
    <3>1. \A p \in Proc \ {c} : status'[p] = "live" => status[p] = "live"
      BY <2>1, InvParts
    <3>2. status'[c] # "live"
      BY <2>1, InvParts
    <3>. QED BY <2>2, <2>3, <3>1, <3>2, InvParts, HeapBelowStackStep
  <2>8. TlbIsolation'
    BY <2>1, <2>3, <2>5, InvParts DEF TlbIsolation, Alive
  <2>. QED BY <1>3, <2>3, <2>4, <2>6, <2>7, <2>8 DEF MemInv
<1>. QED BY <1>4, <1>5 DEF KernelFork

LEMMA ProgramPages ==
  ASSUME NEW prog \in Programs, Fits(prog)
  PROVE  /\ prog.text + prog.data \in Page /\ LowestStackPage(prog) \in Page
         /\ prog.text + prog.data < LowestStackPage(prog)
         /\ AllPagesOf(prog) = (0..(prog.text + prog.data) - 1)
                                 \cup (LowestStackPage(prog)..NUM_PAGES_REG_1 - 1)
         /\ \A I \in Stages(prog) : I \subseteq Page
<1>1. prog.text \in Nat /\ prog.data \in Nat /\ prog.stack \in Nat \ {0} /\ NUM_PAGES_REG_1 \in Nat
  BY MemoryAssumption
<1>2. prog.stack + prog.text + prog.data < NUM_PAGES_REG_1
  BY DEF Fits
<1>3. /\ prog.text + prog.data \in Page /\ LowestStackPage(prog) \in Page
      /\ prog.text + prog.data < LowestStackPage(prog)
  BY <1>1, <1>2 DEF Page, LowestStackPage
<1>4. AllPagesOf(prog) = (0..(prog.text + prog.data) - 1)
                           \cup (LowestStackPage(prog)..NUM_PAGES_REG_1 - 1)
  BY <1>1, <1>3 DEF AllPagesOf, PagesOf, Page
<1>5. AllPagesOf(prog) \subseteq Page
  BY <1>1, <1>3, <1>4 DEF Page
<1>6. \A I \in Stages(prog) : I \subseteq AllPagesOf(prog)
  BY DEF Stages, AllPagesOf
<1>. QED BY <1>3, <1>4, <1>5, <1>6

LEMMA ExecKeepsInv ==
  ASSUME MemInv, NEW prog \in Programs, KernelExec(prog)
  PROVE  MemInv'
<1>. PICK q : q = current_proc
  OBVIOUS
<1>1. /\ Fits(prog) /\ machine' = "running" /\ status[q] \in {"live", "gutted"}
      /\ UNCHANGED <<current_proc, kernel_brk_page>>
  BY DEF KernelExec, Runs
<1>2. PICK I \in Stages(prog) :
        /\ Remap(Region1(q), UserPages(q, I))
        /\ IF I = AllPagesOf(prog) THEN ExecSucceeds(prog) \/ ExecKilled ELSE ExecFails
  BY DEF KernelExec
<1>3. /\ prog.text + prog.data \in Page /\ LowestStackPage(prog) \in Page
      /\ prog.text + prog.data < LowestStackPage(prog)
      /\ I \subseteq Page
      /\ UserPages(q, I) \in SUBSET Region1(q)
  BY <1>1, ProgramPages, InvParts, PlaceFacts
<1>4. /\ tlb' \in [Page -> Frame \cup {NoFrame}]
      /\ \A i \in Page : tlb'[i] \in {NoFrame, tlb[i], pte[User(q, i)]}
  <2>1. CASE tlb' = NothingCached
    BY <2>1, NothingCachedType DEF NothingCached
  <2>2. CASE MayStayCached(MappedPages(q))
    BY <2>2, InvParts, CacheTypeOK DEF MappedPages
  <2>. QED BY <1>2, <2>1, <2>2 DEF ExecSucceeds, ExecKilled, ExecFails
<1>5. PICK s \in {"live", "gutted", "dying"} : status' = [status EXCEPT ![q] = s]
  BY <1>2 DEF ExecSucceeds, ExecKilled, ExecFails
<1>6. /\ \A x \in UserPages(q, I) : x \in Region1(q) \/ ~Valid(x)
      /\ Region1(q) \in SUBSET Region1(q)
  BY <1>3
<1>7. /\ PteTypeOK' /\ status' \in [Proc -> Statuses]
      /\ FramesOnce' /\ FramesHaveOwner' /\ HeapMapped' /\ TlbIsolation'
      /\ \A p \in Proc \ {q} : MappedPages(p)' = MappedPages(p)
      /\ \A x \in Region1(q) :
           Valid(x)' <=> x \in UserPages(q, I) \/ (x \notin Region1(q) /\ Valid(x))
  <2>. DEFINE U == Region1(q)
              T == UserPages(q, I)
  <2>1. /\ U \in SUBSET Region1(q) /\ T \in SUBSET Region1(q)
        /\ \A x \in T : x \in U \/ ~Valid(x)
        /\ Remap(U, T)
    BY <1>2, <1>3, <1>6
  <2>. HIDE DEF U, T
  <2>2. Moved(U, T)
    <3>1. U \in SUBSET Place /\ T \in SUBSET Place
      BY <2>1, InvParts, PlaceFacts
    <3>. QED BY <2>1, <3>1, InvParts, RemapFacts
  <2>3. /\ PteTypeOK' /\ status' \in [Proc -> Statuses]
        /\ FramesOnce' /\ FramesHaveOwner' /\ HeapMapped' /\ TlbIsolation'
        /\ \A p \in Proc \ {q} : MappedPages(p)' = MappedPages(p)
        /\ \A x \in Region1(q) : Valid(x)' <=> x \in T \/ (x \notin U /\ Valid(x))
    BY <1>1, <1>4, <1>5, <2>1, <2>2, OwnStep
  <2>. QED BY <2>3 DEF U, T
<1>8. user_brk_page' \in [Proc -> Page] /\ lowest_user_stack_page' \in [Proc -> Page]
  BY <1>2, <1>3, InvParts DEF ExecSucceeds, ExecKilled, ExecFails, MemTypeOK
<1>9. MemTypeOK'
  BY <1>1, <1>4, <1>7, <1>8, InvParts DEF MemTypeOK, PteTypeOK
<1>10. HeapBelowStack'
  <2>1. \A p \in Proc \ {q} :
          /\ status'[p] = "live" => status[p] = "live"
          /\ user_brk_page'[p] = user_brk_page[p]
          /\ lowest_user_stack_page'[p] = lowest_user_stack_page[p]
    BY <1>2, <1>5, InvParts DEF ExecSucceeds, ExecKilled, ExecFails, MemTypeOK
  <2>2. ASSUME status'[q] = "live"
        PROVE  /\ user_brk_page'[q] < lowest_user_stack_page'[q]
               /\ MappedPages(q)' = (0..user_brk_page'[q] - 1)
                                      \cup (lowest_user_stack_page'[q]..NUM_PAGES_REG_1 - 1)
    <3>1. I = AllPagesOf(prog) /\ ExecSucceeds(prog)
      BY <1>2, <2>2, InvParts DEF ExecKilled, ExecFails
    <3>2. /\ user_brk_page'[q] = prog.text + prog.data
          /\ lowest_user_stack_page'[q] = LowestStackPage(prog)
      BY <3>1, InvParts DEF ExecSucceeds, MemTypeOK
    <3>3. MappedPages(q)' = I
      <4>1. ASSUME NEW i \in Page
            PROVE  Valid(User(q, i))' <=> i \in I
        BY <1>1, <1>7, InUserPages DEF Region1
      <4>. QED BY <1>1, <1>3, <4>1 DEF MappedPages
    <3>4. I = (0..user_brk_page'[q] - 1)
                \cup (lowest_user_stack_page'[q]..NUM_PAGES_REG_1 - 1)
      BY <1>1, <3>1, <3>2, ProgramPages
    <3>5. user_brk_page'[q] < lowest_user_stack_page'[q]
      BY <1>3, <3>2
    <3>. QED BY <3>3, <3>4, <3>5
  <2>. QED BY <1>7, <2>1, <2>2, InvParts, HeapBelowStackStep
<1>11. MemAssertsHold'
  BY <1>1 DEF MemAssertsHold
<1>. QED BY <1>7, <1>9, <1>10, <1>11 DEF MemInv

\* Actions that map no page: the excuse is that of MemAssertsHold.
LEMMA NoPagesKeepInv ==
  ASSUME MemInv, NEW q, q = current_proc,
         UNCHANGED <<pte, free, user_brk_page, lowest_user_stack_page, kernel_brk_page>>,
         \/ status' = status
         \/ /\ status[q] \in {"live", "gutted"}
            /\ status' = [status EXCEPT ![q] = "dying"],
         \/ current_proc' = q /\ tlb' = tlb
         \/ current_proc' \in Proc /\ tlb' = NothingCached,
         machine' \in {"running", "halted", "aborted", "ended"},
         machine' = "aborted" =>
           /\ status' = status /\ current_proc' = q
           /\ \/ \E i \in HeapPage : i >= kernel_brk_page /\ Valid(<<"heap", 0, i>>)
              \/ status[q] = "gutted"
  PROVE  MemInv'
<1>1. q \in Proc /\ MemTypeOK
  BY InvParts
<1>2. status' \in [Proc -> Statuses] /\ Alive' = Alive
  BY <1>1 DEF MemTypeOK, Statuses, Alive
<1>3. MemTypeOK'
  BY <1>1, <1>2, NothingCachedType DEF MemTypeOK
<1>4. FramesOnce' /\ HeapMapped'
  BY InvParts DEF FramesOnce, HeapMapped, Valid
<1>5. FramesHaveOwner'
  <2>1. \A p \in Proc \ Alive : status'[p] = status[p]
    BY <1>1, InvParts DEF Alive
  <2>. QED BY <1>2, <2>1, InvParts DEF FramesHaveOwner, Valid
<1>6. HeapBelowStack'
  <2>1. \A p \in Proc : status'[p] = "live" => status[p] = "live"
    BY <1>1, InvParts
  <2>. QED BY <2>1, InvParts DEF HeapBelowStack, MappedPages, Valid
<1>7. MemAssertsHold'
  BY DEF MemAssertsHold, Valid
<1>8. TlbIsolation'
  BY <1>2, InvParts, NothingCachedIsolates DEF TlbIsolation
<1>. QED BY <1>3, <1>4, <1>5, <1>6, <1>7, <1>8 DEF MemInv

\* The size of the pages from a up to b, which is not included.
LEMMA EnoughForPrefix ==
  ASSUME MemInv, NEW a \in Nat, NEW b \in Nat, Enough(Cardinality(a..b - 1)), NEW i \in a..b - 1
  PROVE  Enough(i - a)
<1>1. Cardinality(free) \in Nat
  BY InvParts, MemoryAssumption, FS_Subset, FS_CardinalityType DEF MemTypeOK
<1>2. Cardinality(a..b - 1) = (b - 1) - a + 1
  BY FS_Interval
<1>. QED BY <1>1, <1>2 DEF Enough

LEMMA BrkKeepsInv ==
  ASSUME MemInv, NEW new \in 0..NUM_PAGES_REG_1, KernelBrk(new)
  PROVE  MemInv'
<1>. PICK q : q = current_proc
  OBVIOUS
<1>1. /\ machine = "running" /\ status[q] \in {"live", "gutted"} /\ q \in Proc
      /\ user_brk_page[q] \in Page /\ lowest_user_stack_page[q] \in Page
      /\ new < lowest_user_stack_page[q] /\ NUM_PAGES_REG_1 \in Nat
  BY InvParts, ConstantFacts DEF KernelBrk, Runs, LeavesBlankPage, MemTypeOK
<1>2. new \in Page /\ user_brk_page[q] \in Nat /\ new \in Nat
  BY <1>1 DEF Page
<1>3. status[q] = "live" =>
        /\ user_brk_page[q] < lowest_user_stack_page[q]
        /\ MappedPages(q) = (0..user_brk_page[q] - 1)
                              \cup (lowest_user_stack_page[q]..NUM_PAGES_REG_1 - 1)
  BY <1>1, InvParts DEF HeapBelowStack
<1>4. CASE Abort
  <2>1. status[q] = "gutted"
    <3>. SUFFICES ASSUME status[q] = "live"
                  PROVE  FALSE
      BY <1>1
    <3>1. CASE new > user_brk_page[q] /\ GrowHeap(new)
      <4>1. (user_brk_page[q]..new - 1) \cap MappedPages(q) = {}
        <5>1. ASSUME NEW i \in user_brk_page[q]..new - 1
              PROVE  i \notin MappedPages(q)
          BY <1>1, <1>2, <1>3 DEF Page
        <5>. QED BY <5>1
      <4>2. machine' = "running"
        BY <1>1, <3>1, <4>1 DEF GrowHeap
      <4>. QED BY <1>4, <4>2 DEF Abort
    <3>2. CASE new < user_brk_page[q] /\ ShrinkHeap(new)
      <4>1. new..user_brk_page[q] - 1 \subseteq MappedPages(q)
        BY <1>1, <1>2, <1>3
      <4>2. machine' = "running"
        BY <1>1, <3>2, <4>1 DEF ShrinkHeap
      <4>. QED BY <1>4, <4>2 DEF Abort
    <3>. QED BY <3>1, <3>2 DEF KernelBrk
  <2>. QED BY <1>4, <2>1, NoPagesKeepInv DEF Abort
<1>5. ASSUME NEW U \in SUBSET Region1(q), NEW T \in SUBSET Region1(q),
             \A x \in T : x \in U \/ ~Valid(x),
             Remap(U, T),
             \A i \in Page : tlb'[i] \in {NoFrame, tlb[i], pte[User(q, i)]},
             tlb' \in [Page -> Frame \cup {NoFrame}],
             user_brk_page' = [user_brk_page EXCEPT ![q] = new],
             UNCHANGED <<machine, current_proc, status, lowest_user_stack_page, kernel_brk_page>>,
             \A i \in Page :
               (User(q, i) \in T \/ (User(q, i) \notin U /\ i \in MappedPages(q))) <=>
               \/ i \in MappedPages(q) /\ ~(i \in new..user_brk_page[q] - 1)
               \/ i \in user_brk_page[q]..new - 1
      PROVE  MemInv'
  <2>1. U \in SUBSET Place /\ T \in SUBSET Place
    BY <1>1, <1>5, PlaceFacts
  <2>2. Moved(U, T)
    BY <1>5, <2>1, InvParts, RemapFacts
  <2>3. status' = [status EXCEPT ![q] = status[q]]
    BY <1>5, InvParts
  <2>4. /\ PteTypeOK' /\ status' \in [Proc -> Statuses]
        /\ FramesOnce' /\ FramesHaveOwner' /\ HeapMapped' /\ TlbIsolation'
        /\ \A p \in Proc \ {q} : MappedPages(p)' = MappedPages(p)
        /\ \A x \in Region1(q) : Valid(x)' <=> x \in T \/ (x \notin U /\ Valid(x))
    BY <1>1, <1>5, <2>2, <2>3, OwnStep
  <2>5. MemTypeOK'
    BY <1>2, <1>5, <2>4, InvParts DEF MemTypeOK, PteTypeOK
  <2>6. ASSUME status'[q] = "live"
        PROVE  /\ user_brk_page'[q] < lowest_user_stack_page'[q]
               /\ MappedPages(q)' = (0..user_brk_page'[q] - 1)
                                      \cup (lowest_user_stack_page'[q]..NUM_PAGES_REG_1 - 1)
    <3>1. user_brk_page'[q] = new /\ lowest_user_stack_page'[q] = lowest_user_stack_page[q]
      BY <1>1, <1>5, InvParts DEF MemTypeOK
    <3>2. ASSUME NEW i \in Page
          PROVE  Valid(User(q, i))' <=>
                   i \in (0..new - 1) \cup (lowest_user_stack_page[q]..NUM_PAGES_REG_1 - 1)
      <4>1. Valid(User(q, i))' <=> \/ i \in MappedPages(q) /\ ~(i \in new..user_brk_page[q] - 1)
                                   \/ i \in user_brk_page[q]..new - 1
        BY <1>5, <2>4, InUserPages DEF Region1, MappedPages
      <4>. QED BY <1>1, <1>2, <1>3, <1>5, <2>6, <4>1 DEF Page
    <3>3. (0..new - 1) \cup (lowest_user_stack_page[q]..NUM_PAGES_REG_1 - 1) \subseteq Page
      BY <1>1, <1>2 DEF Page
    <3>4. MappedPages(q)' = (0..new - 1) \cup (lowest_user_stack_page[q]..NUM_PAGES_REG_1 - 1)
      BY <3>2, <3>3 DEF MappedPages
    <3>. QED BY <1>1, <3>1, <3>4
  <2>7. HeapBelowStack'
    <3>1. \A p \in Proc \ {q} :
            /\ status'[p] = "live" => status[p] = "live"
            /\ user_brk_page'[p] = user_brk_page[p]
            /\ lowest_user_stack_page'[p] = lowest_user_stack_page[p]
      BY <1>5, InvParts DEF MemTypeOK
    <3>. QED BY <1>1, <2>4, <2>6, <3>1, InvParts, HeapBelowStackStep
  <2>. QED BY <1>1, <1>5, <2>4, <2>5, <2>7 DEF MemInv, MemAssertsHold
<1>6. CASE GrowHeap(new) /\ new > user_brk_page[q] /\ ~Abort
  <2>. DEFINE pages == user_brk_page[q]..new - 1
              T == UserPages(q, pages)
  <2>1. /\ {i \in pages : Enough(i - user_brk_page[q])} \cap MappedPages(q) = {}
        /\ Enough(Cardinality(pages)) /\ Remap({}, T)
        /\ user_brk_page' = [user_brk_page EXCEPT ![q] = new]
        /\ UNCHANGED <<machine, current_proc, status, lowest_user_stack_page, kernel_brk_page, tlb>>
    BY <1>6 DEF GrowHeap
  <2>2. pages \cap MappedPages(q) = {}
    BY <1>2, <2>1, EnoughForPrefix
  <2>3. pages \subseteq Page
    BY <1>1, <1>2 DEF Page
  <2>4. T \in SUBSET Region1(q) /\ \A i \in Page : User(q, i) \in T <=> i \in pages
    <3>1. T \subseteq Region1(q)
      BY <2>3 DEF Region1, UserPages
    <3>. HIDE DEF pages
    <3>2. \A i \in Page : User(q, i) \in T <=> i \in pages
      BY InUserPages
    <3>. QED BY <3>1, <3>2
  <2>5. \A x \in T : ~Valid(x)
    BY <2>2, <2>3 DEF UserPages, MappedPages
  <2>6. /\ tlb' \in [Page -> Frame \cup {NoFrame}]
        /\ \A i \in Page : tlb'[i] \in {NoFrame, tlb[i], pte[User(q, i)]}
    BY <2>1, InvParts DEF MemTypeOK
  <2>7. \A i \in Page :
          (User(q, i) \in T \/ (User(q, i) \notin {} /\ i \in MappedPages(q))) <=>
          \/ i \in MappedPages(q) /\ ~(i \in new..user_brk_page[q] - 1)
          \/ i \in user_brk_page[q]..new - 1
    <3>1. \A i \in Page : ~(i \in new..user_brk_page[q] - 1)
      BY <1>2, <1>6 DEF Page
    <3>. QED BY <2>4, <3>1
  <2>8. {} \in SUBSET Region1(q) /\ \A x \in T : x \in {} \/ ~Valid(x)
    BY <2>5
  <2>. HIDE DEF T
  <2>. QED BY <1>5, <2>1, <2>4, <2>6, <2>7, <2>8
<1>7. CASE ShrinkHeap(new) /\ new < user_brk_page[q] /\ ~Abort
  <2>. DEFINE pages == new..user_brk_page[q] - 1
              U == UserPages(q, pages)
  <2>1. /\ Remap(U, {}) /\ MayStayCached(pages)
        /\ user_brk_page' = [user_brk_page EXCEPT ![q] = new]
        /\ UNCHANGED <<machine, current_proc, status, lowest_user_stack_page, kernel_brk_page>>
    BY <1>7 DEF ShrinkHeap
  <2>2. pages \subseteq Page
    BY <1>1, <1>2 DEF Page
  <2>3. U \in SUBSET Region1(q) /\ \A i \in Page : User(q, i) \in U <=> i \in pages
    <3>1. U \subseteq Region1(q)
      BY <2>2 DEF Region1, UserPages
    <3>. HIDE DEF pages
    <3>2. \A i \in Page : User(q, i) \in U <=> i \in pages
      BY InUserPages
    <3>. QED BY <3>1, <3>2
  <2>4. /\ tlb' \in [Page -> Frame \cup {NoFrame}]
        /\ \A i \in Page : tlb'[i] \in {NoFrame, tlb[i], pte[User(q, i)]}
    BY <2>1, <2>2, InvParts, CacheTypeOK
  <2>5. \A i \in Page :
          (User(q, i) \in {} \/ (User(q, i) \notin U /\ i \in MappedPages(q))) <=>
          \/ i \in MappedPages(q) /\ ~(i \in new..user_brk_page[q] - 1)
          \/ i \in user_brk_page[q]..new - 1
    <3>1. \A i \in Page : ~(i \in user_brk_page[q]..new - 1)
      BY <1>2, <1>7 DEF Page
    <3>. QED BY <2>3, <3>1
  <2>6. {} \in SUBSET Region1(q) /\ \A x \in {} : x \in U \/ ~Valid(x)
    OBVIOUS
  <2>. HIDE DEF U
  <2>. QED BY <1>5, <2>1, <2>3, <2>4, <2>5, <2>6
<1>. QED BY <1>4, <1>6, <1>7 DEF KernelBrk

LEMMA KernelHeapKeepsInv ==
  ASSUME MemInv, NEW new \in 0..MaxHeapPages, SetKernelBrk(new)
  PROVE  MemInv'
<1>. DEFINE kbrk == kernel_brk_page
<1>1. machine = "running" /\ kbrk \in 0..MaxHeapPages /\ MaxHeapPages \in Nat
  BY InvParts, ConstantFacts DEF SetKernelBrk, MemTypeOK
<1>2. CASE Abort
  <2>1. \E i \in HeapPage : i >= kbrk /\ Valid(<<"heap", 0, i>>)
    <3>1. CASE new > kbrk /\ GrowKernelHeap(new)
      <4>. DEFINE reached == {i \in kbrk..new - 1 : Enough(i - kbrk)}
      <4>1. \E x \in Heap(reached) : Valid(x)
        BY <1>1, <1>2, <3>1 DEF GrowKernelHeap, Abort
      <4>2. PICK i \in reached : Valid(<<"heap", 0, i>>)
        BY <4>1 DEF Heap
      <4>3. i \in HeapPage /\ i >= kbrk
        BY <1>1, <4>2 DEF HeapPage
      <4>. QED BY <4>2, <4>3
    <3>2. CASE new < kbrk /\ ShrinkKernelHeap(new)
      <4>1. \A x \in Heap(new..kbrk - 1) : Valid(x)
        <5>1. \A i \in new..kbrk - 1 : i \in HeapPage /\ i < kbrk
          BY <1>1 DEF HeapPage
        <5>. QED BY <5>1, InvParts DEF Heap, HeapMapped
      <4>2. machine' = "running"
        BY <1>1, <3>2, <4>1 DEF ShrinkKernelHeap
      <4>. QED BY <1>2, <4>2 DEF Abort
    <3>. QED BY <3>1, <3>2 DEF SetKernelBrk
  <2>. QED BY <1>2, <2>1, NoPagesKeepInv DEF Abort
<1>3. ASSUME NEW I \in SUBSET HeapPage, NEW J \in SUBSET HeapPage,
             \A x \in Heap(J) : x \in Heap(I) \/ ~Valid(x),
             Remap(Heap(I), Heap(J)),
             kernel_brk_page' \in 0..MaxHeapPages,
             \A i \in HeapPage : i < kernel_brk_page' => i \in J \/ (i \notin I /\ i < kbrk),
             UNCHANGED <<machine, current_proc, status, user_brk_page, lowest_user_stack_page, tlb>>
      PROVE  MemInv'
  <2>1. Heap(I) \in SUBSET Place /\ Heap(J) \in SUBSET Place
    BY PlaceFacts, ConstantFacts
  <2>2. Moved(Heap(I), Heap(J))
    BY <1>3, <2>1, InvParts, RemapFacts
  <2>3. ASSUME NEW p \in Proc
        PROVE  \A x \in Region1(p) \cup KernelStack(p) : pte'[x] = pte[x]
    <3>1. Region1(p) \cup KernelStack(p) \subseteq Place
      BY PlaceFacts
    <3>2. (Region1(p) \cup KernelStack(p)) \cap (Heap(I) \cup Heap(J)) = {}
      BY PlaceFacts, RegionIsUserPages
    <3>. QED BY <2>2, <3>1, <3>2 DEF Moved
  <2>4. MemTypeOK'
    BY <1>3, <2>2, InvParts DEF MemTypeOK, PteTypeOK, Moved
  <2>5. Alive' = Alive /\ Alive \subseteq Proc
    BY <1>3 DEF Alive
  <2>6. FramesHaveOwner'
    BY <1>3, <2>3, <2>5, InvParts DEF FramesHaveOwner, Valid
  <2>7. HeapBelowStack'
    <3>1. \A p \in Proc : MappedPages(p)' = MappedPages(p)
      BY <2>3, MappedSame
    <3>. QED BY <1>3, <3>1, InvParts DEF HeapBelowStack
  <2>8. HeapMapped'
    <3>. SUFFICES ASSUME NEW i \in HeapPage, i < kernel_brk_page'
                  PROVE  Valid(<<"heap", 0, i>>)'
      BY DEF HeapMapped
    <3>1. CASE i \in J
      BY <2>2, <3>1 DEF Moved, Heap
    <3>2. CASE i \notin J
      <4>1. i \notin I /\ i < kbrk
        BY <1>3, <3>2
      <4>2. <<"heap", 0, i>> \in Place
        BY PlaceFacts, ConstantFacts DEF Heap
      <4>3. <<"heap", 0, i>> \notin Heap(I) \cup Heap(J)
        BY <3>2, <4>1 DEF Heap
      <4>. QED BY <2>2, <4>1, <4>2, <4>3, InvParts DEF Moved, HeapMapped, Valid
    <3>. QED BY <3>1, <3>2
  <2>9. TlbIsolation'
    BY <1>3, <2>3, <2>5, InvParts DEF TlbIsolation
  <2>. QED BY <1>1, <1>3, <2>2, <2>4, <2>6, <2>7, <2>8, <2>9 DEF MemInv, MemAssertsHold, Moved
<1>4. CASE GrowKernelHeap(new) /\ new > kbrk /\ ~Abort
  <2>. DEFINE pages == kbrk..new - 1
              reached == {i \in pages : Enough(i - kbrk)}
              mapped == {i \in pages : Enough(i - kbrk + 1)}
  <2>1. /\ ~ \E x \in Heap(reached) : Valid(x)
        /\ Remap({}, Heap(mapped))
        /\ kernel_brk_page' = IF mapped = pages THEN new ELSE kernel_brk_page
        /\ UNCHANGED <<machine, current_proc, status, user_brk_page, lowest_user_stack_page, tlb>>
    BY <1>4 DEF GrowKernelHeap
  <2>2. mapped \subseteq reached
    <3>1. Cardinality(free) \in Nat
      BY InvParts, MemoryAssumption, FS_Subset, FS_CardinalityType DEF MemTypeOK
    <3>. QED BY <1>1, <3>1 DEF Enough
  <2>3. \A x \in Heap(mapped) : ~Valid(x)
    BY <2>1, <2>2 DEF Heap
  <2>4. mapped \in SUBSET HeapPage /\ {} \in SUBSET HeapPage
    BY <1>1 DEF HeapPage
  <2>5. Heap({}) = {}
    BY DEF Heap
  <2>6. kernel_brk_page' \in 0..MaxHeapPages
    BY <1>1, <2>1
  <2>7. \A i \in HeapPage : i < kernel_brk_page' => i \in mapped \/ (i \notin {} /\ i < kbrk)
    <3>1. \A i \in HeapPage : i < new => i \in pages \/ i < kbrk
      BY <1>1 DEF HeapPage
    <3>. HIDE DEF mapped, pages
    <3>. QED BY <2>1, <3>1
  <2>. HIDE DEF mapped
  <2>. QED BY <1>3, <2>1, <2>3, <2>4, <2>5, <2>6, <2>7
<1>5. CASE ShrinkKernelHeap(new) /\ new < kbrk /\ ~Abort
  <2>. DEFINE pages == new..kbrk - 1
  <2>1. /\ Remap(Heap(pages), {})
        /\ kernel_brk_page' = new
        /\ UNCHANGED <<machine, current_proc, status, user_brk_page, lowest_user_stack_page, tlb>>
    BY <1>5 DEF ShrinkKernelHeap
  <2>2. pages \in SUBSET HeapPage /\ {} \in SUBSET HeapPage /\ Heap({}) = {}
    BY <1>1 DEF HeapPage, Heap
  <2>3. \A i \in HeapPage : i < kernel_brk_page' => i \in {} \/ (i \notin pages /\ i < kbrk)
    BY <1>1, <1>5, <2>1 DEF HeapPage
  <2>. HIDE DEF pages
  <2>. QED BY <1>3, <2>1, <2>2, <2>3
<1>. QED BY <1>2, <1>4, <1>5 DEF SetKernelBrk

LEMMA GrowStackKeepsInv ==
  ASSUME MemInv, UserMode, NEW page \in Page, IsStackGrowth(page), GrowStack(page)
  PROVE  MemInv'
<1>. PICK q : q = current_proc
  OBVIOUS
<1>. DEFINE lowest == lowest_user_stack_page[q]
            pages == {i \in page..lowest - 1 : Enough(lowest - i)}
            T == UserPages(q, pages)
<1>1. /\ machine = "running" /\ status[q] \in {"live", "gutted"} /\ q \in Proc
      /\ user_brk_page[q] \in Page /\ lowest \in Page
      /\ page < lowest /\ page > user_brk_page[q] /\ NUM_PAGES_REG_1 \in Nat
  BY InvParts, ConstantFacts DEF UserMode, IsStackGrowth, AboveHeap, MemTypeOK
<1>2. status[q] = "live" =>
        /\ user_brk_page[q] < lowest
        /\ MappedPages(q) = (0..user_brk_page[q] - 1) \cup (lowest..NUM_PAGES_REG_1 - 1)
  BY <1>1, InvParts DEF HeapBelowStack
<1>3. pages \subseteq page..lowest - 1 /\ pages \subseteq Page
  BY <1>1 DEF Page
<1>4. CASE Abort
  <2>1. status[q] = "gutted"
    <3>. SUFFICES ASSUME status[q] = "live"
                  PROVE  FALSE
      BY <1>1
    <3>1. pages \cap MappedPages(q) = {}
      <4>1. ASSUME NEW i \in page..lowest - 1
            PROVE  i \notin MappedPages(q)
        BY <1>1, <1>2 DEF Page
      <4>. QED BY <1>3, <4>1
    <3>2. machine' = "running"
      BY <1>1, <3>1 DEF GrowStack, Dies
    <3>. QED BY <1>4, <3>2 DEF Abort
  <2>. QED BY <1>4, <2>1, NoPagesKeepInv DEF Abort
<1>5. CASE ~Abort
  <2>1. /\ pages \cap MappedPages(q) = {}
        /\ Remap({}, T)
        /\ \/ /\ page \in pages
              /\ lowest_user_stack_page' = [lowest_user_stack_page EXCEPT ![q] = page]
              /\ status' = [status EXCEPT ![q] = status[q]]
           \/ /\ UNCHANGED lowest_user_stack_page
              /\ status' = [status EXCEPT ![q] = "dying"]
        /\ UNCHANGED <<machine, current_proc, user_brk_page, kernel_brk_page, tlb>>
    BY <1>5, InvParts DEF GrowStack, Dies
  <2>2. /\ T \in SUBSET Region1(q) /\ T \in SUBSET Place /\ {} \in SUBSET Region1(q)
        /\ {} \in SUBSET Place /\ \A i \in Page : User(q, i) \in T <=> i \in pages
    <3>1. T \subseteq Region1(q)
      BY <1>3 DEF Region1, UserPages
    <3>2. Region1(q) \subseteq Place
      BY <1>1, PlaceFacts
    <3>. HIDE DEF pages
    <3>3. \A i \in Page : User(q, i) \in T <=> i \in pages
      BY InUserPages
    <3>. QED BY <3>1, <3>2, <3>3
  <2>3. \A x \in T : x \in {} \/ ~Valid(x)
    BY <1>3, <2>1 DEF UserPages, MappedPages
  <2>4. Moved({}, T)
    <3>. HIDE DEF T
    <3>. QED BY <2>1, <2>2, <2>3, InvParts, RemapFacts
  <2>5. PICK s \in {"live", "gutted", "dying"} : status' = [status EXCEPT ![q] = s]
    BY <1>1, <2>1
  <2>6. \A i \in Page : tlb'[i] \in {NoFrame, tlb[i], pte[User(q, i)]}
    BY <2>1
  <2>7. /\ PteTypeOK' /\ status' \in [Proc -> Statuses]
        /\ FramesOnce' /\ FramesHaveOwner' /\ HeapMapped' /\ TlbIsolation'
        /\ \A p \in Proc \ {q} : MappedPages(p)' = MappedPages(p)
        /\ \A x \in Region1(q) : Valid(x)' <=> x \in T \/ (x \notin {} /\ Valid(x))
    <3>. HIDE DEF T
    <3>. QED BY <1>1, <2>1, <2>2, <2>4, <2>5, <2>6, OwnStep
  <2>8. MemTypeOK'
    BY <2>1, <2>7, InvParts DEF MemTypeOK, PteTypeOK
  <2>9. ASSUME status'[q] = "live"
        PROVE  /\ user_brk_page'[q] < lowest_user_stack_page'[q]
               /\ MappedPages(q)' = (0..user_brk_page'[q] - 1)
                                      \cup (lowest_user_stack_page'[q]..NUM_PAGES_REG_1 - 1)
    <3>1. /\ page \in pages /\ status[q] = "live"
          /\ lowest_user_stack_page'[q] = page /\ user_brk_page'[q] = user_brk_page[q]
      BY <1>1, <2>1, <2>9, InvParts DEF MemTypeOK
    <3>2. \A i \in page..lowest - 1 : i \in pages
      <4>1. Cardinality(free) \in Nat
        BY InvParts, MemoryAssumption, FS_Subset, FS_CardinalityType DEF MemTypeOK
      <4>. QED BY <1>1, <3>1, <4>1 DEF Enough, Page
    <3>3. ASSUME NEW i \in Page
          PROVE  Valid(User(q, i))' <=>
                   i \in (0..user_brk_page[q] - 1) \cup (page..NUM_PAGES_REG_1 - 1)
      <4>1. Valid(User(q, i))' <=> i \in pages \/ i \in MappedPages(q)
        BY <2>2, <2>7, InUserPages DEF Region1, MappedPages
      <4>2. i \in pages <=> i \in page..lowest - 1
        BY <1>3, <3>2
      <4>. HIDE DEF pages
      <4>. QED BY <1>1, <1>2, <3>1, <4>1, <4>2 DEF Page
    <3>4. (0..user_brk_page[q] - 1) \cup (page..NUM_PAGES_REG_1 - 1) \subseteq Page
      BY <1>1 DEF Page
    <3>5. MappedPages(q)' = (0..user_brk_page[q] - 1) \cup (page..NUM_PAGES_REG_1 - 1)
      BY <3>3, <3>4 DEF MappedPages
    <3>. HIDE DEF pages
    <3>. QED BY <1>1, <3>1, <3>5
  <2>10. HeapBelowStack'
    <3>1. \A p \in Proc \ {q} :
            /\ status'[p] = "live" => status[p] = "live"
            /\ user_brk_page'[p] = user_brk_page[p]
            /\ lowest_user_stack_page'[p] = lowest_user_stack_page[p]
      BY <2>1, <2>5, InvParts DEF MemTypeOK
    <3>. QED BY <1>1, <2>7, <2>9, <3>1, InvParts, HeapBelowStackStep
  <2>. QED BY <1>1, <2>1, <2>7, <2>8, <2>10 DEF MemInv, MemAssertsHold
<1>. QED BY <1>4, <1>5

LEMMA TrapMemoryKeepsInv ==
  ASSUME MemInv, NEW page \in 0..NUM_PAGES_REG_1, TrapMemory(page)
  PROVE  MemInv'
<1>1. CASE ProtectionFault
  BY <1>1, NoPagesKeepInv DEF ProtectionFault
<1>2. CASE IsStackGrowth(page) /\ GrowStack(page)
  <2>1. lowest_user_stack_page[current_proc] \in Page
    BY InvParts DEF MemTypeOK
  <2>2. UserMode /\ page \in Page
    BY <1>2, <2>1, ConstantFacts DEF TrapMemory, IsStackGrowth, Page
  <2>. QED BY <1>2, <2>2, GrowStackKeepsInv
<1>3. CASE Dies /\ UNCHANGED <<pte, free>>
  BY <1>3, NoPagesKeepInv DEF Dies, TrapMemory, UserMode
<1>. QED BY <1>1, <1>2, <1>3 DEF TrapMemory

LEMMA ExitKeepsInv ==
  ASSUME MemInv, NEW next \in Proc, KernelExit(next)
  PROVE  MemInv'
<1>. PICK q : q = current_proc
  OBVIOUS
<1>1. q \in Proc /\ machine = "running"
  BY InvParts DEF KernelExit, Runs
<1>2. CASE Halt
  BY <1>2, NoPagesKeepInv DEF Halt
<1>3. CASE q # INIT_PID
  <2>. DEFINE U == Region1(q) \cup KernelStack(q)
  <2>1. /\ next \in Alive \ {q}
        /\ Remap(U, {})
        /\ status' = [status EXCEPT ![q] = "dead"]
        /\ current_proc' = next /\ tlb' = NothingCached
        /\ UNCHANGED <<machine, user_brk_page, lowest_user_stack_page, kernel_brk_page>>
    BY <1>3 DEF KernelExit, SwitchToProc, FreedByExit
  <2>2. U \in SUBSET Place /\ {} \in SUBSET Place
    BY <1>1, PlaceFacts
  <2>3. Moved(U, {})
    <3>. HIDE DEF U
    <3>. QED BY <2>1, <2>2, InvParts, RemapFacts
  <2>4. ASSUME NEW p \in Proc \ {q}
        PROVE  \A x \in Region1(p) \cup KernelStack(p) : pte'[x] = pte[x]
    <3>1. Region1(p) \cup KernelStack(p) \subseteq Place
      BY PlaceFacts
    <3>2. (Region1(p) \cup KernelStack(p)) \cap U = {}
      BY <1>1, PlaceFacts, RegionIsUserPages
    <3>. QED BY <2>3, <3>1, <3>2 DEF Moved
  <2>5. Alive' = Alive \ {q} /\ Alive \subseteq Proc
    BY <2>1, InvParts DEF Alive
  <2>6. MemTypeOK'
    BY <2>1, <2>3, NothingCachedType, InvParts DEF MemTypeOK, PteTypeOK, Moved, Alive, Statuses
  <2>7. FramesHaveOwner'
    <3>1. \A p \in Alive' : \A x \in KernelStack(p) : Valid(x)'
      BY <2>4, <2>5, InvParts DEF FramesHaveOwner, Valid
    <3>2. \A x \in Region1(q) \cup KernelStack(q) : ~Valid(x)'
      BY <2>3 DEF Moved
    <3>3. \A p \in Proc \ Alive' :
            /\ \A x \in Region1(p) : ~Valid(x)'
            /\ status'[p] # "lost" => \A x \in KernelStack(p) : ~Valid(x)'
      BY <2>1, <2>4, <2>5, <3>2, InvParts DEF FramesHaveOwner, Valid
    <3>. QED BY <3>1, <3>3 DEF FramesHaveOwner
  <2>8. HeapBelowStack'
    <3>1. \A p \in Proc \ {q} : MappedPages(p)' = MappedPages(p)
      BY <2>4, MappedSame
    <3>2. /\ status'[q] # "live"
          /\ \A p \in Proc \ {q} : status'[p] = status[p]
      BY <1>1, <2>1, InvParts
    <3>. QED BY <1>1, <2>1, <3>1, <3>2, InvParts, HeapBelowStackStep
  <2>9. HeapMapped'
    <3>1. \A i \in HeapPage : <<"heap", 0, i>> \in Place \ U
      BY <1>1, PlaceFacts, RegionIsUserPages DEF Heap
    <3>. QED BY <2>1, <2>3, <3>1, InvParts DEF Moved, HeapMapped, Valid
  <2>. QED BY <1>1, <2>1, <2>3, <2>6, <2>7, <2>8, <2>9, NothingCachedIsolates
         DEF MemInv, MemAssertsHold, Moved
<1>. QED BY <1>2, <1>3 DEF KernelExit

LEMMA SwitchKeepsInv ==
  ASSUME MemInv, NEW p \in Proc, SwitchToNextProc(p)
  PROVE  MemInv'
BY NoPagesKeepInv DEF SwitchToNextProc, SwitchToProc

LEMMA MemInitHasInv == MemInit => MemInv
<1>. SUFFICES ASSUME MemInit
              PROVE  MemInv
  OBVIOUS
<1>1. PICK prog \in Programs :
        /\ Fits(prog)
        /\ LET init == KernelStack(INIT_PID) \cup UserPages(INIT_PID, AllPagesOf(prog)) IN
           \E g \in Granted(init, Frame) :
             /\ pte = [x \in Place |-> IF x \in init THEN g[x] ELSE NoFrame]
             /\ free = Frame \ {g[x] : x \in init}
             /\ user_brk_page =
                  [p \in Proc |-> IF p = INIT_PID THEN prog.text + prog.data ELSE 0]
             /\ lowest_user_stack_page =
                  [p \in Proc |-> IF p = INIT_PID THEN LowestStackPage(prog) ELSE 0]
  BY DEF MemInit
<1>. DEFINE init == KernelStack(INIT_PID) \cup UserPages(INIT_PID, AllPagesOf(prog))
<1>2. PICK g \in Granted(init, Frame) :
        /\ pte = [x \in Place |-> IF x \in init THEN g[x] ELSE NoFrame]
        /\ free = Frame \ {g[x] : x \in init}
  BY <1>1
<1>3. g \in [init -> Frame] /\ \A x, y \in init : g[x] = g[y] => x = y
  BY <1>2 DEF Granted
<1>4. /\ prog.text + prog.data \in Page /\ LowestStackPage(prog) \in Page
      /\ prog.text + prog.data < LowestStackPage(prog)
      /\ AllPagesOf(prog) \subseteq Page
      /\ AllPagesOf(prog) = (0..(prog.text + prog.data) - 1)
                              \cup (LowestStackPage(prog)..NUM_PAGES_REG_1 - 1)
  <2>1. AllPagesOf(prog) \in Stages(prog)
    BY DEF Stages
  <2>. QED BY <1>1, <2>1, ProgramPages
<1>5. init \subseteq Place
  BY <1>4, PlaceFacts, ConstantFacts
<1>6. /\ machine = "running" /\ current_proc = INIT_PID /\ kernel_brk_page = 0
      /\ status = [p \in Proc |-> IF p = INIT_PID THEN "live" ELSE "unborn"]
      /\ tlb = NothingCached
  BY DEF MemInit
<1>. HIDE DEF init
<1>7. MemTypeOK
  <2>1. pte \in [Place -> Frame \cup {NoFrame}] /\ free \subseteq Frame
    BY <1>2, <1>3
  <2>2. user_brk_page \in [Proc -> Page] /\ lowest_user_stack_page \in [Proc -> Page]
    BY <1>1, <1>4, ConstantFacts
  <2>3. status \in [Proc -> Statuses] /\ current_proc \in Proc
    BY <1>6, ConstantFacts DEF Statuses
  <2>4. kernel_brk_page \in 0..MaxHeapPages
    BY <1>6, ConstantFacts
  <2>. QED BY <1>6, <2>1, <2>2, <2>3, <2>4, NothingCachedType DEF MemTypeOK
<1>8. FramesOnce
  BY <1>2, <1>3, <1>5, ConstantFacts DEF FramesOnce, Valid
<1>9. Alive = {INIT_PID}
  BY <1>6, ConstantFacts DEF Alive
<1>10. FramesHaveOwner
  <2>1. \A x \in KernelStack(INIT_PID) : Valid(x)
    <3>1. \A x \in KernelStack(INIT_PID) : x \in init
      BY DEF init
    <3>. QED BY <1>2, <1>3, <1>5, <3>1, ConstantFacts DEF Valid
  <2>2. ASSUME NEW p \in Proc \ {INIT_PID}
        PROVE  \A x \in Region1(p) \cup KernelStack(p) : ~Valid(x)
    <3>1. (Region1(p) \cup KernelStack(p)) \cap init = {}
      BY PlaceFacts, ConstantFacts, RegionIsUserPages DEF init
    <3>2. Region1(p) \cup KernelStack(p) \subseteq Place
      BY PlaceFacts
    <3>. QED BY <1>2, <3>1, <3>2 DEF Valid
  <2>. QED BY <1>9, <2>1, <2>2 DEF FramesHaveOwner
<1>11. HeapBelowStack
  <2>1. ASSUME NEW i \in Page
        PROVE  Valid(User(INIT_PID, i)) <=> i \in AllPagesOf(prog)
    <3>1. User(INIT_PID, i) \in Region1(INIT_PID) /\ User(INIT_PID, i) \in Place
      BY InUserPages, PlaceFacts, ConstantFacts DEF Region1
    <3>2. User(INIT_PID, i) \in init <=> i \in AllPagesOf(prog)
      <4>1. User(INIT_PID, i) \notin KernelStack(INIT_PID)
        BY <3>1, PlaceFacts, ConstantFacts, RegionIsUserPages
      <4>. QED BY <4>1, InUserPages DEF init
    <3>. QED BY <1>2, <1>3, <3>1, <3>2, ConstantFacts DEF Valid
  <2>2. MappedPages(INIT_PID) = AllPagesOf(prog)
    BY <1>4, <2>1 DEF MappedPages
  <2>3. /\ user_brk_page[INIT_PID] = prog.text + prog.data
        /\ lowest_user_stack_page[INIT_PID] = LowestStackPage(prog)
    BY <1>1, ConstantFacts
  <2>4. \A p \in Proc : status[p] = "live" => p = INIT_PID
    BY <1>6
  <2>. QED BY <1>4, <2>2, <2>3, <2>4 DEF HeapBelowStack
<1>12. HeapMapped
  BY <1>6 DEF HeapMapped, HeapPage
<1>13. MemAssertsHold /\ TlbIsolation
  BY <1>6 DEF MemAssertsHold, TlbIsolation, NothingCached
<1>. QED BY <1>7, <1>8, <1>10, <1>11, <1>12, <1>13 DEF MemInv

-----------------------------------------------------------------------------
(* Theorems *)

LEMMA MemInvAlways == MemSpec => []MemInv
<1>1. MemInit => MemInv
  BY MemInitHasInv
<1>2. MemInv /\ [MemNext]_memVars => MemInv'
  <2>. SUFFICES ASSUME MemInv, [MemNext]_memVars
                PROVE  MemInv'
    OBVIOUS
  <2>1. ASSUME NEW p \in Proc, SwitchToNextProc(p)
        PROVE  MemInv'
    BY <2>1, SwitchKeepsInv
  <2>2. ASSUME NEW p \in Proc, KernelFork(p)
        PROVE  MemInv'
    BY <2>2, ForkKeepsInv
  <2>3. ASSUME NEW p \in Proc, KernelExit(p)
        PROVE  MemInv'
    BY <2>3, ExitKeepsInv
  <2>4. ASSUME NEW prog \in Programs, KernelExec(prog)
        PROVE  MemInv'
    BY <2>4, ExecKeepsInv
  <2>5. ASSUME NEW new \in 0..NUM_PAGES_REG_1, KernelBrk(new)
        PROVE  MemInv'
    BY <2>5, BrkKeepsInv
  <2>6. ASSUME NEW new \in 0..MaxHeapPages, SetKernelBrk(new)
        PROVE  MemInv'
    BY <2>6, KernelHeapKeepsInv
  <2>7. ASSUME NEW page \in 0..NUM_PAGES_REG_1, TrapMemory(page)
        PROVE  MemInv'
    BY <2>7, TrapMemoryKeepsInv
  <2>8. CASE UNCHANGED memVars
    BY <2>8 DEF memVars, MemInv, MemTypeOK, FramesOnce, FramesHaveOwner, HeapBelowStack, HeapMapped,
                MemAssertsHold, TlbIsolation, Alive, Valid, MappedPages
  <2>. QED BY <2>1, <2>2, <2>3, <2>4, <2>5, <2>6, <2>7, <2>8 DEF MemNext
<1>. QED BY <1>1, <1>2, PTL DEF MemSpec

\* The variables of virtual memory have their types in every reachable state: what Brk,
\* Exec and the growth of the stack store (SystemCalls.c, LoadProgram.c, Traps.c) are pages
\* of region 1 and frames of boot.
THEOREM MemTypeCorrect == MemSpec => []MemTypeOK
<1>1. MemInv => MemTypeOK
  BY DEF MemInv
<1>. QED BY <1>1, MemInvAlways, PTL

\* No sequence of Fork, Exec, Brk, traps and Exit gives a frame to two entries or loses one,
\* but for the kernel stack of a Fork that fails (SystemCalls.c:110).
THEOREM FramesPartitionAlways == MemSpec => []FramesPartition
<1>1. MemInv => FramesPartition
  BY DEF MemInv, FramesPartition
<1>. QED BY <1>1, MemInvAlways, PTL

\* Heap and stack of a program never meet (SystemCalls.c:345, Traps.c:169), and between
\* them every page is blank.
THEOREM HeapBelowStackAlways == MemSpec => []HeapBelowStack
<1>1. MemInv => HeapBelowStack
  BY DEF MemInv
<1>. QED BY <1>1, MemInvAlways, PTL

\* The asserts on valid bits fail only in the two ways MemAssertsHold names.
THEOREM MemAssertsHoldAlways == MemSpec => []MemAssertsHold
<1>1. MemInv => MemAssertsHold
  BY DEF MemInv
<1>. QED BY <1>1, MemInvAlways, PTL

\* What a shrinking Brk or a failed Exec leaves in the TLB (VMem.c:80) reaches no page of a
\* process that can run.
THEOREM TlbIsolationAlways == MemSpec => []TlbIsolation
<1>1. MemInv => TlbIsolation
  BY DEF MemInv
<1>. QED BY <1>1, MemInvAlways, PTL

-----------------------------------------------------------------------------
(* The copies of a fork *)

\* Induction over the pages goes by the first step that fails.
LEMMA FirstFails ==
  ASSUME NEW S \in SUBSET Nat, S # {}
  PROVE  \E m \in S : \A k \in S : m <= k
<1>1. PICK R : R = OpToRel(<, Nat)
  OBVIOUS
<1>2. IsWellFoundedOn(R, Nat)
  BY <1>1, NatLessThanWellFounded
<1>3. \A i, j \in Nat : i < j => <<i, j>> \in R
  BY <1>1 DEF OpToRel
<1>4. PICK m \in S : \A k \in S : ~(<<k, m>> \in R)
  BY <1>2, WFMin
<1>5. \A k \in S : ~(k < m)
  BY <1>3, <1>4
<1>. QED BY <1>5

\* What the copies of the pages last, last - 1, ..., 0 leave, one after the other.
CopyRun(after, source, dest, last, contents) ==
  LET borrowed == [source EXCEPT ![0] = dest[last]] IN
  /\ after[last] =
       IF source[last] = NoFrame THEN [table |-> source, contents |-> contents]
       ELSE [table |-> source,
             contents |-> [contents EXCEPT ![borrowed[0]] = contents[borrowed[last]]]]
  /\ \A i \in 0..last - 1 :
       LET before == after[i + 1]
           table == [before.table EXCEPT ![i + 1] = dest[i]]
       IN after[i] =
            IF before.table[i] = NoFrame THEN before
            ELSE [table |-> table,
                  contents |-> [before.contents EXCEPT ![table[i + 1]] =
                                                       before.contents[table[i]]]]

\* after of CopyTableAndData is what its definition says.
LEMMA CopySteps ==
  ASSUME NEW source, NEW dest, NEW last \in Nat, NEW contents
  PROVE  \E after : /\ CopyTableAndData(source, dest, last, contents) = after[0].contents
                    /\ CopyRun(after, source, dest, last, contents)
<1>. DEFINE D == 0..last
            CopyPage(table, c, from, to) == [c EXCEPT ![table[to]] = c[table[from]]]
            borrowed == [source EXCEPT ![0] = dest[last]]
            Body(i, before) ==
              IF i = last /\ source[last] = NoFrame
              THEN [table |-> source, contents |-> contents]
              ELSE IF i = last
              THEN [table |-> FirstEntryRestored(source, borrowed),
                    contents |-> CopyPage(borrowed, contents, last, 0)]
              ELSE LET table == [before.table EXCEPT ![i + 1] = dest[i]]
                   IN IF before.table[i] = NoFrame THEN before
                      ELSE [table |-> table,
                            contents |-> CopyPage(table, before.contents, i, i + 1)]
            Is(f) == f = [i \in D |-> Body(i, f[i + 1])]
            From(f, n) == /\ f = [i \in D |-> f[i]]
                          /\ \A i \in D : last - n <= i => f[i] = Body(i, f[i + 1])
<1>1. CopyTableAndData(source, dest, last, contents) = (CHOOSE f : Is(f))[0].contents
  BY DEF CopyTableAndData
<1>2. \A x, y : Body(last, x) = Body(last, y)
  OBVIOUS
<1>3. \A n \in D : \E f : From(f, n)
  <2>. HIDE DEF Body
  <2>. DEFINE Bad == {n \in D : ~ \E f : From(f, n)}
  <2>. SUFFICES ASSUME Bad # {} PROVE FALSE
    OBVIOUS
  <2>1. Bad \in SUBSET Nat
    OBVIOUS
  <2>2. PICK n \in Bad : \A k \in Bad : n <= k
    <3>. HIDE DEF Bad
    <3>. QED BY <2>1, FirstFails
  <2>3. n \in 0..last /\ ~ \E f : From(f, n)
    BY <2>2
  <2>4. n # 0
    <3>1. PICK f : f = [i \in D |-> Body(last, 0)]
      OBVIOUS
    <3>2. f = [i \in D |-> f[i]] /\ \A i \in D : f[i] = Body(last, 0)
      BY <3>1
    <3>3. \A i \in D : last - 0 <= i => i = last
      OBVIOUS
    <3>4. From(f, 0)
      BY <1>2, <3>2, <3>3
    <3>. QED BY <2>3, <3>4
  <2>5. n - 1 \in D /\ ~(n <= n - 1)
    BY <2>3, <2>4
  <2>6. n - 1 \notin Bad
    BY <2>2, <2>5
  <2>7. PICK f : From(f, n - 1)
    BY <2>5, <2>6
  <2>8. PICK m \in D : m = last - n /\ m # last
    BY <2>3, <2>4
  <2>9. PICK g : g = [i \in D |-> IF i = m THEN Body(m, f[m + 1]) ELSE f[i]]
    OBVIOUS
  <2>10. \A i \in D : last - n <= i => g[i] = Body(i, g[i + 1])
    <3>. SUFFICES ASSUME NEW i \in D, last - n <= i PROVE g[i] = Body(i, g[i + 1])
      OBVIOUS
    <3>1. CASE i = m
      <4>1. m + 1 \in D /\ m + 1 # m
        BY <2>8
      <4>2. g[m + 1] = f[m + 1]
        BY <2>9, <4>1
      <4>. QED BY <2>9, <3>1, <4>2
    <3>2. CASE i # m
      <4>1. last - (n - 1) <= i
        BY <2>3, <2>8, <3>2
      <4>2. g[i] = Body(i, f[i + 1])
        BY <2>7, <2>9, <3>2, <4>1
      <4>3. CASE i = last
        BY <1>2, <4>2, <4>3
      <4>4. CASE i # last
        <5>1. i + 1 \in D /\ i + 1 # m
          BY <2>8, <4>1, <4>4
        <5>2. g[i + 1] = f[i + 1]
          BY <2>9, <5>1
        <5>. QED BY <4>2, <5>2
      <4>. QED BY <4>3, <4>4
    <3>. QED BY <3>1, <3>2
  <2>11. g = [i \in D |-> g[i]]
    BY <2>9
  <2>. QED BY <2>3, <2>10, <2>11
<1>4. \E f : Is(f)
  <2>. HIDE DEF Body
  <2>1. PICK f : From(f, last)
    <3>1. last \in D
      OBVIOUS
    <3>. QED BY <1>3, <3>1
  <2>2. \A i \in D : last - last <= i
    OBVIOUS
  <2>3. \A i \in D : f[i] = Body(i, f[i + 1])
    BY <2>1, <2>2
  <2>. QED BY <2>1, <2>3
<1>5. PICK after : after = CHOOSE f : Is(f)
  OBVIOUS
<1>6. \A i \in D : after[i] = Body(i, after[i + 1])
  <2>. HIDE DEF Body
  <2>1. Is(after)
    <3>. HIDE DEF Is
    <3>. QED BY <1>4, <1>5
  <2>. QED BY <2>1
<1>7. after[last] = Body(last, after[last + 1])
  <2>. HIDE DEF Body
  <2>. QED BY <1>6
<1>8. ASSUME NEW i \in 0..last - 1
      PROVE  LET before == after[i + 1]
                 table == [before.table EXCEPT ![i + 1] = dest[i]]
             IN after[i] =
                  IF before.table[i] = NoFrame THEN before
                  ELSE [table |-> table,
                        contents |-> [before.contents EXCEPT ![table[i + 1]] =
                                                             before.contents[table[i]]]]
  <2>1. i \in D /\ i # last
    BY <1>8
  <2>2. after[i] = Body(i, after[i + 1])
    <3>. HIDE DEF Body
    <3>. QED BY <1>6, <2>1
  <2>. QED BY <2>1, <2>2
<1>9. after[last] =
        IF source[last] = NoFrame THEN [table |-> source, contents |-> contents]
        ELSE [table |-> source,
              contents |-> [contents EXCEPT ![borrowed[0]] = contents[borrowed[last]]]]
  BY <1>7 DEF FirstEntryRestored
<1>10. CopyTableAndData(source, dest, last, contents) = after[0].contents
  BY <1>1, <1>5
<1>. HIDE DEF Body, Is, From
<1>. QED BY <1>8, <1>9, <1>10 DEF CopyRun

\* Every valid page of source has a frame in dest, and no frame is used twice.
CanCopy(source, dest, last) ==
  /\ source \in [0..last -> Frame \cup {NoFrame}] /\ dest \in [0..last -> Frame \cup {NoFrame}]
  /\ \A i \in 0..last : source[i] # NoFrame => dest[i] # NoFrame
  /\ \A i, j \in 0..last : /\ dest[i] # NoFrame /\ dest[i] = dest[j] => i = j
                           /\ dest[i] # NoFrame => dest[i] # source[j]

\* The copy reaches every valid page and touches no other frame, although a page table that
\* shows the frames of both sides is never there.
LEMMA CopyReachesAll ==
  ASSUME NEW last \in Nat \ {0}, NEW source, NEW dest, CanCopy(source, dest, last),
         NEW contents \in [Frame -> Frame],
         NEW copied, copied = CopyTableAndData(source, dest, last, contents)
  PROVE  /\ copied \in [Frame -> Frame]
         /\ \A i \in 0..last : source[i] # NoFrame => copied[dest[i]] = contents[source[i]]
         /\ \A f \in Frame : (\A i \in 0..last : dest[i] # f) => copied[f] = contents[f]
<1>. DEFINE D == 0..last
<1>0. /\ source \in [D -> Frame \cup {NoFrame}] /\ dest \in [D -> Frame \cup {NoFrame}]
      /\ \A i \in D : source[i] # NoFrame => dest[i] # NoFrame
      /\ \A i, j \in D : /\ dest[i] # NoFrame /\ dest[i] = dest[j] => i = j
                         /\ dest[i] # NoFrame => dest[i] # source[j]
  BY DEF CanCopy
<1>1. PICK after : copied = after[0].contents /\ CopyRun(after, source, dest, last, contents)
  BY CopySteps
<1>2. NoFrame \notin Frame
  BY ConstantFacts
<1>. DEFINE Copied(n, table, c) ==
              /\ table \in [D -> Frame \cup {NoFrame}] /\ c \in [Frame -> Frame]
              /\ \A j \in 0..n : table[j] = source[j]
              /\ \A j \in n..last : source[j] # NoFrame => c[dest[j]] = contents[source[j]]
              /\ \A f \in Frame : (\A j \in n..last : dest[j] # f) => c[f] = contents[f]
            Good(n) == Copied(n, after[n].table, after[n].contents)
<1>3. Good(last)
  <2>1. CASE source[last] = NoFrame
    <3>1. after[last].table = source /\ after[last].contents = contents
      BY <1>1, <2>1 DEF CopyRun
    <3>. QED BY <1>0, <2>1, <3>1
  <2>2. CASE source[last] # NoFrame
    <3>1. PICK a, b : a = dest[last] /\ b = source[last]
      OBVIOUS
    <3>2. /\ after[last].table = source
          /\ after[last].contents = [contents EXCEPT ![a] = contents[b]]
      <4>1. PICK borrowed : borrowed = [source EXCEPT ![0] = dest[last]]
        OBVIOUS
      <4>2. borrowed[0] = a /\ borrowed[last] = b
        BY <1>0, <3>1, <4>1
      <4>3. after[last] = [table |-> source,
                           contents |-> [contents EXCEPT ![borrowed[0]] =
                                                         contents[borrowed[last]]]]
        BY <1>1, <2>2, <4>1 DEF CopyRun
      <4>. QED BY <4>2, <4>3
    <3>3. a \in Frame /\ b \in Frame
      BY <1>0, <2>2, <3>1
    <3>4. \A j \in last..last : j = last
      OBVIOUS
    <3>5. last \in last..last
      OBVIOUS
    <3>6. \A f \in Frame : (\A j \in last..last : dest[j] # f) => f # a
      BY <3>1, <3>5
    <3>. QED BY <1>0, <3>1, <3>2, <3>3, <3>4, <3>6
  <2>. QED BY <2>1, <2>2
<1>4. ASSUME NEW n \in 0..last - 1, Good(n + 1) PROVE Good(n)
  <2>1. PICK table, c : table = after[n + 1].table /\ c = after[n + 1].contents
    OBVIOUS
  <2>2. Copied(n + 1, table, c)
    BY <1>4, <2>1
  <2>3. table[n] = source[n] /\ n \in D /\ n + 1 \in D /\ n # n + 1
    BY <2>2
  <2>4. (n..last) = (n + 1..last) \cup {n} /\ n \notin n + 1..last /\ 0..n \subseteq 0..n + 1
        /\ n + 1 \notin 0..n /\ n..last \subseteq D
    OBVIOUS
  <2>5. CASE source[n] = NoFrame
    <3>1. after[n] = after[n + 1]
      BY <1>1, <2>1, <2>3, <2>5 DEF CopyRun
    <3>2. Copied(n, table, c)
      BY <2>2, <2>4, <2>5
    <3>. QED BY <2>1, <3>1, <3>2
  <2>6. CASE source[n] # NoFrame
    <3>1. PICK a, b : a = dest[n] /\ b = source[n]
      OBVIOUS
    <3>2. a \in Frame /\ b \in Frame
      BY <1>0, <2>3, <2>6, <3>1
    <3>3. PICK tableNow, now :
            tableNow = [table EXCEPT ![n + 1] = a] /\ now = [c EXCEPT ![a] = c[b]]
      OBVIOUS
    <3>4. after[n] = [table |-> tableNow, contents |-> now]
      <4>1. tableNow[n + 1] = a /\ tableNow[n] = b
        BY <2>2, <2>3, <3>1, <3>3
      <4>. QED BY <1>1, <2>1, <2>3, <2>6, <3>1, <3>3, <4>1 DEF CopyRun
    <3>5. tableNow \in [D -> Frame \cup {NoFrame}] /\ now \in [Frame -> Frame]
      BY <2>2, <3>2, <3>3
    <3>6. \A j \in 0..n : tableNow[j] = source[j]
      BY <2>2, <2>4, <3>3
    <3>7. c[b] = contents[source[n]]
      <4>1. \A j \in n + 1..last : dest[j] # b
        BY <1>0, <1>2, <2>3, <2>4, <3>1, <3>2
      <4>. QED BY <2>2, <3>1, <3>2, <4>1
    <3>8. \A j \in n..last : source[j] # NoFrame => now[dest[j]] = contents[source[j]]
      <4>. SUFFICES ASSUME NEW j \in n..last, source[j] # NoFrame
                    PROVE  now[dest[j]] = contents[source[j]]
        OBVIOUS
      <4>1. j \in D /\ dest[j] \in Frame
        BY <1>0, <2>4
      <4>2. CASE j = n
        BY <2>2, <3>1, <3>2, <3>3, <3>7, <4>2
      <4>3. CASE j # n
        <5>1. dest[j] # a /\ j \in n + 1..last
          BY <1>0, <1>2, <2>3, <2>4, <3>1, <4>1, <4>3
        <5>. QED BY <2>2, <3>3, <4>1, <5>1
      <4>. QED BY <4>2, <4>3
    <3>9. \A f \in Frame : (\A j \in n..last : dest[j] # f) => now[f] = contents[f]
      BY <2>2, <2>4, <3>1, <3>3
    <3>. QED BY <3>4, <3>5, <3>6, <3>8, <3>9
  <2>. QED BY <2>5, <2>6
<1>5. Good(0)
  <2>. HIDE DEF Good
  <2>. DEFINE Bad == {k \in 0..last : ~Good(last - k)}
  <2>. SUFFICES ASSUME Bad # {} PROVE FALSE
    <3>1. Bad = {} => last \notin Bad
      OBVIOUS
    <3>2. last - last = 0
      OBVIOUS
    <3>. QED BY <3>1, <3>2
  <2>1. Bad \in SUBSET Nat
    OBVIOUS
  <2>2. PICK k \in Bad : \A j \in Bad : k <= j
    <3>. HIDE DEF Bad
    <3>. QED BY <2>1, FirstFails
  <2>3. k \in 0..last /\ ~Good(last - k)
    BY <2>2
  <2>4. k # 0
    <3>1. last - 0 = last
      OBVIOUS
    <3>. QED BY <1>3, <2>3, <3>1
  <2>5. k - 1 \in 0..last /\ ~(k <= k - 1)
    BY <2>3, <2>4
  <2>6. k - 1 \notin Bad
    BY <2>2, <2>5
  <2>7. PICK n \in 0..last - 1 : n = last - k /\ last - (k - 1) = n + 1
    BY <2>3, <2>4
  <2>8. Good(n + 1)
    BY <2>5, <2>6, <2>7
  <2>. QED BY <1>4, <2>3, <2>7, <2>8
<1>. QED BY <1>1, <1>5

-----------------------------------------------------------------------------
(* Fork copies all of the parent *)

\* There is room for a program, and the current process was born.
CopyInv == NUM_PAGES_REG_1 > 1 /\ status[current_proc] # "unborn"

LEMMA CopyInvInit == MemInit => CopyInv
<1>. SUFFICES ASSUME MemInit PROVE CopyInv
  OBVIOUS
<1>1. PICK prog \in Programs : Fits(prog)
  BY DEF MemInit
<1>2. prog.text \in Nat /\ prog.data \in Nat /\ prog.stack \in Nat \ {0}
  BY MemoryAssumption
<1>3. NUM_PAGES_REG_1 > 1
  <2>1. PICK t, d, s : t = prog.text /\ d = prog.data /\ s = prog.stack
    OBVIOUS
  <2>2. t \in Nat /\ d \in Nat /\ s \in Nat \ {0} /\ s + t + d < NUM_PAGES_REG_1
    BY <1>1, <1>2, <2>1 DEF Fits
  <2>. QED BY <2>2, ConstantFacts
<1>4. status[current_proc] = "live"
  BY ConstantFacts DEF MemInit
<1>. QED BY <1>3, <1>4 DEF CopyInv

LEMMA CopyInvStep ==
  ASSUME MemInv, CopyInv, [MemNext]_memVars
  PROVE  CopyInv'
<1>0. status \in [Proc -> Statuses] /\ current_proc \in Proc
  BY DEF MemInv, MemTypeOK
<1>. SUFFICES status'[current_proc'] # "unborn"
  BY DEF CopyInv
<1>1. CASE UNCHANGED <<status, current_proc>>
  BY <1>1 DEF CopyInv
<1>2. CASE current_proc' = current_proc
           /\ \E s \in Statuses \ {"unborn"} : status' = [status EXCEPT ![current_proc] = s]
  BY <1>0, <1>2
<1>3. ASSUME NEW p \in Proc, SwitchToNextProc(p) PROVE status'[current_proc'] # "unborn"
  BY <1>3 DEF SwitchToNextProc, SwitchToProc, Alive
<1>4. ASSUME NEW p \in Proc, KernelFork(p) PROVE status'[current_proc'] # "unborn"
  <2>1. status[p] = "unborn" /\ status[current_proc] \in {"live", "gutted"}
    BY <1>4 DEF KernelFork, Runs, NextPid
  <2>2. CASE ForkRunsChild(p)
    BY <1>0, <2>1, <2>2 DEF ForkRunsChild, SwitchToProc
  <2>3. CASE ForkFails(p)
    BY <1>0, <2>1, <2>3 DEF ForkFails
  <2>. QED BY <1>4, <2>2, <2>3 DEF KernelFork
<1>5. ASSUME NEW p \in Proc, KernelExit(p) PROVE status'[current_proc'] # "unborn"
  BY <1>0, <1>1, <1>5 DEF KernelExit, Halt, SwitchToProc, Alive
<1>6. ASSUME NEW prog, KernelExec(prog) PROVE status'[current_proc'] # "unborn"
  BY <1>2, <1>6 DEF KernelExec, ExecSucceeds, ExecKilled, ExecFails, Statuses
<1>7. ASSUME NEW new, KernelBrk(new) PROVE status'[current_proc'] # "unborn"
  BY <1>1, <1>7 DEF KernelBrk, GrowHeap, ShrinkHeap, Abort
<1>8. ASSUME NEW new, SetKernelBrk(new) PROVE status'[current_proc'] # "unborn"
  BY <1>1, <1>8 DEF SetKernelBrk, GrowKernelHeap, ShrinkKernelHeap, Abort
<1>9. ASSUME NEW page, TrapMemory(page) PROVE status'[current_proc'] # "unborn"
  BY <1>1, <1>2, <1>9 DEF TrapMemory, ProtectionFault, GrowStack, Dies, Abort, Statuses
<1>. QED BY <1>1, <1>3, <1>4, <1>5, <1>6, <1>7, <1>8, <1>9 DEF MemNext, memVars

\* A step to a process that is new is the one in which Fork makes it.
LEMMA NewIsForked ==
  ASSUME MemInv, CopyInv, [MemNext]_memVars, NEW c \in Proc, status[c] = "unborn",
         current_proc' = c
  PROVE  KernelFork(c) /\ ForkRunsChild(c)
<1>1. current_proc' # current_proc /\ c \notin Alive
  BY DEF CopyInv, Alive
<1>2. ~(\E p \in Proc : SwitchToNextProc(p) \/ KernelExit(p))
  BY <1>1 DEF SwitchToNextProc, SwitchToProc, KernelExit, Halt
<1>3. ~(\E prog \in Programs : KernelExec(prog))
  BY <1>1 DEF KernelExec
<1>4. ~(\E new : KernelBrk(new) \/ SetKernelBrk(new))
  BY <1>1 DEF KernelBrk, GrowHeap, ShrinkHeap, SetKernelBrk, GrowKernelHeap, ShrinkKernelHeap, Abort
<1>5. ~(\E page : TrapMemory(page))
  BY <1>1 DEF TrapMemory, ProtectionFault, GrowStack, Dies, Abort
<1>6. PICK p \in Proc : KernelFork(p)
  BY <1>1, <1>2, <1>3, <1>4, <1>5 DEF MemNext, memVars
<1>7. ForkRunsChild(p) /\ p = c
  BY <1>1, <1>6 DEF KernelFork, ForkRunsChild, ForkFails, SwitchToProc
<1>. QED BY <1>6, <1>7

Faithful(c) ==
  LET p == current_proc
      contents == CopiesOfFork(Table(p), Table(c)', StackTable(p), StackTable(c)')
      copies == FramesOf(Region1(c) \cup KernelStack(c))'
  IN /\ \A i \in MappedPages(p) : contents[Table(c)'[i]] = Table(p)[i]
     /\ \A i \in StackPage : contents[StackTable(c)'[i]] = StackTable(p)[i]
     /\ \A f \in Frame \ copies : contents[f] = f

\* What Fork does to the two pairs of tables that are copied.
LEMMA ForkTables ==
  ASSUME MemInv, NEW c \in Proc, KernelFork(c), ForkRunsChild(c), NEW p, p = current_proc
  PROVE  /\ Table(p) \in [Page -> Frame \cup {NoFrame}]
         /\ Table(c)' \in [Page -> Frame \cup {NoFrame}]
         /\ StackTable(p) \in [StackPage -> Frame \cup {NoFrame}]
         /\ StackTable(c)' \in [StackPage -> Frame \cup {NoFrame}]
         /\ \A i \in Page : Table(p)[i] # NoFrame => Table(c)'[i] # NoFrame
         /\ \A i \in StackPage : StackTable(p)[i] # NoFrame /\ StackTable(c)'[i] # NoFrame
         /\ \A i, j \in Page : /\ Table(c)'[i] # NoFrame /\ Table(c)'[i] = Table(c)'[j] => i = j
                               /\ Table(c)'[i] # NoFrame => Table(c)'[i] # Table(p)[j]
         /\ \A i, j \in StackPage : /\ StackTable(c)'[i] = StackTable(c)'[j] => i = j
                                    /\ StackTable(c)'[i] # StackTable(p)[j]
         /\ \A i \in Page, j \in StackPage :
              /\ Table(c)'[i] # NoFrame => /\ Table(c)'[i] # StackTable(p)[j]
                                           /\ Table(c)'[i] # StackTable(c)'[j]
              /\ Table(p)[i] # NoFrame => Table(p)[i] # StackTable(c)'[j]
<1>. DEFINE Stack(q, i) == <<"stack", q, i>>
<1>1. /\ status[p] \in {"live", "gutted"} /\ status[c] = "unborn" /\ c # p
      /\ p \in Proc /\ kernel_brk_page' = kernel_brk_page
      /\ Remap({}, KernelStack(c) \cup ForkPages(c))
  BY InvParts DEF KernelFork, Runs, NextPid, ForkRunsChild
<1>2. KernelStack(c) \cup ForkPages(c) \in SUBSET (KernelStack(c) \cup Region1(c))
  BY PlaceFacts DEF ForkPages, MappedPages
<1>3. /\ PteTypeOK' /\ FramesOnce'
      /\ \A x \in KernelStack(c) \cup ForkPages(c) : Valid(x)'
      /\ \A x \in KernelStack(p) \cup Region1(p) : pte'[x] = pte[x]
  BY <1>1, <1>2, ChildStep
<1>4. \A q \in Proc : /\ \A i \in Page : User(q, i) \in Region1(q) /\ User(q, i) \in Place
                      /\ \A i \in StackPage :
                           Stack(q, i) \in KernelStack(q) /\ Stack(q, i) \in Place
  BY InUserPages, PlaceFacts DEF Region1, KernelStack
<1>5. /\ \A i \in Page : Table(p)[i] = pte'[User(p, i)] /\ Table(c)'[i] = pte'[User(c, i)]
                         /\ Table(p)[i] = pte[User(p, i)]
      /\ \A i \in StackPage : /\ StackTable(p)[i] = pte'[Stack(p, i)]
                              /\ StackTable(p)[i] = pte[Stack(p, i)]
                              /\ StackTable(c)'[i] = pte'[Stack(c, i)]
  BY <1>1, <1>3, <1>4 DEF Table, StackTable
<1>6. /\ Table(p) \in [Page -> Frame \cup {NoFrame}]
      /\ Table(c)' \in [Page -> Frame \cup {NoFrame}]
      /\ StackTable(p) \in [StackPage -> Frame \cup {NoFrame}]
      /\ StackTable(c)' \in [StackPage -> Frame \cup {NoFrame}]
  BY <1>1, <1>3, <1>4, InvParts DEF Table, StackTable, PteTypeOK
<1>7. \A i \in Page : Table(p)[i] # NoFrame => Table(c)'[i] # NoFrame
  <2>. SUFFICES ASSUME NEW i \in Page, Table(p)[i] # NoFrame PROVE Table(c)'[i] # NoFrame
    OBVIOUS
  <2>1. i \in MappedPages(p)
    BY <1>5 DEF MappedPages, Valid
  <2>2. User(c, i) \in ForkPages(c)
    BY <1>1, <2>1, InUserPages DEF ForkPages
  <2>. QED BY <1>3, <1>5, <2>2 DEF Valid
<1>8. \A i \in StackPage : StackTable(p)[i] # NoFrame /\ StackTable(c)'[i] # NoFrame
  <2>1. p \in Alive
    BY <1>1 DEF Alive
  <2>2. \A x \in KernelStack(p) : pte[x] # NoFrame
    BY <2>1, InvParts DEF FramesHaveOwner, Valid
  <2>3. \A x \in KernelStack(c) : pte'[x] # NoFrame
    BY <1>3 DEF Valid
  <2>. HIDE DEF Stack
  <2>. QED BY <1>1, <1>4, <1>5, <2>2, <2>3
<1>9. \A x, y \in Place : pte'[x] # NoFrame /\ pte'[x] = pte'[y] => x = y
  BY <1>3 DEF FramesOnce, Valid
<1>10. \A i, j : /\ User(c, i) = User(c, j) => i = j
                 /\ Stack(c, i) = Stack(c, j) => i = j
                 /\ User(c, i) # User(p, j) /\ Stack(c, i) # Stack(p, j)
                 /\ User(c, i) # Stack(p, j) /\ User(c, i) # Stack(c, j)
                 /\ User(p, i) # Stack(c, j)
  BY <1>1 DEF User
<1>11. \A i, j \in Page : /\ Table(c)'[i] # NoFrame /\ Table(c)'[i] = Table(c)'[j] => i = j
                          /\ Table(c)'[i] # NoFrame => Table(c)'[i] # Table(p)[j]
  <2>. HIDE DEF Stack
  <2>. QED BY <1>1, <1>4, <1>5, <1>9, <1>10
<1>12. \A i, j \in StackPage : /\ StackTable(c)'[i] = StackTable(c)'[j] => i = j
                               /\ StackTable(c)'[i] # StackTable(p)[j]
  <2>. HIDE DEF Stack
  <2>. QED BY <1>1, <1>4, <1>5, <1>8, <1>9, <1>10
<1>13. \A i \in Page, j \in StackPage :
         /\ Table(c)'[i] # NoFrame => /\ Table(c)'[i] # StackTable(p)[j]
                                      /\ Table(c)'[i] # StackTable(c)'[j]
         /\ Table(p)[i] # NoFrame => Table(p)[i] # StackTable(c)'[j]
  <2>. HIDE DEF Stack
  <2>. QED BY <1>1, <1>4, <1>5, <1>9, <1>10
<1>. QED BY <1>6, <1>7, <1>8, <1>11, <1>12, <1>13

LEMMA ForkIsFaithful ==
  ASSUME MemInv, NUM_PAGES_REG_1 > 1, NEW c \in Proc, KernelFork(c), ForkRunsChild(c)
  PROVE  Faithful(c)
<1>1. PICK p, old, new, oldStack, newStack :
        /\ p = current_proc /\ old = Table(p) /\ new = Table(c)'
        /\ oldStack = StackTable(p) /\ newStack = StackTable(c)'
  OBVIOUS
<1>2. PICK last, lastStack : last = NUM_PAGES_REG_1 - 1 /\ lastStack = NUM_KERNEL_PAGES - 1
  OBVIOUS
<1>3. /\ last \in Nat \ {0} /\ lastStack \in Nat \ {0}
      /\ Page = 0..last /\ StackPage = 0..lastStack
  BY <1>2, ConstantFacts, MemoryAssumption DEF Page, StackPage
<1>4. /\ old \in [Page -> Frame \cup {NoFrame}] /\ new \in [Page -> Frame \cup {NoFrame}]
      /\ oldStack \in [StackPage -> Frame \cup {NoFrame}]
      /\ newStack \in [StackPage -> Frame \cup {NoFrame}]
      /\ \A i \in Page : old[i] # NoFrame => new[i] # NoFrame
      /\ \A i \in StackPage : oldStack[i] # NoFrame /\ newStack[i] # NoFrame
      /\ \A i, j \in Page : /\ new[i] # NoFrame /\ new[i] = new[j] => i = j
                            /\ new[i] # NoFrame => new[i] # old[j]
      /\ \A i, j \in StackPage : /\ newStack[i] = newStack[j] => i = j
                                 /\ newStack[i] # oldStack[j]
      /\ \A i \in Page, j \in StackPage :
           /\ new[i] # NoFrame => new[i] # oldStack[j] /\ new[i] # newStack[j]
           /\ old[i] # NoFrame => old[i] # newStack[j]
  BY <1>1, ForkTables
<1>5. PICK id : id = [f \in Frame |-> f]
  OBVIOUS
<1>6. PICK first : first = CopyTableAndData(old, new, last, id)
  OBVIOUS
<1>7. /\ first \in [Frame -> Frame]
      /\ \A i \in Page : old[i] # NoFrame => first[new[i]] = id[old[i]]
      /\ \A f \in Frame : (\A i \in Page : new[i] # f) => first[f] = id[f]
  <2>1. id \in [Frame -> Frame]
    BY <1>5
  <2>2. CanCopy(old, new, last)
    BY <1>3, <1>4 DEF CanCopy
  <2>3. /\ first \in [Frame -> Frame]
        /\ \A i \in 0..last : old[i] # NoFrame => first[new[i]] = id[old[i]]
        /\ \A f \in Frame : (\A i \in 0..last : new[i] # f) => first[f] = id[f]
    <3>1. last \in Nat \ {0}
      BY <1>3
    <3>. QED BY <3>1, <1>6, <2>1, <2>2, CopyReachesAll
  <2>. QED BY <1>3, <2>3
<1>8. PICK both : both = CopyTableAndData(oldStack, newStack, lastStack, first)
  OBVIOUS
<1>9. /\ \A i \in StackPage : oldStack[i] # NoFrame => both[newStack[i]] = first[oldStack[i]]
      /\ \A f \in Frame : (\A i \in StackPage : newStack[i] # f) => both[f] = first[f]
  <2>1. CanCopy(oldStack, newStack, lastStack)
    BY <1>3, <1>4 DEF CanCopy
  <2>2. /\ \A i \in 0..lastStack :
             oldStack[i] # NoFrame => both[newStack[i]] = first[oldStack[i]]
        /\ \A f \in Frame :
             (\A i \in 0..lastStack : newStack[i] # f) => both[f] = first[f]
    <3>1. lastStack \in Nat \ {0} /\ first \in [Frame -> Frame]
      BY <1>3, <1>7
    <3>. QED BY <3>1, <1>8, <2>1, CopyReachesAll
  <2>. QED BY <1>3, <2>2
<1>10. CopiesOfFork(Table(p), Table(c)', StackTable(p), StackTable(c)') = both
  BY <1>1, <1>2, <1>5, <1>6, <1>8 DEF CopiesOfFork
<1>11. \A i \in MappedPages(p) : both[new[i]] = old[i]
  <2>. SUFFICES ASSUME NEW i \in MappedPages(p) PROVE both[new[i]] = old[i]
    OBVIOUS
  <2>1. i \in Page /\ old[i] # NoFrame
    BY <1>1 DEF MappedPages, Valid, Table
  <2>2. old[i] \in Frame /\ new[i] \in Frame /\ \A j \in StackPage : newStack[j] # new[i]
    BY <1>4, <2>1
  <2>. QED BY <1>5, <1>7, <1>9, <2>1, <2>2
<1>12. \A i \in StackPage : both[newStack[i]] = oldStack[i]
  <2>. SUFFICES ASSUME NEW i \in StackPage PROVE both[newStack[i]] = oldStack[i]
    OBVIOUS
  <2>1. oldStack[i] \in Frame /\ \A j \in Page : new[j] # oldStack[i]
    BY <1>4, ConstantFacts
  <2>. QED BY <1>4, <1>5, <1>7, <1>9, <2>1
<1>13. ASSUME NEW f \in Frame, f \notin FramesOf(Region1(c) \cup KernelStack(c))'
       PROVE  both[f] = f
  <2>1. \A x \in Region1(c) \cup KernelStack(c) : pte'[x] # f
    BY <1>13, ConstantFacts DEF FramesOf, Valid
  <2>2. /\ \A i \in Page : User(c, i) \in Region1(c)
        /\ \A i \in StackPage : <<"stack", c, i>> \in KernelStack(c)
    BY InUserPages DEF Region1, KernelStack
  <2>3. (\A i \in Page : new[i] # f) /\ (\A i \in StackPage : newStack[i] # f)
    BY <1>1, <2>1, <2>2 DEF Table, StackTable
  <2>. QED BY <1>5, <1>7, <1>9, <2>3
<1>. QED BY <1>1, <1>10, <1>11, <1>12, <1>13 DEF Faithful

\* After a Fork every page of the child has the contents of the parent's page, however many
\* there are and whichever are blank, and nobody else's memory has changed: the copy that
\* shifts the pages by one within a single page table (Kernel.c:323) overwrites nothing that
\* it has still to read (MemSpec => CopyIsFaithful).
THEOREM CopyIsFaithfulAlways == MemSpec => CopyIsFaithful
<1>1. MemInv /\ CopyInv /\ [MemNext]_memVars
        => \A c \in Proc : status[c] = "unborn" /\ current_proc' = c => Faithful(c)
  BY NewIsForked, ForkIsFaithful DEF CopyInv
<1>2. MemSpec => []CopyInv
  BY CopyInvInit, CopyInvStep, MemInvAlways, PTL DEF MemSpec
<1>3. MemSpec
        => [][\A c \in Proc : status[c] = "unborn" /\ current_proc' = c => Faithful(c)]_memVars
  BY <1>1, <1>2, MemInvAlways, PTL DEF MemSpec
<1>. QED BY <1>3, PTL DEF CopyIsFaithful, Faithful

=============================================================================
