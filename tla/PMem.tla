-------------------------------- MODULE PMem --------------------------------
(***************************************************************************)
(* Physical memory (PMem.c): the free frames are a linked list that is     *)
(* threaded through the frames themselves.  The first word of a free frame *)
(* is the next one, its second word the previous one, and the same words   *)
(* belong to the user of a frame once it is given out.                     *)
(*                                                                         *)
(* The words are read and written through page 0 of region 1, which is     *)
(* borrowed and put back within a call and is not in the model.            *)
(***************************************************************************)
EXTENDS Integers, Sequences, Functions

CONSTANTS
  KernelBrkPage,          \* kernel_brk_page when memory is initialized
  KernelStackBasePage,    \* ADDR_TO_PAGE(KERNEL_STACK_BASE)
  KernelStackLimitPage,   \* ADDR_TO_PAGE(KERNEL_STACK_LIMIT)
  MaxFrame,               \* max_frame
  Word                    \* what a word of a frame can hold

\* The loops of InitializePhysicalMemoryManagement.
BootFrames == KernelBrkPage + 1..KernelStackBasePage - 1
              \cup KernelStackLimitPage + 1..MaxFrame

\* The frames that are ever given out; KernelStackLimitPage is not one of them (PMem.c:51).
Frame == {KernelBrkPage} \cup BootFrames

NONE == -1                \* also ERROR

ASSUME PMemAssumption ==
  /\ KernelBrkPage \in Nat
  /\ KernelStackBasePage \in Nat
  /\ KernelStackLimitPage \in Nat
  /\ KernelBrkPage < KernelStackLimitPage
  /\ MaxFrame \in Nat
  /\ Frame \subseteq Word

VARIABLES
  free_frames_head,
  free_frames_tail,
  words,             \* the first two words of each frame
  to_boot,           \* the frames that the boot loops have still to add
  answer,            \* of the last GetUnusedFrame
  free_list          \* history: the free frames in the order in which they were freed

pmemVars == <<free_frames_head, free_frames_tail, words, to_boot, answer, free_list>>

PMemTypeOK ==
  /\ free_frames_head \in Frame \cup {NONE}
  /\ free_frames_tail \in Frame \cup {NONE}
  /\ words \in [Frame -> [next : Word, prev : Word]]
  /\ to_boot \subseteq BootFrames
  /\ answer \in Frame \cup {NONE}
  /\ free_list \in Seq(Frame)

Used == (Frame \ Range(free_list)) \ to_boot

-----------------------------------------------------------------------------

FreeList == [head |-> free_frames_head, tail |-> free_frames_tail, words |-> words]

BecomesList(l) ==
  /\ free_frames_head' = l.head
  /\ free_frames_tail' = l.tail
  /\ words' = l.words

\* A negative number sets nothing.
SetNextAndPrevFreeFrameNumbers(l, frame_a, next_frame_b, prev_frame_c) ==
  [head |-> IF prev_frame_c >= 0 /\ frame_a = l.head THEN prev_frame_c ELSE l.head,
   tail |-> IF next_frame_b >= 0 /\ frame_a = l.tail THEN next_frame_b ELSE l.tail,
   words |-> [l.words EXCEPT ![frame_a] =
                [next |-> IF next_frame_b >= 0 THEN next_frame_b ELSE @.next,
                 prev |-> IF prev_frame_c >= 0 THEN prev_frame_c ELSE @.prev]]]

\* Mutant: the empty list is not told apart.
StartedWithNever(l, frame_number) == l

\* An empty list first becomes the frame alone.
StartedWith(l, frame_number) ==
  IF l.head < 0 THEN [l EXCEPT !.head = frame_number, !.tail = frame_number] ELSE l

Linked(l, frame_number) ==
  SetNextAndPrevFreeFrameNumbers(
    SetNextAndPrevFreeFrameNumbers(l, l.tail, frame_number, NONE),
    frame_number, NONE, l.tail)

AddToLinkedList(frame_number) ==
  /\ BecomesList(Linked(StartedWith(FreeList, frame_number), frame_number))
  /\ free_list' = Append(free_list, frame_number)

\* The head is asked for only when it is not the tail, which has no next frame.
GetNextFreeFrameNumber(frame_number) == words[frame_number].next

\* Mutant: only the head says that the last frame is gone, and the tail goes on.
WithoutHeadKeepsTail ==
  [FreeList EXCEPT !.head = IF free_frames_head = free_frames_tail THEN NONE
                        ELSE GetNextFreeFrameNumber(free_frames_head)]

WithoutHead ==
  IF free_frames_head = free_frames_tail
  THEN [FreeList EXCEPT !.head = NONE, !.tail = NONE]
  ELSE [FreeList EXCEPT !.head = GetNextFreeFrameNumber(free_frames_head)]

-----------------------------------------------------------------------------

PMemInit ==
  /\ free_frames_head = KernelBrkPage
  /\ free_frames_tail = KernelBrkPage
  /\ \E garbage \in Word : words = [f \in Frame |-> [next |-> garbage, prev |-> garbage]]
  /\ to_boot = BootFrames
  /\ answer = NONE
  /\ free_list = <<KernelBrkPage>>

InitializePhysicalMemoryManagement ==
  \E frame \in to_boot :
    /\ \A f \in to_boot : frame <= f
    /\ AddToLinkedList(frame)
    /\ to_boot' = to_boot \ {frame}
    /\ UNCHANGED answer

GetUnusedFrame ==
  /\ to_boot = {}
  /\ answer' = free_frames_head
  /\ IF free_frames_head < 0
     THEN UNCHANGED <<free_frames_head, free_frames_tail, words, free_list>>
     ELSE /\ BecomesList(WithoutHead)
          /\ free_list' = Tail(free_list)
  /\ UNCHANGED to_boot

ReleaseUsedFrame(frame_number) ==
  /\ to_boot = {}
  /\ frame_number \in Used
  /\ AddToLinkedList(frame_number)
  /\ UNCHANGED <<to_boot, answer>>

\* The process or the kernel heap that has the frame writes to it.  Assumed: nobody writes
\* to a frame that has been given back.  A program could, through an entry that the TLB
\* still has after a Brk that shrank its heap (TlbCoherent of Memory), and would break the
\* list.
UserWrites(frame_number, next, prev) ==
  /\ to_boot = {}
  /\ frame_number \in Used
  /\ words' = [words EXCEPT ![frame_number] = [next |-> next, prev |-> prev]]
  /\ UNCHANGED <<free_frames_head, free_frames_tail, to_boot, answer, free_list>>

PMemNext ==
  \/ InitializePhysicalMemoryManagement
  \/ GetUnusedFrame
  \/ \E frame \in Frame :
       \/ ReleaseUsedFrame(frame)
       \/ \E next, prev \in Word : UserWrites(frame, next, prev)

PMemSpec == PMemInit /\ [][PMemNext]_pmemVars

-----------------------------------------------------------------------------

\* The list is threaded: no frame is in it twice, head and tail are its ends or both -1,
\* and the words of the frames lead from each one to the next and to the one before, also
\* after it has run empty and whatever users have written into frames while they had them.
FreeListThreaded ==
  /\ \A i, j \in 1..Len(free_list) : free_list[i] = free_list[j] => i = j
  /\ free_frames_head = IF free_list = <<>> THEN NONE ELSE free_list[1]
  /\ free_frames_tail = IF free_list = <<>> THEN NONE ELSE free_list[Len(free_list)]
  /\ \A i \in 1..Len(free_list) - 1 :
       /\ words[free_list[i]].next = free_list[i + 1]
       /\ words[free_list[i + 1]].prev = free_list[i]

\* Physical memory behaves as a set of frames: none is given out twice or lost, ERROR means
\* that there is none, and no call writes to a frame that is in use; provided that no user
\* writes to one that is free.
Frames == INSTANCE FrameSet WITH
  ERROR <- NONE,
  Word <- Word,
  free <- Range(free_list),
  contents <- [f \in Frame \ Range(free_list) |-> <<words[f].next, words[f].prev>>]

PMemIsFrameSet == Frames!FrameSetSpec

=============================================================================
