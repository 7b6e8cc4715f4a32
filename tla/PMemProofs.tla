----------------------------- MODULE PMemProofs -----------------------------
(***************************************************************************)
(* Theorems about PMem, for every number of frames and every place of the  *)
(* kernel stack in memory.                                                 *)
(***************************************************************************)
EXTENDS PMem, TLAPS

LEMMA FramesAreNumbers ==
  /\ Frame \subseteq Nat /\ Frame \subseteq Word /\ KernelBrkPage \in Frame
  /\ KernelBrkPage \notin BootFrames /\ BootFrames \subseteq Frame
  /\ NONE \notin Frame /\ NONE < 0
  /\ \A f \in Frame : f >= 0 /\ ~(f < 0)
BY PMemAssumption DEF Frame, BootFrames, NONE

(* The inductive invariant *)

PMemInv ==
  /\ PMemTypeOK
  /\ FreeListThreaded
  /\ to_boot \cap Range(free_list) = {}

LEMMA RangeFacts ==
  ASSUME NEW s \in Seq(Frame)
  PROVE  /\ Range(s) = {s[i] : i \in 1..Len(s)}
         /\ \A i \in 1..Len(s) : s[i] \in Frame /\ s[i] \in Range(s)
         /\ Range(s) \subseteq Frame
BY DEF Range

LEMMA RangeOfAppend ==
  ASSUME NEW s \in Seq(Frame), NEW f \in Frame
  PROVE  Append(s, f) \in Seq(Frame) /\ Range(Append(s, f)) = Range(s) \cup {f}
<1>1. /\ Append(s, f) \in Seq(Frame) /\ Len(Append(s, f)) = Len(s) + 1 /\ Len(s) \in Nat
      /\ Append(s, f)[Len(s) + 1] = f
      /\ \A i \in 1..Len(s) : Append(s, f)[i] = s[i]
  OBVIOUS
<1>2. \A i \in 1..Len(s) + 1 : i \in 1..Len(s) \/ i = Len(s) + 1
  BY <1>1
<1>3. Len(s) + 1 \in 1..Len(s) + 1 /\ \A i \in 1..Len(s) : i \in 1..Len(s) + 1
  BY <1>1
<1>. QED BY <1>1, <1>2, <1>3, RangeFacts

LEMMA RangeOfTail ==
  ASSUME NEW s \in Seq(Frame), s # <<>>,
         \A i, j \in 1..Len(s) : s[i] = s[j] => i = j
  PROVE  Tail(s) \in Seq(Frame) /\ Range(Tail(s)) = Range(s) \ {s[1]} /\ s[1] \in Range(s)
<1>1. /\ Tail(s) \in Seq(Frame) /\ Len(Tail(s)) = Len(s) - 1 /\ Len(s) \in Nat \ {0}
      /\ \A i \in 1..Len(s) - 1 : Tail(s)[i] = s[i + 1]
  OBVIOUS
<1>2. Range(Tail(s)) \subseteq Range(s) \ {s[1]}
  <2>1. ASSUME NEW i \in 1..Len(s) - 1
        PROVE  s[i + 1] \in Range(s) \ {s[1]}
    <3>1. i + 1 \in 1..Len(s) /\ 1 \in 1..Len(s) /\ i + 1 # 1
      BY <1>1
    <3>. QED BY <3>1, RangeFacts
  <2>2. ASSUME NEW x \in Range(Tail(s))
        PROVE  x \in Range(s) \ {s[1]}
    <3>1. Range(Tail(s)) = {Tail(s)[i] : i \in 1..Len(Tail(s))}
      BY <1>1, RangeFacts
    <3>2. PICK i \in 1..Len(Tail(s)) : x = Tail(s)[i]
      BY <3>1
    <3>. QED BY <1>1, <2>1, <3>2
  <2>. QED BY <2>2
<1>3. Range(s) \ {s[1]} \subseteq Range(Tail(s))
  <2>1. ASSUME NEW i \in 1..Len(s), s[i] # s[1]
        PROVE  s[i] \in Range(Tail(s))
    <3>1. i - 1 \in 1..Len(Tail(s)) /\ Tail(s)[i - 1] = s[i]
      BY <1>1, <2>1
    <3>. QED BY <1>1, <3>1, RangeFacts
  <2>. QED BY <2>1, RangeFacts
<1>4. s[1] \in Range(s)
  BY <1>1, RangeFacts
<1>. QED BY <1>1, <1>2, <1>3, <1>4

-----------------------------------------------------------------------------
(* The two operations on the list *)

LEMMA SetNextAndPrevFacts ==
  ASSUME NEW h, NEW t, NEW w, NEW a, NEW b, NEW c
  PROVE  SetNextAndPrevFreeFrameNumbers([head |-> h, tail |-> t, words |-> w], a, b, c) =
           [head |-> IF c >= 0 /\ a = h THEN c ELSE h,
            tail |-> IF b >= 0 /\ a = t THEN b ELSE t,
            words |-> [w EXCEPT ![a] = [next |-> IF b >= 0 THEN b ELSE w[a].next,
                                        prev |-> IF c >= 0 THEN c ELSE w[a].prev]]]
BY DEF SetNextAndPrevFreeFrameNumbers

\* The new tail is linked to the old one, and no other word is written.
LEMMA AddToLinkedListFacts ==
  ASSUME PMemInv, NEW f \in Frame, f \notin Range(free_list), AddToLinkedList(f)
  PROVE  /\ FreeListThreaded'
         /\ free_frames_head' \in Frame /\ free_frames_tail' \in Frame
         /\ words' \in [Frame -> [next : Word, prev : Word]]
         /\ free_list' \in Seq(Frame)
         /\ Range(free_list)' = Range(free_list) \cup {f}
         /\ \A g \in Frame \ (Range(free_list) \cup {f}) : words'[g] = words[g]
<1>. DEFINE n == Len(free_list)
<1>1. /\ PMemTypeOK /\ FreeListThreaded /\ free_list \in Seq(Frame) /\ n \in Nat
      /\ free_list' = Append(free_list, f)
      /\ words \in [Frame -> [next : Word, prev : Word]]
  BY DEF PMemInv, PMemTypeOK, AddToLinkedList
<1>2. /\ free_list' \in Seq(Frame)
      /\ Range(free_list)' = Range(free_list) \cup {f}
  BY <1>1, RangeOfAppend
<1>3. /\ Len(free_list') = n + 1 /\ free_list'[n + 1] = f
      /\ \A i \in 1..n : free_list'[i] = free_list[i] /\ free_list[i] \in Frame /\ free_list[i] # f
  BY <1>1, RangeFacts
<1>4. \A i, j \in 1..Len(free_list') : free_list'[i] = free_list'[j] => i = j
  <2>. SUFFICES ASSUME NEW i \in 1..n + 1, NEW j \in 1..n + 1, free_list'[i] = free_list'[j]
                PROVE  i = j
    BY <1>3
  <2>1. (i \in 1..n \/ i = n + 1) /\ (j \in 1..n \/ j = n + 1)
    BY <1>1
  <2>. QED BY <1>1, <1>3, <2>1 DEF FreeListThreaded
<1>5. CASE free_list = <<>>
  <2>1. free_frames_head = NONE /\ n = 0
    BY <1>1, <1>5 DEF FreeListThreaded
  <2>2. /\ free_frames_head' = f /\ free_frames_tail' = f
        /\ words' = [words EXCEPT ![f] = [next |-> f, prev |-> f]]
    <3>. DEFINE w == [words EXCEPT ![f] = [next |-> f, prev |-> words[f].prev]]
    <3>1. StartedWith(FreeList, f) = [head |-> f, tail |-> f, words |-> words]
      BY <2>1, FramesAreNumbers DEF StartedWith, FreeList
    <3>2. ~(NONE >= 0) /\ f >= 0
      BY FramesAreNumbers DEF NONE
    <3>3. SetNextAndPrevFreeFrameNumbers([head |-> f, tail |-> f, words |-> words], f, f, NONE)
            = [head |-> f, tail |-> f, words |-> w]
      BY <3>2, SetNextAndPrevFacts
    <3>4. w[f] = [next |-> f, prev |-> words[f].prev]
      BY <1>1
    <3>. HIDE DEF w
    <3>5. SetNextAndPrevFreeFrameNumbers([head |-> f, tail |-> f, words |-> w], f, NONE, f)
            = [head |-> f, tail |-> f, words |-> [w EXCEPT ![f] = [next |-> f, prev |-> f]]]
      BY <3>2, <3>4, SetNextAndPrevFacts
    <3>6. Linked(StartedWith(FreeList, f), f)
            = [head |-> f, tail |-> f, words |-> [w EXCEPT ![f] = [next |-> f, prev |-> f]]]
      BY <3>1, <3>3, <3>5 DEF Linked
    <3>7. [w EXCEPT ![f] = [next |-> f, prev |-> f]]
            = [words EXCEPT ![f] = [next |-> f, prev |-> f]]
      BY <1>1 DEF w
    <3>. QED BY <3>6, <3>7 DEF AddToLinkedList, BecomesList
  <2>3. words' \in [Frame -> [next : Word, prev : Word]]
    BY <1>1, <2>2, FramesAreNumbers
  <2>4. FreeListThreaded'
    BY <1>3, <1>4, <2>1, <2>2 DEF FreeListThreaded
  <2>. QED BY <1>1, <1>2, <2>2, <2>3, <2>4
<1>6. CASE free_list # <<>>
  <2>. DEFINE t == free_list[n]
  <2>1. /\ n >= 1 /\ 1 \in 1..n /\ n \in 1..n
        /\ free_frames_head = free_list[1] /\ free_frames_tail = t
        /\ t \in Frame /\ t # f /\ t \in Range(free_list)
        /\ free_list[1] \in Frame /\ free_list[1] # f
    BY <1>1, <1>3, <1>6, RangeFacts DEF FreeListThreaded
  <2>2. /\ free_frames_head' = free_list[1] /\ free_frames_tail' = f
        /\ words' = [words EXCEPT ![t] = [next |-> f, prev |-> words[t].prev],
                                  ![f] = [next |-> words[f].next, prev |-> t]]
    <3>. DEFINE h == free_list[1]
                w == [words EXCEPT ![t] = [next |-> f, prev |-> words[t].prev]]
    <3>. HIDE DEF t, h
    <3>1. StartedWith(FreeList, f) = [head |-> h, tail |-> t, words |-> words]
      BY <2>1, FramesAreNumbers DEF StartedWith, FreeList, h
    <3>2. ~(NONE >= 0) /\ f >= 0 /\ t >= 0 /\ f # h /\ f # t
      BY <2>1, FramesAreNumbers DEF NONE, h
    <3>3. SetNextAndPrevFreeFrameNumbers([head |-> h, tail |-> t, words |-> words], t, f, NONE)
            = [head |-> h, tail |-> f, words |-> w]
      BY <3>2, SetNextAndPrevFacts
    <3>4. w[f] = words[f]
      BY <1>1, <3>2
    <3>. HIDE DEF w
    <3>5. SetNextAndPrevFreeFrameNumbers([head |-> h, tail |-> f, words |-> w], f, NONE, t)
            = [head |-> h, tail |-> f,
               words |-> [w EXCEPT ![f] = [next |-> words[f].next, prev |-> t]]]
      BY <3>2, <3>4, SetNextAndPrevFacts
    <3>6. Linked(StartedWith(FreeList, f), f)
            = [head |-> h, tail |-> f,
               words |-> [w EXCEPT ![f] = [next |-> words[f].next, prev |-> t]]]
      BY <3>1, <3>3, <3>5 DEF Linked
    <3>. QED BY <3>6 DEF AddToLinkedList, BecomesList, w, h
  <2>3. /\ words' \in [Frame -> [next : Word, prev : Word]]
        /\ words'[t].next = f /\ words'[t].prev = words[t].prev
        /\ words'[f].prev = t
        /\ \A g \in Frame \ {f, t} : words'[g] = words[g]
    BY <1>1, <2>1, <2>2, FramesAreNumbers
  <2>4. \A i \in 1..Len(free_list') - 1 :
          /\ words'[free_list'[i]].next = free_list'[i + 1]
          /\ words'[free_list'[i + 1]].prev = free_list'[i]
    <3>. SUFFICES ASSUME NEW i \in 1..n
                  PROVE  /\ words'[free_list'[i]].next = free_list'[i + 1]
                         /\ words'[free_list'[i + 1]].prev = free_list'[i]
      BY <1>1, <1>3
    <3>1. CASE i = n
      BY <1>3, <2>1, <2>3, <3>1
    <3>2. CASE i # n
      <4>1. i \in 1..n - 1 /\ i \in 1..n /\ i + 1 \in 1..n
        BY <1>1, <3>2
      <4>2. /\ words[free_list[i]].next = free_list[i + 1]
            /\ words[free_list[i + 1]].prev = free_list[i]
        BY <1>1, <4>1 DEF FreeListThreaded
      <4>3. free_list[i] # t
        BY <1>1, <2>1, <3>2, <4>1 DEF FreeListThreaded
      <4>4. words'[free_list[i]].next = words[free_list[i]].next
        BY <1>3, <2>3, <4>1, <4>3
      <4>5. words'[free_list[i + 1]].prev = words[free_list[i + 1]].prev
        BY <1>3, <2>3, <4>1
      <4>. QED BY <1>3, <4>1, <4>2, <4>4, <4>5
    <3>. QED BY <3>1, <3>2
  <2>5. free_list' # <<>>
    BY <1>1, <1>3
  <2>6. FreeListThreaded'
    BY <1>1, <1>3, <1>4, <2>1, <2>2, <2>4, <2>5 DEF FreeListThreaded
  <2>. QED BY <1>2, <2>1, <2>2, <2>3, <2>6
<1>. QED BY <1>5, <1>6

\* The first frame of the list is taken off, and no word is written.
LEMMA TakeHeadFacts ==
  ASSUME PMemInv, ~(free_frames_head < 0), BecomesList(WithoutHead), free_list' = Tail(free_list)
  PROVE  /\ FreeListThreaded'
         /\ free_frames_head' \in Frame \cup {NONE} /\ free_frames_tail' \in Frame \cup {NONE}
         /\ words' = words
         /\ free_list' \in Seq(Frame)
         /\ free_frames_head \in Range(free_list)
         /\ Range(free_list)' = Range(free_list) \ {free_frames_head}
<1>. DEFINE n == Len(free_list)
<1>1. /\ PMemTypeOK /\ FreeListThreaded /\ free_list \in Seq(Frame) /\ n \in Nat
  BY DEF PMemInv, PMemTypeOK
<1>2. free_list # <<>>
  BY <1>1, FramesAreNumbers DEF FreeListThreaded
<1>3. /\ n >= 1 /\ 1 \in 1..n /\ n \in 1..n
      /\ free_frames_head = free_list[1] /\ free_frames_tail = free_list[n]
      /\ \A i \in 1..n : free_list[i] \in Frame
  BY <1>1, <1>2, RangeFacts DEF FreeListThreaded
<1>4. /\ free_list' \in Seq(Frame) /\ free_frames_head \in Range(free_list)
      /\ Range(free_list)' = Range(free_list) \ {free_frames_head}
  BY <1>1, <1>2, <1>3, RangeOfTail DEF FreeListThreaded
<1>5. /\ Len(free_list') = n - 1
      /\ \A i \in 1..n - 1 : free_list'[i] = free_list[i + 1]
  BY <1>1, <1>2
<1>6. \A i, j \in 1..Len(free_list') : free_list'[i] = free_list'[j] => i = j
  <2>. SUFFICES ASSUME NEW i \in 1..n - 1, NEW j \in 1..n - 1, free_list'[i] = free_list'[j]
                PROVE  i = j
    BY <1>5
  <2>1. free_list[i + 1] = free_list[j + 1] /\ i + 1 \in 1..n /\ j + 1 \in 1..n
    BY <1>1, <1>5
  <2>2. i + 1 = j + 1
    BY <1>1, <2>1 DEF FreeListThreaded
  <2>. QED BY <2>2
<1>7. CASE n = 1
  <2>1. free_frames_head' = NONE /\ free_frames_tail' = NONE /\ words' = words
    BY <1>3, <1>7 DEF BecomesList, WithoutHead, FreeList
  <2>2. free_list' = <<>>
    BY <1>4, <1>5, <1>7
  <2>3. Len(free_list') = 0 /\ \A i \in 1..Len(free_list') - 1 : FALSE
    <3>. HIDE DEF n
    <3>1. Len(free_list') = 0
      BY <1>5, <1>7
    <3>. QED BY <3>1
  <2>4. FreeListThreaded'
    BY <1>6, <2>1, <2>2, <2>3 DEF FreeListThreaded
  <2>. QED BY <1>4, <2>1, <2>4
<1>8. CASE n # 1
  <2>1. free_list[1] # free_list[n]
    BY <1>1, <1>3, <1>8 DEF FreeListThreaded
  <2>2. words[free_list[1]].next = free_list[2] /\ 2 \in 1..n
    <3>1. 1 \in 1..n - 1 /\ 1 + 1 = 2 /\ 2 \in 1..n
      <4>. HIDE DEF n
      <4>. QED BY <1>1, <1>3, <1>8
    <3>. QED BY <1>1, <3>1 DEF FreeListThreaded
  <2>3. free_frames_head' = free_list[2] /\ free_frames_tail' = free_list[n] /\ words' = words
    BY <1>3, <2>1, <2>2 DEF BecomesList, WithoutHead, FreeList, GetNextFreeFrameNumber
  <2>4. /\ free_list' # <<>>
        /\ free_list'[1] = free_list[2] /\ free_list'[n - 1] = free_list[n]
    BY <1>3, <1>4, <1>5, <1>8
  <2>5. \A i \in 1..Len(free_list') - 1 :
          /\ words'[free_list'[i]].next = free_list'[i + 1]
          /\ words'[free_list'[i + 1]].prev = free_list'[i]
    <3>. SUFFICES ASSUME NEW i \in 1..(n - 1) - 1
                  PROVE  /\ words'[free_list'[i]].next = free_list'[i + 1]
                         /\ words'[free_list'[i + 1]].prev = free_list'[i]
      BY <1>5
    <3>1. i \in 1..n - 1 /\ i + 1 \in 1..n - 1
      BY <1>1
    <3>2. /\ words[free_list[i + 1]].next = free_list[(i + 1) + 1]
          /\ words[free_list[(i + 1) + 1]].prev = free_list[i + 1]
      BY <1>1, <3>1 DEF FreeListThreaded
    <3>. QED BY <1>5, <2>3, <3>1, <3>2
  <2>6. FreeListThreaded'
    BY <1>5, <1>6, <2>3, <2>4, <2>5 DEF FreeListThreaded
  <2>. QED BY <1>3, <1>4, <2>2, <2>3, <2>6
<1>. QED BY <1>7, <1>8

-----------------------------------------------------------------------------
(* Invariance *)

LEMMA PMemInvParts ==
  ASSUME PMemInv
  PROVE  /\ PMemTypeOK /\ FreeListThreaded /\ free_list \in Seq(Frame)
         /\ Range(free_list) \subseteq Frame
         /\ \A f \in to_boot : f \in Frame /\ f \notin Range(free_list)
         /\ \A f \in Used : f \in Frame /\ f \notin Range(free_list) /\ f \notin to_boot
BY RangeFacts, FramesAreNumbers DEF PMemInv, PMemTypeOK, Used

LEMMA PMemInitHasInv == PMemInit => PMemInv
<1>. SUFFICES ASSUME PMemInit
              PROVE  PMemInv
  OBVIOUS
<1>1. PICK garbage \in Word : words = [f \in Frame |-> [next |-> garbage, prev |-> garbage]]
  BY DEF PMemInit
<1>2. /\ free_list = <<KernelBrkPage>> /\ free_list \in Seq(Frame)
      /\ Len(free_list) = 1 /\ free_list[1] = KernelBrkPage
  BY FramesAreNumbers DEF PMemInit
<1>3. Range(free_list) = {KernelBrkPage}
  BY <1>2, RangeFacts
<1>4. PMemTypeOK
  BY <1>1, <1>2, FramesAreNumbers DEF PMemInit, PMemTypeOK
<1>5. FreeListThreaded
  BY <1>2 DEF PMemInit, FreeListThreaded
<1>6. to_boot \cap Range(free_list) = {}
  BY <1>3, FramesAreNumbers DEF PMemInit
<1>. QED BY <1>4, <1>5, <1>6 DEF PMemInv

LEMMA AddKeepsInv ==
  ASSUME PMemInv, NEW f \in Frame, f \notin Range(free_list), AddToLinkedList(f),
         to_boot' \subseteq to_boot, f \notin to_boot', UNCHANGED answer
  PROVE  PMemInv'
<1>1. /\ FreeListThreaded'
      /\ free_frames_head' \in Frame /\ free_frames_tail' \in Frame
      /\ words' \in [Frame -> [next : Word, prev : Word]]
      /\ free_list' \in Seq(Frame)
      /\ Range(free_list)' = Range(free_list) \cup {f}
  BY AddToLinkedListFacts
<1>2. PMemTypeOK'
  BY <1>1, PMemInvParts DEF PMemTypeOK
<1>3. to_boot' \cap Range(free_list)' = {}
  BY <1>1 DEF PMemInv
<1>. QED BY <1>1, <1>2, <1>3 DEF PMemInv

LEMMA GetKeepsInv ==
  ASSUME PMemInv, GetUnusedFrame
  PROVE  PMemInv'
<1>1. CASE free_frames_head < 0
  <2>1. PMemTypeOK'
    BY <1>1, PMemInvParts DEF GetUnusedFrame, PMemTypeOK
  <2>2. FreeListThreaded' /\ Range(free_list)' = Range(free_list)
    BY <1>1, PMemInvParts DEF GetUnusedFrame, FreeListThreaded
  <2>. QED BY <1>1, <2>1, <2>2 DEF GetUnusedFrame, PMemInv
<1>2. CASE ~(free_frames_head < 0)
  <2>1. /\ FreeListThreaded'
        /\ free_frames_head' \in Frame \cup {NONE} /\ free_frames_tail' \in Frame \cup {NONE}
        /\ words' = words
        /\ free_list' \in Seq(Frame)
        /\ Range(free_list)' = Range(free_list) \ {free_frames_head}
    BY <1>2, TakeHeadFacts DEF GetUnusedFrame
  <2>2. PMemTypeOK'
    BY <2>1, PMemInvParts DEF GetUnusedFrame, PMemTypeOK
  <2>. QED BY <2>1, <2>2 DEF GetUnusedFrame, PMemInv
<1>. QED BY <1>1, <1>2

\* The words of a frame in use are of no matter to the list.
LEMMA WriteKeepsInv ==
  ASSUME PMemInv, NEW f \in Frame, NEW next \in Word, NEW prev \in Word, UserWrites(f, next, prev)
  PROVE  PMemInv'
<1>1. PMemTypeOK'
  BY PMemInvParts DEF UserWrites, PMemTypeOK
<1>2. f \notin Range(free_list)
  BY PMemInvParts DEF UserWrites
<1>3. \A i \in 1..Len(free_list) : words'[free_list[i]] = words[free_list[i]]
  BY <1>2, PMemInvParts, RangeFacts DEF UserWrites, PMemTypeOK
<1>4. \A i \in 1..Len(free_list) - 1 : i \in 1..Len(free_list) /\ i + 1 \in 1..Len(free_list)
  BY PMemInvParts
<1>5. FreeListThreaded'
  BY <1>3, <1>4, PMemInvParts DEF UserWrites, FreeListThreaded
<1>. QED BY <1>1, <1>5 DEF UserWrites, PMemInv

LEMMA PMemInvAlways == PMemSpec => []PMemInv
<1>1. PMemInv /\ [PMemNext]_pmemVars => PMemInv'
  <2>. SUFFICES ASSUME PMemInv, [PMemNext]_pmemVars
                PROVE  PMemInv'
    OBVIOUS
  <2>1. CASE InitializePhysicalMemoryManagement
    <3>1. PICK f \in to_boot : /\ AddToLinkedList(f)
                               /\ to_boot' = to_boot \ {f}
                               /\ UNCHANGED answer
      BY <2>1 DEF InitializePhysicalMemoryManagement
    <3>. QED BY <3>1, PMemInvParts, AddKeepsInv
  <2>2. CASE GetUnusedFrame
    BY <2>2, GetKeepsInv
  <2>3. ASSUME NEW f \in Frame, ReleaseUsedFrame(f)
        PROVE  PMemInv'
    BY <2>3, PMemInvParts, AddKeepsInv DEF ReleaseUsedFrame
  <2>4. ASSUME NEW f \in Frame, NEW next \in Word, NEW prev \in Word, UserWrites(f, next, prev)
        PROVE  PMemInv'
    BY <2>4, WriteKeepsInv
  <2>5. CASE UNCHANGED pmemVars
    BY <2>5 DEF pmemVars, PMemInv, PMemTypeOK, FreeListThreaded
  <2>. QED BY <2>1, <2>2, <2>3, <2>4, <2>5 DEF PMemNext
<1>. QED BY <1>1, PMemInitHasInv, PTL DEF PMemSpec

\* Head, tail, words and answers have their types in every reachable state: GetUnusedFrame
\* (PMem.c:62) never returns a word that a user has left in a frame.
THEOREM PMemTypeCorrect == PMemSpec => []PMemTypeOK
<1>1. PMemInv => PMemTypeOK
  BY DEF PMemInv
<1>. QED BY <1>1, PMemInvAlways, PTL

\* The list that PMem.c threads through the frames stays whole whatever is taken, released
\* and written into frames in use, through the empty list and back (PMem.c:64, PMem.c:145).
THEOREM FreeListThreadedAlways == PMemSpec => []FreeListThreaded
<1>1. PMemInv => FreeListThreaded
  BY DEF PMemInv
<1>. QED BY <1>1, PMemInvAlways, PTL

-----------------------------------------------------------------------------
(* The list implements the set of frames *)

Contents == [f \in Frame \ Range(free_list) |-> <<words[f].next, words[f].prev>>]

\* A step that keeps the words of every frame that stays in use.
LEMMA ContentsKept ==
  ASSUME NEW F, words' \in [Frame -> [next : Word, prev : Word]],
         F \subseteq Frame \ Range(free_list), F \subseteq Frame \ Range(free_list)',
         \A f \in F : words'[f] = words[f]
  PROVE  /\ Contents' \in [Frame \ Range(free_list)' -> Word \X Word]
         /\ \A f \in F : Contents'[f] = Contents[f]
<1>1. \A f \in Frame \ Range(free_list)' : words'[f].next \in Word /\ words'[f].prev \in Word
  OBVIOUS
<1>. QED BY <1>1 DEF Contents

\* PMem.c's list is a set of free frames to its callers: GetUnusedFrame returns one that
\* was free or ERROR when there is none, and no call writes to a frame in use.
THEOREM PMemImplementsFrameSet == PMemSpec => PMemIsFrameSet
<1>1. PMemInit => Frames!FrameSetInit
  <2>. SUFFICES ASSUME PMemInit
                PROVE  Frames!FrameSetInit
    OBVIOUS
  <2>1. PMemInv
    BY PMemInitHasInv
  <2>2. Contents \in [Frame \ Range(free_list) -> Word \X Word]
    BY <2>1, PMemInvParts DEF Contents, PMemTypeOK
  <2>3. Range(free_list) # {}
    <3>1. free_list \in Seq(Frame) /\ 1 \in 1..Len(free_list)
      BY <2>1, PMemInvParts DEF PMemInit
    <3>. QED BY <3>1, RangeFacts
  <2>4. answer = NONE
    BY DEF PMemInit
  <2>. QED BY <2>1, <2>2, <2>3, <2>4, PMemInvParts DEF Frames!FrameSetInit, Contents
<1>2. PMemInv /\ [PMemNext]_pmemVars => [Frames!FrameSetNext]_Frames!frameVars
  <2>. SUFFICES ASSUME PMemInv, [PMemNext]_pmemVars
                PROVE  [Frames!FrameSetNext]_Frames!frameVars
    OBVIOUS
  <2>1. ASSUME NEW f \in Frame, f \notin Range(free_list), AddToLinkedList(f), UNCHANGED answer
        PROVE  Frames!FrameSetNext
    <3>1. /\ words' \in [Frame -> [next : Word, prev : Word]]
          /\ Range(free_list)' = Range(free_list) \cup {f}
          /\ \A g \in Frame \ (Range(free_list) \cup {f}) : words'[g] = words[g]
      BY <2>1, AddToLinkedListFacts
    <3>2. /\ Contents' \in [Frame \ Range(free_list)' -> Word \X Word]
          /\ \A g \in (Frame \ Range(free_list)) \ {f} : Contents'[g] = Contents[g]
      <4>. DEFINE F == (Frame \ Range(free_list)) \ {f}
      <4>1. /\ F \subseteq Frame \ Range(free_list) /\ F \subseteq Frame \ Range(free_list)'
            /\ \A g \in F : words'[g] = words[g]
        BY <3>1
      <4>. HIDE DEF F
      <4>2. /\ Contents' \in [Frame \ Range(free_list)' -> Word \X Word]
            /\ \A g \in F : Contents'[g] = Contents[g]
        BY <3>1, <4>1, ContentsKept
      <4>. QED BY <4>2 DEF F
    <3>3. Frames!ReleaseUsedFrame
      BY <2>1, <3>1, <3>2 DEF Frames!ReleaseUsedFrame, Frames!Kept, Contents
    <3>. QED BY <3>3 DEF Frames!FrameSetNext
  <2>2. CASE InitializePhysicalMemoryManagement
    <3>1. PICK f \in to_boot : AddToLinkedList(f) /\ UNCHANGED answer
      BY <2>2 DEF InitializePhysicalMemoryManagement
    <3>2. f \in Frame /\ f \notin Range(free_list)
      BY PMemInvParts
    <3>. QED BY <2>1, <3>1, <3>2
  <2>3. ASSUME NEW f \in Frame, ReleaseUsedFrame(f)
        PROVE  Frames!FrameSetNext
    BY <2>1, <2>3, PMemInvParts DEF ReleaseUsedFrame
  <2>4. CASE GetUnusedFrame
    <3>1. CASE free_frames_head < 0
      <4>1. free_list = <<>>
        <5>1. free_list # <<>> => free_list[1] \in Frame
          BY PMemInvParts, RangeFacts
        <5>. QED BY <3>1, <5>1, PMemInvParts, FramesAreNumbers DEF FreeListThreaded
      <4>2. Range(free_list) = {} /\ answer' = NONE
        <5>1. Len(free_list) = 0 /\ answer' = NONE
          BY <2>4, <4>1, PMemInvParts DEF GetUnusedFrame, FreeListThreaded
        <5>2. Range(free_list) = {free_list[i] : i \in 1..Len(free_list)}
          BY PMemInvParts, RangeFacts
        <5>. QED BY <5>1, <5>2
      <4>3. UNCHANGED <<words, free_list>>
        BY <2>4, <3>1 DEF GetUnusedFrame
      <4>4. Frames!GetUnusedFrame
        BY <4>2, <4>3 DEF Frames!GetUnusedFrame
      <4>. QED BY <4>4 DEF Frames!FrameSetNext
    <3>2. CASE ~(free_frames_head < 0)
      <4>1. /\ words' = words /\ answer' = free_frames_head
            /\ free_frames_head \in Range(free_list)
            /\ Range(free_list)' = Range(free_list) \ {free_frames_head}
        BY <2>4, <3>2, TakeHeadFacts DEF GetUnusedFrame
      <4>2. /\ Contents' \in [Frame \ Range(free_list)' -> Word \X Word]
            /\ \A g \in Frame \ Range(free_list) : Contents'[g] = Contents[g]
        <5>. DEFINE F == Frame \ Range(free_list)
        <5>1. /\ words' \in [Frame -> [next : Word, prev : Word]]
              /\ F \subseteq Frame \ Range(free_list) /\ F \subseteq Frame \ Range(free_list)'
              /\ \A g \in F : words'[g] = words[g]
          BY <4>1, PMemInvParts DEF PMemTypeOK
        <5>. HIDE DEF F
        <5>2. /\ Contents' \in [Frame \ Range(free_list)' -> Word \X Word]
              /\ \A g \in F : Contents'[g] = Contents[g]
          BY <5>1, ContentsKept
        <5>. QED BY <5>2 DEF F
      <4>3. Frames!GetUnusedFrame
        BY <4>1, <4>2 DEF Frames!GetUnusedFrame, Frames!Kept, Contents
      <4>. QED BY <4>3 DEF Frames!FrameSetNext
    <3>. QED BY <3>1, <3>2
  <2>5. ASSUME NEW f \in Frame, NEW next \in Word, NEW prev \in Word, UserWrites(f, next, prev)
        PROVE  Frames!FrameSetNext
    <3>1. /\ f \notin Range(free_list) /\ UNCHANGED <<free_list, answer>>
          /\ words' \in [Frame -> [next : Word, prev : Word]]
          /\ \A g \in Frame \ {f} : words'[g] = words[g]
      BY <2>5, PMemInvParts DEF UserWrites, PMemTypeOK
    <3>2. /\ Contents' \in [Frame \ Range(free_list)' -> Word \X Word]
          /\ \A g \in (Frame \ Range(free_list)) \ {f} : Contents'[g] = Contents[g]
      <4>. DEFINE F == (Frame \ Range(free_list)) \ {f}
      <4>1. /\ F \subseteq Frame \ Range(free_list) /\ F \subseteq Frame \ Range(free_list)'
            /\ \A g \in F : words'[g] = words[g]
        BY <3>1
      <4>. HIDE DEF F
      <4>2. /\ Contents' \in [Frame \ Range(free_list)' -> Word \X Word]
            /\ \A g \in F : Contents'[g] = Contents[g]
        BY <3>1, <4>1, ContentsKept
      <4>. QED BY <4>2 DEF F
    <3>3. Frames!WriteFrame
      BY <3>1, <3>2 DEF Frames!WriteFrame, Frames!Kept, Contents
    <3>. QED BY <3>3 DEF Frames!FrameSetNext
  <2>6. CASE UNCHANGED pmemVars
    BY <2>6 DEF pmemVars, Frames!frameVars
  <2>. QED BY <2>2, <2>3, <2>4, <2>5, <2>6 DEF PMemNext
<1>. QED BY <1>1, <1>2, PMemInvAlways, PTL DEF PMemSpec, PMemIsFrameSet, Frames!FrameSetSpec

=============================================================================
