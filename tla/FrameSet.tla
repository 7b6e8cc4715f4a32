------------------------------ MODULE FrameSet ------------------------------
(***************************************************************************)
(* What physical memory promises to the rest of the kernel: a set of free  *)
(* frames, of which GetUnusedFrame gives one out and to which              *)
(* ReleaseUsedFrame adds one, and frames in use that nobody but their user *)
(* writes.                                                                 *)
(***************************************************************************)
CONSTANTS
  Frame,
  Word,      \* what a word of a frame can hold
  ERROR

VARIABLES
  free,      \* the frames that can be given out
  contents,  \* the first two words of each frame in use
  answer     \* of the last GetUnusedFrame

frameVars == <<free, contents, answer>>

FrameSetInit ==
  /\ free \subseteq Frame
  /\ free # {}
  /\ contents \in [Frame \ free -> Word \X Word]
  /\ answer = ERROR

\* Frames that stay in use keep their contents.
Kept(frames) ==
  /\ contents' \in [Frame \ free' -> Word \X Word]
  /\ \A f \in frames : contents'[f] = contents[f]

GetUnusedFrame ==
  \/ /\ answer' \in free
     /\ free' = free \ {answer'}
     /\ Kept(Frame \ free)
  \/ /\ free = {}
     /\ answer' = ERROR
     /\ UNCHANGED <<free, contents>>

ReleaseUsedFrame ==
  \E frame \in Frame \ free :
    /\ free' = free \cup {frame}
    /\ Kept((Frame \ free) \ {frame})
    /\ UNCHANGED answer

WriteFrame ==
  \E frame \in Frame \ free :
    /\ UNCHANGED <<free, answer>>
    /\ Kept((Frame \ free) \ {frame})

FrameSetNext == GetUnusedFrame \/ ReleaseUsedFrame \/ WriteFrame

FrameSetSpec == FrameSetInit /\ [][FrameSetNext]_frameVars
=============================================================================
