------------------------------ MODULE MCMemory ------------------------------
(***************************************************************************)
(* Memory with a few frames.  The numbers of the frames do not matter, so  *)
(* TLC takes two states as one that differ in the numbers only, and the    *)
(* frames are given out from the lowest or from the highest that is free.  *)
(***************************************************************************)
EXTENDS Memory

CONSTANT MaxFrames

Frames == 1..MaxFrames
None == 0

SmallPrograms ==
  {[text |-> 1, data |-> 0, stack |-> 1], [text |-> 1, data |-> 1, stack |-> 1]}

\* A number for every place.
Order(x) ==
  LET kind == CASE x[1] = "stack" -> 0 [] x[1] = "user" -> 1 [] OTHER -> 2
  IN x[3] + 10 * x[2] + 100 * kind

InOrder(T, S, Before(_, _)) ==
  [x \in T |->
     CHOOSE f \in S : Cardinality({g \in S : Before(g, f)}) =
                      Cardinality({y \in T : Order(y) < Order(x)})]

LowestOrHighest(T, S) ==
  IF Cardinality(T) > Cardinality(S) THEN {}
  ELSE {InOrder(T, S, LAMBDA g, f : g < f), InOrder(T, S, LAMBDA g, f : g > f)}

\* The state without the numbers of the frames: for each frame where it is.
Uses(f) ==
  [mapped |-> {x \in Place : pte[x] = f}, cached |-> {i \in Page : tlb[i] = f},
   free |-> f \in free]

WithoutNumbers ==
  <<machine, current_proc, status, user_brk_page, lowest_user_stack_page, kernel_brk_page,
    {Uses(f) : f \in Frame}, Cardinality(free)>>

=============================================================================
