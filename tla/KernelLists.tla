---------------------------- MODULE KernelLists ----------------------------
(***************************************************************************)
(* What the rest of the kernel sees of List.c: a list is the sequence of   *)
(* the data pointers of its nodes, from the head to the sentinel.          *)
(* ListAppend is Append, ListDequeue is Head and Tail, ListPush puts an    *)
(* element in front, ListEmpty is a comparison with <<>>.  The operators   *)
(* below take elements out of the middle of a list; they are written       *)
(* without recursion so that the modules built on them can be reasoned     *)
(* about with the proof system.                                            *)
(***************************************************************************)
EXTENDS Integers, Sequences, FiniteSets, Functions

\* The one enumeration of the finite set of positions S in increasing order.
InOrder(S) ==
  {f \in [1..Cardinality(S) -> S] :
      /\ Range(f) = S
      /\ \A i, j \in 1..Cardinality(S) : i < j => f[i] < f[j]}

\* The set holding one sequence: the elements of q at the positions S, in order.
SublistAt(q, S) == {[i \in DOMAIN f |-> q[f[i]]] : f \in InOrder(S)}

\* Mutant: nothing is removed.
WithoutIdNothing(q, x) == {q}

\* What ListRemoveById leaves of a list whose ids are distinct.
WithoutId(q, x) == SublistAt(q, {i \in DOMAIN q : q[i] # x})

\* No data pointer appears twice.
NoDuplicates(q) == \A i, j \in DOMAIN q : i # j => q[i] # q[j]

=============================================================================
