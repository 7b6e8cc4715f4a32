----------------------------- MODULE Resources -----------------------------
(***************************************************************************)
(* The ids of locks, condition variables and pipes: one counter for all    *)
(* three (Lock.c, CVar.c, Pipe.c), which is why KernelReclaim can tell the *)
(* kind of a resource from its id.                                         *)
(***************************************************************************)
EXTENDS Process

CONSTANT MaxId          \* bound: the last resource id that is handed out

ASSUME ResourcesAssumption == MaxId \in Nat \ {0}

Ids == 1..MaxId

VARIABLE next_synch_resource_id

ResourcesTypeOK == next_synch_resource_id \in 1..MaxId + 1
ResourcesInit == next_synch_resource_id = 1

\* The id of a new lock, cvar or pipe.
NewId ==
  /\ next_synch_resource_id \in Ids
  /\ next_synch_resource_id' = next_synch_resource_id + 1

=============================================================================
