------------------------------- MODULE MCLists -------------------------------
(***************************************************************************)
(* The two linked lists of the kernel in one run: either the nodes of      *)
(* ListNodes take steps or the frames of PMem.                             *)
(***************************************************************************)
EXTENDS ListNodes, PMem

VARIABLE subject

NodesOrFramesInit == subject \in {"nodes", "frames"} /\ ListInit /\ PMemInit

NodesOrFramesNext ==
  /\ UNCHANGED subject
  /\ \/ subject = "nodes" /\ ListNext /\ UNCHANGED pmemVars
     \/ subject = "frames" /\ PMemNext /\ UNCHANGED listVars

NodesOrFramesSpec ==
  NodesOrFramesInit /\ [][NodesOrFramesNext]_<<subject, listVars, pmemVars>>

IdsOfItems == 1..3
Values == {"a", "b"}
NoTableOrTwoBuckets == {0, 1, 2}
Words == {1, 2, 5}
NodeSymmetry == Permutations(Node)

=============================================================================
