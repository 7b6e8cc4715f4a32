------------------------------ MODULE ListNodes ------------------------------
(***************************************************************************)
(* The lists of List.c: doubly linked nodes that end in a sentinel, whose  *)
(* prev is the last node, and for some lists a hash table from ids to the  *)
(* nodes with chains for the collisions.                                   *)
(*                                                                         *)
(* In the lists with a hash table the kernel never has two items of one    *)
(* id: they hold locks, cvars, pipes, children, ids of locks or writers    *)
(* under their own id.                                                     *)
(***************************************************************************)
EXTENDS Integers, Sequences, FiniteSets, SequencesExt

CONSTANTS
  Node,         \* what calloc can return
  Sentinel,
  Ids,
  Data,
  NULL,
  TableSizes    \* hash_table_size; 0 is no table

Pointers == Node \cup {Sentinel, NULL}
NodeFields == [id : Ids \cup {0}, data : Data \cup {NULL},
               next : Pointers, prev : Pointers, hash_collission_next : Pointers]

\* The sentinel is allocated on its own, and NULL is no node and no struct.
ASSUME ListAssumption ==
  /\ IsFiniteSet(Node) /\ Sentinel \notin Node /\ NULL \notin Node \cup {Sentinel}
  /\ NULL \notin NodeFields
  /\ Ids \subseteq Nat /\ TableSizes \subseteq Nat

VARIABLES
  head,
  nodes,              \* the fields of the nodes, NULL for one that is not allocated
  hash_table_size,
  hash_table,
  call,
  result

listVars == <<head, nodes, hash_table_size, hash_table, call, result>>

List == [head |-> head, nodes |-> nodes, table |-> hash_table]

Hashed == hash_table_size > 0
Bucket(id) == id % hash_table_size

\* What a loop comes by from a node on, following the field next of the nodes until it
\* meets an end; a loop that does not end is cut off.
Walk(first, next, ends) ==
  LET at[k \in 1..Cardinality(Node) + 1] ==
        IF k = 1 THEN first ELSE IF at[k - 1] = ends THEN ends ELSE next[at[k - 1]]
  IN [k \in 1..Cardinality({i \in DOMAIN at : at[i] # ends}) |-> at[k]]

Forward(l) == Walk(l.head, [n \in Node |-> l.nodes[n].next], Sentinel)
Chain(l, b) == Walk(l.table[b], [n \in Node |-> l.nodes[n].hash_collission_next], NULL)

FirstIn(path, Test(_)) ==
  LET i == SelectInSeq(path, Test) IN IF i = 0 THEN NULL ELSE path[i]

-----------------------------------------------------------------------------
(* The hash table *)

ListAddToHashTable(l, ln) ==
  IF ~Hashed THEN l
  ELSE LET b == Bucket(l.nodes[ln].id) IN
       [l EXCEPT !.nodes[ln].hash_collission_next = l.table[b], !.table[b] = ln]

ListFindFromHashTable(l, id) ==
  FirstIn(Chain(l, Bucket(id)), LAMBDA n : l.nodes[n].id = id)

\* Mutant: a node inside a chain takes the rest of it along.
ListRemoveFromHashTableCutsChain(l, id) ==
  LET b == Bucket(id)
      i == SelectInSeq(Chain(l, b), LAMBDA n : l.nodes[n].id = id)
  IN IF ~Hashed \/ i = 0 THEN l
     ELSE IF i = 1 THEN [l EXCEPT !.table[b] = l.nodes[l.table[b]].hash_collission_next]
     ELSE [l EXCEPT !.nodes[Chain(l, b)[i - 1]].hash_collission_next = NULL]

ListRemoveFromHashTable(l, id) ==
  LET b == Bucket(id)
      i == SelectInSeq(Chain(l, b), LAMBDA n : l.nodes[n].id = id)
      rest == l.nodes[Chain(l, b)[i]].hash_collission_next
  IN IF ~Hashed \/ i = 0 THEN l
     ELSE IF i = 1 THEN [l EXCEPT !.table[b] = rest]
     ELSE [l EXCEPT !.nodes[Chain(l, b)[i - 1]].hash_collission_next = rest]

-----------------------------------------------------------------------------
(* The lists *)

ListEmpty(l) == l.head = Sentinel

NewNode(id, data) ==
  [id |-> id, data |-> data, next |-> NULL, prev |-> NULL, hash_collission_next |-> NULL]

ListPush(l, ln, id, data) ==
  ListAddToHashTable(
    [l EXCEPT !.nodes[ln] = [NewNode(id, data) EXCEPT !.next = l.head],
              !.nodes[l.head].prev = ln,
              !.head = ln], ln)

ListAppend(l, ln, id, data) ==
  IF ListEmpty(l) THEN ListPush(l, ln, id, data)
  ELSE LET last == l.nodes[Sentinel].prev IN
       ListAddToHashTable(
         [l EXCEPT !.nodes[ln] = [NewNode(id, data) EXCEPT !.prev = last, !.next = Sentinel],
                   !.nodes[last].next = ln,
                   !.nodes[Sentinel].prev = ln], ln)

\* The list is not empty.
ListDequeue(l) ==
  LET ln == l.head
      unhashed == ListRemoveFromHashTable(l, l.nodes[ln].id)
      next == l.nodes[ln].next
  IN [unhashed EXCEPT !.head = next, !.nodes[next].prev = Sentinel, !.nodes[ln] = NULL]

ListFindNodeById(l, id) == FirstIn(Forward(l), LAMBDA n : l.nodes[n].id = id)

FindNode(l, id) ==
  IF Hashed THEN ListFindFromHashTable(l, id) ELSE ListFindNodeById(l, id)

\* Mutant: the node behind keeps its prev.
UnlinkedForwardOnly(l, node) ==
  [l EXCEPT !.nodes[l.nodes[node].prev].next = l.nodes[node].next, !.nodes[node] = NULL]

Unlinked(l, node) ==
  [l EXCEPT !.nodes[l.nodes[node].prev].next = l.nodes[node].next,
            !.nodes[l.nodes[node].next].prev = l.nodes[node].prev,
            !.nodes[node] = NULL]

\* Without the node, which RemoveById has found; ListDequeue looks in the table again.
ListRemoveNode(l, node) ==
  LET unhashed == ListRemoveFromHashTable(l, l.nodes[node].id) IN
  IF node = l.head THEN ListDequeue(unhashed) ELSE Unlinked(unhashed, node)

-----------------------------------------------------------------------------
(* Calls *)

ListInit ==
  /\ hash_table_size \in TableSizes
  /\ head = Sentinel
  /\ nodes = [n \in Node \cup {Sentinel} |-> IF n = Sentinel THEN NewNode(0, NULL) ELSE NULL]
  /\ hash_table = [b \in 0..hash_table_size - 1 |-> NULL]
  /\ call = [op |-> "ListNewList", id |-> 0, data |-> NULL]
  /\ result = NULL

Calls(op, id, data, l, answer) ==
  /\ call' = [op |-> op, id |-> id, data |-> data]
  /\ head' = l.head
  /\ nodes' = l.nodes
  /\ hash_table' = l.table
  /\ result' = answer
  /\ UNCHANGED hash_table_size

DataOf(node) == IF node = NULL THEN NULL ELSE nodes[node].data

\* The kernel adds no id twice to a list with a table.
Adds(op, List_(_, _, _, _)) ==
  \E ln \in {n \in Node : nodes[n] = NULL}, id \in Ids, data \in Data :
    /\ Hashed => ListFindNodeById(List, id) = NULL
    /\ Calls(op, id, data, List_(List, ln, id, data), result)

CallPush == Adds("ListPush", ListPush)
CallAppend == Adds("ListAppend", ListAppend)

CallDequeue ==
  IF ListEmpty(List) THEN Calls("ListDequeue", 0, NULL, List, NULL)
  ELSE Calls("ListDequeue", 0, NULL, ListDequeue(List), nodes[head].data)

CallFindById ==
  \E id \in Ids : Calls("ListFindById", id, NULL, List, DataOf(FindNode(List, id)))

Removes(op, id, node) ==
  Calls(op, id, NULL, IF node = NULL THEN List ELSE ListRemoveNode(List, node), DataOf(node))

CallRemoveById == \E id \in Ids : Removes("ListRemoveById", id, FindNode(List, id))

\* Finds a node and has ListRemoveById find it again by its id.
CallFindFirstLess ==
  \E id \in Ids :
    LET first == FirstIn(Forward(List), LAMBDA n : nodes[n].id <= id)
        again == IF first = NULL THEN NULL ELSE FindNode(List, nodes[first].id)
    IN Calls("ListFindFirstLessThanIdAndRemove", id, NULL,
             IF again = NULL THEN List ELSE ListRemoveNode(List, again), DataOf(first))

CallPeak == Calls("ListPeak", 0, NULL, List, nodes[head].data)

ListNext ==
  \/ CallPush \/ CallAppend \/ CallDequeue \/ CallFindById \/ CallRemoveById
  \/ CallFindFirstLess \/ CallPeak

ListSpec == ListInit /\ [][ListNext]_listVars

-----------------------------------------------------------------------------
(* Properties *)

\* The links lead backwards over the nodes they lead forwards over, the sentinel knows the
\* last one, every node is in the chain of its id once, and no other node is allocated:
\* the pointers that ListAppend and ListRemoveById rely on are right after any calls.
LinksAgree ==
  LET path == Forward(List)
      Inside == Range(path)
  IN /\ Last(<<Sentinel>> \o path) = nodes[Sentinel].prev \/ path = <<>>
     /\ \A i \in 2..Len(path) : nodes[path[i]].prev = path[i - 1]
     /\ Inside = {n \in Node : nodes[n] # NULL}
     /\ Hashed => \A n \in Inside :
          Cardinality({i \in 1..Len(Chain(List, Bucket(nodes[n].id))) :
                         Chain(List, Bucket(nodes[n].id))[i] = n}) = 1
     /\ Hashed => \A b \in DOMAIN hash_table : Range(Chain(List, b)) \subseteq Inside

\* A list is the sequence that the other modules take it for, with its answers: the table
\* and the links say the same.
Items ==
  LET path == Forward(List)
  IN [i \in 1..Len(path) |-> [id |-> nodes[path[i]].id, data |-> nodes[path[i]].data]]

Sequence == INSTANCE ListSeq WITH items <- Items

ListIsSequence == Sequence!SeqSpec

=============================================================================
