------------------------------- MODULE ListSeq -------------------------------
(***************************************************************************)
(* What List.h promises, and what every other module takes a list to be: a *)
(* sequence of items, each with the id it was added under.                 *)
(***************************************************************************)
EXTENDS Integers, Sequences, SequencesExt

CONSTANTS
  Ids,
  Data,
  NULL

VARIABLES
  items,      \* the list
  call,       \* the latest call: its name and arguments
  result      \* and what it returned

seqVars == <<items, call, result>>

Called(op, id, data) == call' = [op |-> op, id |-> id, data |-> data]

Item(id, data) == [id |-> id, data |-> data]

SeqInit ==
  /\ items = <<>>
  /\ call = [op |-> "ListNewList", id |-> 0, data |-> NULL]
  /\ result = NULL

Push(id, data) ==
  /\ Called("ListPush", id, data)
  /\ items' = <<Item(id, data)>> \o items
  /\ UNCHANGED result

Appends(id, data) ==
  /\ Called("ListAppend", id, data)
  /\ items' = Append(items, Item(id, data))
  /\ UNCHANGED result

Dequeue ==
  /\ Called("ListDequeue", 0, NULL)
  /\ IF items = <<>>
     THEN result' = NULL /\ UNCHANGED items
     ELSE result' = Head(items).data /\ items' = Tail(items)

\* The first item that satisfies a condition, or 0.
FindById(id) ==
  LET i == SelectInSeq(items, LAMBDA e : e.id = id) IN
  /\ Called("ListFindById", id, NULL)
  /\ result' = IF i = 0 THEN NULL ELSE items[i].data
  /\ UNCHANGED items

TakesOut(i) ==
  IF i = 0
  THEN result' = NULL /\ UNCHANGED items
  ELSE result' = items[i].data /\ items' = RemoveAt(items, i)

RemoveById(id) ==
  /\ Called("ListRemoveById", id, NULL)
  /\ TakesOut(SelectInSeq(items, LAMBDA e : e.id = id))

FindFirstLessThanIdAndRemove(id) ==
  /\ Called("ListFindFirstLessThanIdAndRemove", id, NULL)
  /\ TakesOut(SelectInSeq(items, LAMBDA e : e.id <= id))

Peak ==
  /\ Called("ListPeak", 0, NULL)
  /\ result' = IF items = <<>> THEN NULL ELSE Head(items).data
  /\ UNCHANGED items

SeqNext ==
  \/ \E id \in Ids :
       \/ \E data \in Data : Push(id, data) \/ Appends(id, data)
       \/ FindById(id) \/ RemoveById(id) \/ FindFirstLessThanIdAndRemove(id)
  \/ Dequeue \/ Peak

SeqSpec == SeqInit /\ [][SeqNext]_seqVars
=============================================================================
