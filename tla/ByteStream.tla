----------------------------- MODULE ByteStream -----------------------------
(***************************************************************************)
(* What a pipe promises to the programs that use it: the bytes written to  *)
(* it come out once each, in the order in which they were written, and a   *)
(* read delivers as many as it asked for.  A byte is its position in what  *)
(* has been written to the pipe, so that no two bytes are the same.        *)
(***************************************************************************)
EXTENDS Integers, Sequences

CONSTANT Streams

VARIABLES
  written,      \* how many bytes have been written to each stream
  unread,       \* the bytes that nobody has read yet
  delivered     \* the stream and the bytes of the latest read

Init ==
  /\ written = [s \in Streams |-> 0]
  /\ unread = [s \in Streams |-> <<>>]
  /\ delivered = [from |-> 0, bytes |-> <<>>]

\* The number of bytes is what the step itself says it is.
Write(s) ==
  LET n == written'[s] - written[s]
  IN /\ n > 0
     /\ written' = [written EXCEPT ![s] = @ + n]
     /\ unread' = [unread EXCEPT ![s] = @ \o [i \in 1..n |-> written[s] + i]]
     /\ UNCHANGED delivered

Read(s) ==
  LET n == Len(delivered'.bytes)
  IN /\ n \in 1..Len(unread[s])
     /\ delivered' = [from |-> s, bytes |-> SubSeq(unread[s], 1, n)]
     /\ unread' = [unread EXCEPT ![s] = SubSeq(@, n + 1, Len(@))]
     /\ UNCHANGED written

Next == \E s \in Streams : Write(s) \/ Read(s)

Spec == Init /\ [][Next]_<<written, unread, delivered>>

=============================================================================
