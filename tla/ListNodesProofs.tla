--------------------------- MODULE ListNodesProofs ---------------------------
(***************************************************************************)
(* The links of List.c agree after any calls, and the lists are the        *)
(* sequences that ListSeq says they are.                                   *)
(*                                                                         *)
(* Leads says that pointers lead over a path of nodes, each once, and      *)
(* ends.  The invariant is that there is a path p the next fields lead     *)
(* over from the head to the sentinel, with the prev fields leading back,  *)
(* that no other node is allocated, that every bucket of the table has a   *)
(* path of its own over the nodes whose ids belong in it, and that no two  *)
(* nodes of a list with a table have one id.  A call adds a node to the    *)
(* paths or takes one out of them, and Walk, which the model looks along   *)
(* them with, finds the paths.                                             *)
(***************************************************************************)
EXTENDS ListNodes, SequenceTheorems, FiniteSetTheorems, WellFoundedInduction, TLAPS

-----------------------------------------------------------------------------
(* Following pointers *)

LEMMA LeastFacts ==
  ASSUME NEW T \in SUBSET Nat, T # {}
  PROVE  \E m \in T : \A k \in T : m <= k
<1>1. PICK R : R = OpToRel(<, Nat)
  OBVIOUS
<1>2. IsWellFoundedOn(R, Nat)
  BY <1>1, NatLessThanWellFounded
<1>3. \A i, j \in Nat : i < j => <<i, j>> \in R
  BY <1>1 DEF OpToRel
<1>4. PICK m \in T : \A k \in T : ~(<<k, m>> \in R)
  BY <1>2, WFMin
<1>5. \A k \in T : ~(k < m)
  BY <1>3, <1>4
<1>. QED BY <1>5

\* From first over the nodes p to ends, each once.
Leads(p, first, next, ends) ==
  /\ p \in Seq(Node) /\ IsInjective(p)
  /\ first = IF p = <<>> THEN ends ELSE p[1]
  /\ \A i \in 1..Len(p) : next[p[i]] = IF i = Len(p) THEN ends ELSE p[i + 1]

\* The nodes of a path and their positions.
LEMMA PathFacts ==
  ASSUME NEW p \in Seq(Node)
  PROVE  /\ Len(p) \in Nat /\ DOMAIN p = 1..Len(p)
         /\ \A i \in 1..Len(p) : p[i] \in Node
         /\ Range(p) = {p[i] : i \in 1..Len(p)}
         /\ p = <<>> <=> Len(p) = 0
<1>1. /\ Len(p) \in Nat /\ DOMAIN p = 1..Len(p)
      /\ \A i \in 1..Len(p) : p[i] \in Node
  BY LenProperties, ElementOfSeq
<1>2. Range(p) = {p[i] : i \in 1..Len(p)}
  BY RangeEquality
<1>3. p = <<>> <=> Len(p) = 0
  BY <1>1, EmptySeq
<1>. QED BY <1>1, <1>2, <1>3

LEMMA InjectiveFacts ==
  ASSUME NEW p \in Seq(Node)
  PROVE  IsInjective(p) <=> \A i, j \in 1..Len(p) : p[i] = p[j] => i = j
BY PathFacts DEF IsInjective

\* There are no more nodes on a path than there are nodes.
LEMMA PathLength ==
  ASSUME NEW p \in Seq(Node), IsInjective(p)
  PROVE  Cardinality(Node) \in Nat /\ Len(p) <= Cardinality(Node)
<1>1. IsFiniteSet(Node) /\ Cardinality(Node) \in Nat
  BY ListAssumption, FS_CardinalityType
<1>2. PICK n \in Nat : n = Len(p)
  BY PathFacts
<1>3. IsFiniteSet(1..n) /\ Cardinality(1..n) = n
  <2>1. 1 \in Int /\ n \in Int
    BY <1>2
  <2>2. IsFiniteSet(1..n) /\ Cardinality(1..n) = IF 1 > n THEN 0 ELSE n - 1 + 1
    BY <2>1, FS_Interval
  <2>. QED BY <1>2, <2>2
<1>4. ASSUME Cardinality(Node) < n PROVE FALSE
  <2>1. p \in [1..n -> Node]
    BY <1>2, LenProperties
  <2>2. \E x, y \in 1..n : x # y /\ p[x] = p[y]
    BY <1>1, <1>3, <1>4, <2>1, FS_PigeonHole
  <2>. QED BY <1>2, <2>2, InjectiveFacts
<1>. QED BY <1>1, <1>2, <1>4

\* Two functions that agree at the start, and on each argument when they agree on the
\* one before it.
StepsAgree(f, g, n) ==
  /\ n \in Nat /\ f[1] = g[1]
  /\ \A i \in 2..n : f[i - 1] = g[i - 1] => f[i] = g[i]

LEMMA StepByStep ==
  ASSUME NEW f, NEW g, NEW n, StepsAgree(f, g, n)
  PROVE  \A i \in 1..n : f[i] = g[i]
<1>0. /\ n \in Nat /\ f[1] = g[1]
      /\ \A i \in 2..n : f[i - 1] = g[i - 1] => f[i] = g[i]
  BY DEF StepsAgree
<1>. DEFINE Bad == {i \in 1..n : f[i] # g[i]}
<1>. SUFFICES ASSUME Bad # {} PROVE FALSE
  OBVIOUS
<1>1. Bad \in SUBSET Nat
  BY <1>0
<1>2. PICK i \in Bad : \A k \in Bad : i <= k
  <2>. HIDE DEF Bad
  <2>. QED BY <1>1, LeastFacts
<1>3. i \in 1..n /\ f[i] # g[i]
  BY <1>2
<1>4. i \in 2..n /\ i - 1 \in 1..n /\ ~(i <= i - 1)
  BY <1>0, <1>3
<1>5. f[i - 1] = g[i - 1]
  BY <1>2, <1>4
<1>. QED BY <1>0, <1>3, <1>4, <1>5

\* Walk finds the path that the pointers lead over.
LEMMA WalkFacts ==
  ASSUME NEW p, NEW first, NEW next, NEW ends, ends \notin Node, Leads(p, first, next, ends)
  PROVE  Walk(first, next, ends) = p
<1>. DEFINE N == Cardinality(Node) + 1
            Is(f) == f = [k \in 1..N |->
                            IF k = 1 THEN first
                            ELSE IF f[k - 1] = ends THEN ends ELSE next[f[k - 1]]]
<1>1. /\ p \in Seq(Node) /\ IsInjective(p)
      /\ first = IF p = <<>> THEN ends ELSE p[1]
      /\ \A i \in 1..Len(p) : next[p[i]] = IF i = Len(p) THEN ends ELSE p[i + 1]
  BY DEF Leads
<1>2. PICK n : n = Len(p)
  OBVIOUS
<1>3. n \in Nat /\ N \in Nat /\ n < N /\ 1 <= N
  BY <1>1, <1>2, PathLength, PathFacts
<1>4. \A i \in 1..n : p[i] \in Node /\ p[i] # ends
  BY <1>1, <1>2, PathFacts
<1>5. PICK g : g = [k \in 1..N |-> IF k <= n THEN p[k] ELSE ends]
  OBVIOUS
<1>6. \A k \in 1..N : g[k] = IF k <= n THEN p[k] ELSE ends
  BY <1>5
<1>7. g[1] = first
  BY <1>1, <1>2, <1>3, <1>6, PathFacts
<1>8. ASSUME NEW k \in 2..N
      PROVE  g[k] = IF g[k - 1] = ends THEN ends ELSE next[g[k - 1]]
  <2>1. k - 1 \in 1..N /\ k \in 1..N /\ k \in Int
    BY <1>3
  <2>2. CASE k - 1 <= n
    <3>1. k - 1 \in 1..n /\ g[k - 1] = p[k - 1]
      BY <1>3, <1>6, <2>1, <2>2
    <3>2. next[p[k - 1]] = IF k - 1 = n THEN ends ELSE p[(k - 1) + 1]
      BY <1>1, <1>2, <3>1
    <3>3. (k - 1) + 1 = k /\ (k <= n <=> k - 1 # n)
      BY <1>3, <2>1, <2>2
    <3>. QED BY <1>4, <1>6, <2>1, <3>1, <3>2, <3>3
  <2>3. CASE ~(k - 1 <= n)
    <3>1. ~(k <= n)
      BY <1>3, <2>1, <2>3
    <3>. QED BY <1>6, <2>1, <2>3, <3>1
  <2>. QED BY <2>2, <2>3
<1>9. Is(g)
  <2>1. \A k \in 1..N : k = 1 \/ k \in 2..N
    BY <1>3
  <2>2. \A k \in 1..N : g[k] = IF k = 1 THEN first
                               ELSE IF g[k - 1] = ends THEN ends ELSE next[g[k - 1]]
    BY <1>7, <1>8, <2>1
  <2>. QED BY <1>5, <2>2
<1>10. PICK f : f = (CHOOSE h : Is(h)) /\ Is(f)
  BY <1>9
<1>11. \A k \in 1..N : f[k] = IF k = 1 THEN first
                              ELSE IF f[k - 1] = ends THEN ends ELSE next[f[k - 1]]
  BY <1>10
<1>12. \A k \in 1..N : f[k] = g[k]
  <2>1. 1 \in 1..N /\ \A k \in 2..N : k \in 1..N /\ k # 1
    BY <1>3
  <2>2. StepsAgree(f, g, N)
    BY <1>3, <1>7, <1>8, <1>11, <2>1 DEF StepsAgree
  <2>. QED BY <2>2, StepByStep
<1>13. f = g /\ DOMAIN g = 1..N
  <2>1. PICK h : h = [k \in 1..N |->
                        IF k = 1 THEN first
                        ELSE IF f[k - 1] = ends THEN ends ELSE next[f[k - 1]]]
    OBVIOUS
  <2>2. h = f
    BY <1>10, <2>1
  <2>3. h = g
    <3>1. \A k \in 1..N : h[k] = g[k]
      BY <1>12, <2>2
    <3>. QED BY <1>5, <2>1, <3>1
  <2>4. DOMAIN g = 1..N
    BY <1>5
  <2>. QED BY <2>2, <2>3, <2>4
<1>14. Walk(first, next, ends) = [k \in 1..Cardinality({i \in DOMAIN f : f[i] # ends}) |-> f[k]]
  BY <1>10 DEF Walk
<1>15. {i \in DOMAIN f : f[i] # ends} = 1..n
  <2>1. \A i \in 1..N : f[i] # ends <=> i \in 1..n
    BY <1>3, <1>4, <1>6, <1>13
  <2>2. \A i \in 1..n : i \in 1..N
    BY <1>3
  <2>. QED BY <1>13, <2>1, <2>2
<1>16. Cardinality(1..n) = n
  BY <1>3, FS_Interval
<1>17. Walk(first, next, ends) = [k \in 1..n |-> p[k]]
  <2>1. \A k \in 1..n : f[k] = p[k]
    BY <1>3, <1>6, <1>13
  <2>. QED BY <1>14, <1>15, <1>16, <2>1
<1>18. p = [k \in 1..n |-> p[k]]
  BY <1>1, <1>2, LenProperties
<1>. QED BY <1>17, <1>18

-----------------------------------------------------------------------------
(* Sequences with one element more or less *)

LEMMA PushedFacts ==
  ASSUME NEW S, NEW x \in S, NEW p \in Seq(S), NEW q, q = <<x>> \o p
  PROVE  /\ q \in Seq(S) /\ Len(q) = Len(p) + 1 /\ q[1] = x
         /\ \A i \in 1..Len(p) : q[i + 1] = p[i]
<1>1. PICK a : a = <<x>>
  OBVIOUS
<1>2. a \in Seq(S) /\ Len(a) = 1 /\ a[1] = x /\ Len(p) \in Nat
  BY <1>1, LenProperties
<1>3. /\ q \in Seq(S) /\ Len(q) = 1 + Len(p)
      /\ \A i \in 1..1 + Len(p) : q[i] = IF i <= 1 THEN a[i] ELSE p[i - 1]
  BY <1>1, <1>2, ConcatProperties
<1>4. ASSUME NEW i \in 1..Len(p) PROVE q[i + 1] = p[i]
  <2>1. i + 1 \in 1..1 + Len(p) /\ ~(i + 1 <= 1) /\ (i + 1) - 1 = i
    BY <1>2
  <2>. QED BY <1>3, <2>1
<1>. QED BY <1>2, <1>3, <1>4

LEMMA RemoveAtFacts ==
  ASSUME NEW S, NEW p \in Seq(S), NEW i \in 1..Len(p), NEW q, q = RemoveAt(p, i)
  PROVE  /\ q \in Seq(S) /\ Len(q) = Len(p) - 1 /\ Len(q) \in Nat
         /\ \A j \in 1..Len(q) : q[j] = IF j < i THEN p[j] ELSE p[j + 1]
<1>1. PICK n \in Nat : n = Len(p)
  BY LenProperties
<1>2. i \in 1..n /\ \A j \in 1..n : p[j] \in S
  BY <1>1, ElementOfSeq
<1>3. PICK a, b : a = SubSeq(p, 1, i - 1) /\ b = SubSeq(p, i + 1, n)
  OBVIOUS
<1>4. /\ a \in Seq(S) /\ Len(a) = i - 1
      /\ \A j \in 1..i - 1 : a[j] = p[j]
  <2>1. \A j \in 1..i - 1 : p[j] \in S
    BY <1>1, <1>2
  <2>2. 1 \in Int /\ i - 1 \in Int
    BY <1>1, <1>2
  <2>3. /\ a \in Seq(S) /\ Len(a) = IF 1 <= i - 1 THEN (i - 1) - 1 + 1 ELSE 0
        /\ \A j \in 1..(i - 1) - 1 + 1 : a[j] = p[1 + j - 1]
    BY <1>3, <2>1, <2>2, SubSeqProperties
  <2>. QED BY <1>1, <1>2, <2>3
<1>5. /\ b \in Seq(S) /\ Len(b) = n - i
      /\ \A j \in 1..n - i : b[j] = p[i + j]
  <2>1. \A j \in i + 1..n : p[j] \in S
    BY <1>1, <1>2
  <2>2. i + 1 \in Int /\ n \in Int
    BY <1>1, <1>2
  <2>3. /\ b \in Seq(S) /\ Len(b) = IF i + 1 <= n THEN n - (i + 1) + 1 ELSE 0
        /\ \A j \in 1..n - (i + 1) + 1 : b[j] = p[(i + 1) + j - 1]
    BY <1>3, <2>1, <2>2, SubSeqProperties
  <2>. QED BY <1>1, <1>2, <2>3
<1>6. q = a \o b
  BY <1>1, <1>3 DEF RemoveAt
<1>7. /\ q \in Seq(S) /\ Len(q) = (i - 1) + (n - i)
      /\ \A j \in 1..(i - 1) + (n - i) : q[j] = IF j <= i - 1 THEN a[j] ELSE b[j - (i - 1)]
  <2>1. a \in Seq(S) /\ b \in Seq(S)
    BY <1>4, <1>5
  <2>2. /\ q \in Seq(S) /\ Len(q) = Len(a) + Len(b)
        /\ \A j \in 1..Len(a) + Len(b) : q[j] = IF j <= Len(a) THEN a[j] ELSE b[j - Len(a)]
    BY <1>6, <2>1, ConcatProperties
  <2>. QED BY <1>4, <1>5, <2>2
<1>8. Len(q) = n - 1 /\ n - 1 \in Nat /\ (i - 1) + (n - i) = n - 1
  BY <1>1, <1>2, <1>7
<1>9. ASSUME NEW j \in 1..n - 1 PROVE q[j] = IF j < i THEN p[j] ELSE p[j + 1]
  <2>1. q[j] = IF j <= i - 1 THEN a[j] ELSE b[j - (i - 1)]
    BY <1>7, <1>8
  <2>2. CASE j < i
    <3>1. j \in 1..i - 1 /\ j <= i - 1
      BY <1>1, <1>2, <2>2
    <3>. QED BY <1>4, <2>1, <2>2, <3>1
  <2>3. CASE ~(j < i)
    <3>1. j - (i - 1) \in 1..n - i /\ ~(j <= i - 1) /\ i + (j - (i - 1)) = j + 1
      BY <1>1, <1>2, <2>3
    <3>. QED BY <1>5, <2>1, <2>3, <3>1
  <2>. QED BY <2>2, <2>3
<1>. QED BY <1>1, <1>7, <1>8, <1>9

-----------------------------------------------------------------------------
(* Paths with one node more or less *)

\* The pointers next2 lead from x to where the path p starts, and on as next.
Precedes(x, p, first, next, next2, ends) ==
  /\ Leads(p, first, next, ends)
  /\ x \in Node \ Range(p) /\ next2[x] = first
  /\ \A n \in Range(p) : next2[n] = next[n]

LEMMA PushLeads ==
  ASSUME NEW x, NEW p, NEW first, NEW next, NEW next2, NEW ends,
         Precedes(x, p, first, next, next2, ends)
  PROVE  Leads(<<x>> \o p, x, next2, ends) /\ Range(<<x>> \o p) = Range(p) \cup {x}
<1>1. /\ p \in Seq(Node) /\ IsInjective(p)
      /\ first = IF p = <<>> THEN ends ELSE p[1]
      /\ \A i \in 1..Len(p) : next[p[i]] = IF i = Len(p) THEN ends ELSE p[i + 1]
  BY DEF Precedes, Leads
<1>2. /\ x \in Node \ Range(p) /\ next2[x] = first
      /\ \A n \in Range(p) : next2[n] = next[n]
  BY DEF Precedes
<1>3. PICK n \in Nat : n = Len(p)
  BY <1>1, PathFacts
<1>4. PICK q : q = <<x>> \o p
  OBVIOUS
<1>5. q \in Seq(Node) /\ Len(q) = n + 1 /\ q[1] = x /\ \A i \in 1..n : q[i + 1] = p[i]
  BY <1>1, <1>2, <1>3, <1>4, PushedFacts
<1>6. ASSUME NEW i \in 1..n + 1
      PROVE  i = 1 \/ (i - 1 \in 1..n /\ q[i] = p[i - 1] /\ q[i] \in Range(p) /\ q[i] # x)
  <2>1. CASE i # 1
    <3>1. i - 1 \in 1..n /\ (i - 1) + 1 = i
      BY <1>3, <2>1
    <3>2. q[i] = p[i - 1]
      BY <1>5, <3>1
    <3>3. p[i - 1] \in Range(p)
      BY <1>1, <1>3, <3>1, PathFacts
    <3>. QED BY <1>2, <3>1, <3>2, <3>3
  <2>. QED BY <2>1
<1>7. IsInjective(q)
  <2>. SUFFICES ASSUME NEW i \in 1..n + 1, NEW j \in 1..n + 1, q[i] = q[j] PROVE i = j
    BY <1>5, InjectiveFacts
  <2>1. CASE i = 1 \/ j = 1
    BY <1>5, <1>6, <2>1
  <2>2. CASE i # 1 /\ j # 1
    <3>1. i - 1 \in 1..n /\ j - 1 \in 1..n /\ p[i - 1] = p[j - 1]
      BY <1>6, <2>2
    <3>2. i - 1 = j - 1
      BY <1>1, <1>3, <3>1, InjectiveFacts
    <3>. QED BY <1>3, <3>2
  <2>. QED BY <2>1, <2>2
<1>8. Range(q) = Range(p) \cup {x}
  <2>1. Range(q) = {q[i] : i \in 1..n + 1} /\ Range(p) = {p[i] : i \in 1..n}
    BY <1>1, <1>3, <1>5, PathFacts
  <2>2. \A i \in 1..n : i + 1 \in 1..n + 1 /\ q[i + 1] = p[i]
    BY <1>3, <1>5
  <2>3. 1 \in 1..n + 1 /\ q[1] = x
    BY <1>3, <1>5
  <2>4. Range(q) \subseteq Range(p) \cup {x}
    BY <1>5, <1>6, <2>1
  <2>5. x \in Range(q) /\ \A i \in 1..n : p[i] \in Range(q)
    BY <2>1, <2>2, <2>3
  <2>. QED BY <2>1, <2>4, <2>5
<1>9. ASSUME NEW i \in 1..n + 1 PROVE next2[q[i]] = IF i = n + 1 THEN ends ELSE q[i + 1]
  <2>1. CASE i = 1
    <3>1. next2[q[i]] = first /\ (p = <<>> <=> n = 0)
      BY <1>1, <1>2, <1>3, <1>5, <2>1, PathFacts
    <3>2. CASE n = 0
      BY <1>1, <2>1, <3>1, <3>2
    <3>3. CASE n # 0
      <4>1. 1 \in 1..n /\ i # n + 1
        BY <1>3, <2>1, <3>3
      <4>2. q[1 + 1] = p[1]
        BY <1>5, <4>1
      <4>. QED BY <1>1, <2>1, <3>1, <3>3, <4>1, <4>2
    <3>. QED BY <3>2, <3>3
  <2>2. CASE i # 1
    <3>1. i - 1 \in 1..n /\ q[i] = p[i - 1] /\ q[i] \in Range(p)
      BY <1>6, <2>2
    <3>2. next2[q[i]] = IF i - 1 = n THEN ends ELSE p[(i - 1) + 1]
      BY <1>1, <1>2, <1>3, <3>1
    <3>3. CASE i = n + 1
      BY <1>3, <3>2, <3>3
    <3>4. CASE i # n + 1
      <4>1. (i - 1) + 1 = i /\ i \in 1..n /\ i - 1 # n
        BY <1>3, <3>1, <3>4
      <4>. QED BY <1>5, <3>2, <3>4, <4>1
    <3>. QED BY <3>3, <3>4
  <2>. QED BY <2>1, <2>2
<1>10. q # <<>>
  BY <1>3, <1>5, PathFacts
<1>. QED BY <1>4, <1>5, <1>7, <1>8, <1>9, <1>10 DEF Leads

\* The pointers next2 lead from the end of the path p to x, and to p as next.
Follows(x, p, first, next, next2, ends) ==
  /\ Leads(p, first, next, ends) /\ p # <<>>
  /\ x \in Node \ Range(p) /\ next2[x] = ends /\ next2[p[Len(p)]] = x
  /\ \A n \in Range(p) \ {p[Len(p)]} : next2[n] = next[n]

LEMMA AppendLeads ==
  ASSUME NEW x, NEW p, NEW first, NEW next, NEW next2, NEW ends,
         Follows(x, p, first, next, next2, ends)
  PROVE  Leads(Append(p, x), first, next2, ends) /\ Range(Append(p, x)) = Range(p) \cup {x}
<1>1. /\ p \in Seq(Node) /\ IsInjective(p) /\ p # <<>>
      /\ first = IF p = <<>> THEN ends ELSE p[1]
      /\ \A i \in 1..Len(p) : next[p[i]] = IF i = Len(p) THEN ends ELSE p[i + 1]
  BY DEF Follows, Leads
<1>2. PICK n \in Nat : n = Len(p)
  BY <1>1, PathFacts
<1>3. /\ x \in Node \ Range(p) /\ next2[x] = ends /\ next2[p[n]] = x
      /\ \A m \in Range(p) \ {p[n]} : next2[m] = next[m]
  BY <1>2 DEF Follows
<1>4. PICK q : q = Append(p, x)
  OBVIOUS
<1>5. /\ q \in Seq(Node) /\ Len(q) = n + 1 /\ q[n + 1] = x /\ n # 0 /\ q # <<>>
      /\ \A i \in 1..n : q[i] = p[i]
  <2>1. x \in Node
    BY <1>3
  <2>. QED BY <1>1, <1>2, <1>4, <2>1, AppendProperties, PathFacts
<1>6. \A i \in 1..n + 1 : i = n + 1 \/ i \in 1..n
  BY <1>2
<1>7. \A i \in 1..n : q[i] = p[i] /\ p[i] \in Range(p) /\ p[i] # x
  BY <1>1, <1>2, <1>3, <1>5, PathFacts
<1>8. IsInjective(q)
  <2>. SUFFICES ASSUME NEW i \in 1..n + 1, NEW j \in 1..n + 1, q[i] = q[j] PROVE i = j
    BY <1>5, InjectiveFacts
  <2>1. CASE i = n + 1 \/ j = n + 1
    BY <1>5, <1>6, <1>7, <2>1
  <2>2. CASE i \in 1..n /\ j \in 1..n
    BY <1>1, <1>2, <1>7, <2>2, InjectiveFacts
  <2>. QED BY <1>6, <2>1, <2>2
<1>9. Range(q) = Range(p) \cup {x}
  <2>1. Range(q) = {q[i] : i \in 1..n + 1} /\ Range(p) = {p[i] : i \in 1..n}
    BY <1>1, <1>2, <1>5, PathFacts
  <2>2. n + 1 \in 1..n + 1 /\ \A i \in 1..n : i \in 1..n + 1
    BY <1>2
  <2>. QED BY <1>5, <1>6, <1>7, <2>1, <2>2
<1>10. ASSUME NEW i \in 1..n + 1 PROVE next2[q[i]] = IF i = n + 1 THEN ends ELSE q[i + 1]
  <2>1. CASE i = n + 1
    BY <1>3, <1>5, <2>1
  <2>2. CASE i = n
    <3>1. i # n + 1 /\ i \in 1..n
      BY <1>2, <1>5, <2>2
    <3>. QED BY <1>3, <1>5, <1>7, <2>2, <3>1
  <2>3. CASE i \in 1..n - 1
    <3>1. i \in 1..n /\ i # n /\ i + 1 \in 1..n /\ i # n + 1 /\ n \in 1..n
      BY <1>2, <2>3
    <3>2. p[i] # p[n]
      BY <1>1, <1>2, <3>1, InjectiveFacts
    <3>3. next2[p[i]] = p[i + 1]
      BY <1>1, <1>2, <1>3, <1>7, <3>1, <3>2
    <3>. QED BY <1>7, <3>1, <3>3
  <2>. QED BY <1>2, <2>1, <2>2, <2>3
<1>11. q[1] = p[1]
  <2>1. 1 \in 1..n
    BY <1>2, <1>5
  <2>. QED BY <1>5, <2>1
<1>. QED BY <1>1, <1>4, <1>5, <1>8, <1>9, <1>10, <1>11 DEF Leads

\* The pointers first2 and next2 skip the i-th node of the path p.
Skips(i, p, first, next, first2, next2, ends) ==
  /\ Leads(p, first, next, ends) /\ i \in 1..Len(p)
  /\ IF i = 1 THEN first2 = next[p[1]] ELSE first2 = first /\ next2[p[i - 1]] = next[p[i]]
  /\ \A j \in 1..Len(p) : j # i /\ j # i - 1 => next2[p[j]] = next[p[j]]

LEMMA SkipLeads ==
  ASSUME NEW i, NEW p, NEW first, NEW next, NEW first2, NEW next2, NEW ends,
         Skips(i, p, first, next, first2, next2, ends)
  PROVE  /\ Leads(RemoveAt(p, i), first2, next2, ends)
         /\ Range(RemoveAt(p, i)) = Range(p) \ {p[i]}
<1>1. /\ p \in Seq(Node) /\ IsInjective(p)
      /\ first = IF p = <<>> THEN ends ELSE p[1]
      /\ \A j \in 1..Len(p) : next[p[j]] = IF j = Len(p) THEN ends ELSE p[j + 1]
  BY DEF Skips, Leads
<1>2. PICK n \in Nat : n = Len(p)
  BY <1>1, PathFacts
<1>3. /\ i \in 1..n
      /\ IF i = 1 THEN first2 = next[p[1]] ELSE first2 = first /\ next2[p[i - 1]] = next[p[i]]
      /\ \A j \in 1..n : j # i /\ j # i - 1 => next2[p[j]] = next[p[j]]
  BY <1>2 DEF Skips
<1>4. PICK q : q = RemoveAt(p, i)
  OBVIOUS
<1>5. /\ q \in Seq(Node) /\ Len(q) = n - 1 /\ n - 1 \in Nat
      /\ \A j \in 1..n - 1 : q[j] = IF j < i THEN p[j] ELSE p[j + 1]
  <2>1. i \in 1..Len(p)
    BY <1>2, <1>3
  <2>2. /\ q \in Seq(Node) /\ Len(q) = Len(p) - 1 /\ Len(q) \in Nat
        /\ \A j \in 1..Len(q) : q[j] = IF j < i THEN p[j] ELSE p[j + 1]
    BY <1>1, <1>4, <2>1, RemoveAtFacts
  <2>. QED BY <1>2, <2>2
<1>6. PICK f : f = [j \in 1..n - 1 |-> IF j < i THEN j ELSE j + 1]
  OBVIOUS
<1>7. \A j \in 1..n - 1 : f[j] \in 1..n /\ f[j] # i /\ q[j] = p[f[j]]
  BY <1>2, <1>3, <1>5, <1>6
<1>8. \A k \in 1..n : k # i => \E j \in 1..n - 1 : f[j] = k
  <2>. SUFFICES ASSUME NEW k \in 1..n, k # i PROVE \E j \in 1..n - 1 : f[j] = k
    OBVIOUS
  <2>1. CASE k < i
    <3>1. k \in 1..n - 1
      BY <1>2, <1>3, <2>1
    <3>2. f[k] = k
      BY <1>6, <2>1, <3>1
    <3>. QED BY <3>1, <3>2
  <2>2. CASE ~(k < i)
    <3>1. k - 1 \in 1..n - 1 /\ ~(k - 1 < i) /\ (k - 1) + 1 = k
      BY <1>2, <1>3, <2>2
    <3>2. f[k - 1] = k
      BY <1>6, <3>1
    <3>. QED BY <3>1, <3>2
  <2>. QED BY <2>1, <2>2
<1>9. IsInjective(q)
  <2>. SUFFICES ASSUME NEW j \in 1..n - 1, NEW k \in 1..n - 1, q[j] = q[k] PROVE j = k
    BY <1>5, InjectiveFacts
  <2>1. f[j] = f[k]
    <3>1. \A a, b \in 1..n : p[a] = p[b] => a = b
      BY <1>1, <1>2, InjectiveFacts
    <3>. QED BY <1>7, <3>1
  <2>2. (j < i /\ f[j] = j) \/ (~(j < i) /\ f[j] = j + 1)
    BY <1>6
  <2>3. (k < i /\ f[k] = k) \/ (~(k < i) /\ f[k] = k + 1)
    BY <1>6
  <2>4. j \in Int /\ k \in Int /\ i \in Int
    BY <1>2, <1>3
  <2>. QED BY <2>1, <2>2, <2>3, <2>4
<1>10. Range(q) = Range(p) \ {p[i]}
  <2>1. Range(q) = {q[j] : j \in 1..n - 1} /\ Range(p) = {p[j] : j \in 1..n}
    BY <1>1, <1>2, <1>5, PathFacts
  <2>2. \A a, b \in 1..n : p[a] = p[b] => a = b
    BY <1>1, <1>2, InjectiveFacts
  <2>3. ASSUME NEW j \in 1..n - 1 PROVE q[j] \in Range(p) \ {p[i]}
    BY <1>3, <1>7, <2>1, <2>2
  <2>4. ASSUME NEW k \in 1..n, k # i PROVE p[k] \in Range(q)
    BY <1>7, <1>8, <2>1, <2>4
  <2>. QED BY <2>1, <2>3, <2>4
<1>11. ASSUME NEW j \in 1..n - 1 PROVE next2[q[j]] = IF j = n - 1 THEN ends ELSE q[j + 1]
  <2>1. CASE j < i - 1
    <3>1. /\ j \in 1..n /\ j + 1 \in 1..n - 1 /\ j < i /\ j + 1 < i /\ j # i /\ j # i - 1
          /\ j # n /\ j # n - 1
      BY <1>2, <1>3, <2>1
    <3>2. q[j] = p[j] /\ q[j + 1] = p[j + 1]
      BY <1>5, <3>1
    <3>3. next2[p[j]] = p[j + 1]
      BY <1>1, <1>2, <1>3, <3>1
    <3>. QED BY <3>1, <3>2, <3>3
  <2>2. CASE j = i - 1
    <3>1. i # 1 /\ j < i /\ i \in 1..n /\ (i = n <=> j = n - 1)
          /\ (j # n - 1 => j + 1 \in 1..n - 1 /\ ~(j + 1 < i) /\ (j + 1) + 1 = i + 1)
      BY <1>2, <1>3, <2>2
    <3>2. q[j] = p[j] /\ next2[p[j]] = next[p[i]]
      BY <1>3, <1>5, <2>2, <3>1
    <3>3. next[p[i]] = IF j = n - 1 THEN ends ELSE p[i + 1]
      BY <1>1, <1>2, <3>1
    <3>4. j # n - 1 => q[j + 1] = p[i + 1]
      BY <1>5, <3>1
    <3>. QED BY <3>2, <3>3, <3>4
  <2>3. CASE ~(j < i)
    <3>1. /\ j + 1 \in 1..n /\ j + 1 # i /\ j + 1 # i - 1 /\ (j + 1 = n <=> j = n - 1)
          /\ (j # n - 1 => j + 1 \in 1..n - 1 /\ ~(j + 1 < i))
      BY <1>2, <1>3, <2>3
    <3>2. q[j] = p[j + 1]
      BY <1>5, <2>3
    <3>3. next2[p[j + 1]] = IF j = n - 1 THEN ends ELSE p[(j + 1) + 1]
      BY <1>1, <1>2, <1>3, <3>1
    <3>4. j # n - 1 => q[j + 1] = p[(j + 1) + 1]
      BY <1>5, <3>1
    <3>. QED BY <3>2, <3>3, <3>4
  <2>. QED BY <1>2, <1>3, <2>1, <2>2, <2>3
<1>12. first2 = IF q = <<>> THEN ends ELSE q[1]
  <2>1. q = <<>> <=> n = 1
    BY <1>2, <1>3, <1>5, PathFacts
  <2>2. p # <<>> /\ 1 \in 1..n
    BY <1>1, <1>2, <1>3, PathFacts
  <2>3. CASE n = 1
    <3>1. i = 1
      BY <1>3, <2>3
    <3>. QED BY <1>1, <1>2, <1>3, <2>1, <2>2, <2>3, <3>1
  <2>4. CASE n # 1
    <3>1. 1 \in 1..n - 1 /\ 1 + 1 = 2
      BY <1>2, <1>3, <2>4
    <3>2. CASE i = 1
      <4>1. q[1] = p[2]
        BY <1>5, <3>1, <3>2
      <4>. QED BY <1>1, <1>2, <1>3, <2>1, <2>2, <2>4, <3>2, <4>1
    <3>3. CASE i # 1
      <4>1. q[1] = p[1]
        <5>1. 1 < i
          BY <1>2, <1>3, <3>3
        <5>. QED BY <1>5, <3>1, <5>1
      <4>. QED BY <1>1, <1>3, <2>1, <2>2, <2>4, <3>3, <4>1
    <3>. QED BY <3>2, <3>3
  <2>. QED BY <2>3, <2>4
<1>. QED BY <1>4, <1>5, <1>9, <1>10, <1>11, <1>12 DEF Leads

-----------------------------------------------------------------------------
(* Looking for an id *)

FirstOf(I) == IF I # {} THEN Min(I) ELSE 0

LEMMA FirstOfFacts ==
  ASSUME NEW n \in Nat, NEW I \in SUBSET (1..n)
  PROVE  /\ FirstOf(I) \in 0..n
         /\ FirstOf(I) = 0 <=> I = {}
         /\ FirstOf(I) # 0 => FirstOf(I) \in I /\ \A k \in I : FirstOf(I) <= k
<1>1. CASE I = {}
  BY <1>1 DEF FirstOf
<1>2. CASE I # {}
  <2>1. I \in SUBSET Nat
    OBVIOUS
  <2>2. PICK m \in I : \A k \in I : m <= k
    BY <1>2, <2>1, LeastFacts
  <2>3. PICK f : f = FirstOf(I)
    OBVIOUS
  <2>4. f \in I /\ \A k \in I : f <= k
    BY <1>2, <2>2, <2>3 DEF Min, FirstOf
  <2>5. f \in 1..n
    BY <2>4
  <2>6. f \in 0..n /\ f # 0
    BY <2>5
  <2>. QED BY <1>2, <2>3, <2>4, <2>6
<1>. QED BY <1>1, <1>2

\* Where the nodes of a path have an id, and where they have one that is not greater.
IdAt(l, p, id) == {i \in 1..Len(p) : l.nodes[p[i]].id = id}
LessAt(l, p, id) == {i \in 1..Len(p) : l.nodes[p[i]].id <= id}

\* The i-th node of a path, which the loops of List.c return, or none.
NodeAt(p, i) == IF i = 0 THEN NULL ELSE p[i]

LEMMA SelectFacts ==
  ASSUME NEW l, NEW p, NEW id
  PROVE  /\ SelectInSeq(p, LAMBDA n : l.nodes[n].id = id) = FirstOf(IdAt(l, p, id))
         /\ FirstIn(p, LAMBDA n : l.nodes[n].id = id) = NodeAt(p, FirstOf(IdAt(l, p, id)))
         /\ FirstIn(p, LAMBDA n : l.nodes[n].id <= id) = NodeAt(p, FirstOf(LessAt(l, p, id)))
BY DEF FirstIn, SelectInSeq, FirstOf, IdAt, LessAt, NodeAt

-----------------------------------------------------------------------------
(* What holds of a list between calls *)

NextOf(l) == [n \in Node |-> l.nodes[n].next]
CollissionOf(l) == [n \in Node |-> l.nodes[n].hash_collission_next]

Nodes == Node \cup {Sentinel}
Inside(l) == {n \in Node : l.nodes[n] # NULL}
InBucket(l, In, b, size) == {n \in In : l.nodes[n].id % size = b}

ListTypes(l, size) ==
  /\ size \in Nat
  /\ l \in [head : Nodes, nodes : [Nodes -> NodeFields \cup {NULL}],
            table : [0..size - 1 -> Node \cup {NULL}]]
  /\ l.nodes[Sentinel] # NULL

\* The links lead over the nodes p and back, and no other node is allocated.
Linked(l, p) ==
  /\ Leads(p, l.head, NextOf(l), Sentinel)
  /\ Range(p) = Inside(l)
  /\ \A i \in 2..Len(p) : l.nodes[p[i]].prev = p[i - 1]
  /\ p # <<>> => l.nodes[Sentinel].prev = p[Len(p)]

\* The nodes In are in the table, each in the chain of its id.
ChainIs(l, In, b, c, size) ==
  /\ Leads(c, l.table[b], CollissionOf(l), NULL)
  /\ Range(c) = InBucket(l, In, b, size)

Chained(l, In, size) ==
  size > 0 => \A b \in 0..size - 1 : \E c : ChainIs(l, In, b, c, size)

UniqueIds(l, In, size) ==
  size > 0 => \A m, n \in In : l.nodes[m].id = l.nodes[n].id => m = n

GoodList(l, p, size) ==
  /\ ListTypes(l, size) /\ Linked(l, p)
  /\ Chained(l, Inside(l), size) /\ UniqueIds(l, Inside(l), size)
  /\ l.nodes[Sentinel].data = NULL

LEMMA TypeFacts ==
  ASSUME NEW l, NEW size, ListTypes(l, size)
  PROVE  /\ size \in Nat /\ l.head \in Nodes
         /\ l.nodes \in [Nodes -> NodeFields \cup {NULL}]
         /\ l.table \in [0..size - 1 -> Node \cup {NULL}]
         /\ l = [head |-> l.head, nodes |-> l.nodes, table |-> l.table]
         /\ Sentinel \in Nodes /\ Sentinel \notin Node /\ NULL \notin Nodes
         /\ \A n \in Node : n \in Nodes
         /\ \A n \in Inside(l) : n \in Node /\ n \in Nodes /\ l.nodes[n] \in NodeFields
         /\ l.nodes[Sentinel] \in NodeFields
BY ListAssumption DEF ListTypes, Nodes, Inside

LEMMA FieldFacts ==
  ASSUME NEW r \in NodeFields
  PROVE  /\ r.id \in Nat /\ r.id \in Ids \cup {0} /\ r.data \in Data \cup {NULL}
         /\ r.next \in Nodes \cup {NULL} /\ r.prev \in Nodes \cup {NULL}
         /\ r.hash_collission_next \in Nodes \cup {NULL}
         /\ r = [id |-> r.id, data |-> r.data, next |-> r.next, prev |-> r.prev,
                 hash_collission_next |-> r.hash_collission_next]
         /\ r # NULL
<1>1. /\ r.id \in Ids \cup {0} /\ r.data \in Data \cup {NULL}
      /\ r.next \in Pointers /\ r.prev \in Pointers /\ r.hash_collission_next \in Pointers
  BY DEF NodeFields
<1>2. r = [id |-> r.id, data |-> r.data, next |-> r.next, prev |-> r.prev,
           hash_collission_next |-> r.hash_collission_next]
  BY DEF NodeFields
<1>3. Pointers = Nodes \cup {NULL}
  BY DEF Pointers, Nodes
<1>4. r # NULL /\ Ids \cup {0} \subseteq Nat
  BY ListAssumption
<1>. QED BY <1>1, <1>2, <1>3, <1>4

LEMMA MakeFields ==
  ASSUME NEW id \in Ids \cup {0}, NEW data \in Data \cup {NULL}, NEW next \in Nodes \cup {NULL},
         NEW prev \in Nodes \cup {NULL}, NEW h \in Nodes \cup {NULL}, NEW r,
         r = [id |-> id, data |-> data, next |-> next, prev |-> prev, hash_collission_next |-> h]
  PROVE  r \in NodeFields
BY DEF NodeFields, Pointers, Nodes

\* The bucket of a node that is allocated.
LEMMA BucketFacts ==
  ASSUME NEW l, NEW size, ListTypes(l, size), size > 0, NEW n \in Inside(l)
  PROVE  l.nodes[n].id \in Nat /\ l.nodes[n].id % size \in 0..size - 1
<1>1. l.nodes[n].id \in Nat /\ size \in Nat
  BY TypeFacts, FieldFacts
<1>. QED BY <1>1

\* Pointers that are the same on a path lead over it as well.
LEMMA SameLeads ==
  ASSUME NEW p, NEW first, NEW next, NEW next2, NEW ends, Leads(p, first, next, ends),
         \A n \in Range(p) : next2[n] = next[n]
  PROVE  Leads(p, first, next2, ends)
<1>1. p \in Seq(Node) /\ \A i \in 1..Len(p) : p[i] \in Range(p)
  BY PathFacts DEF Leads
<1>. QED BY <1>1 DEF Leads

\* What the model looks for is the path.
LEMMA ForwardFacts ==
  ASSUME NEW l, NEW p, Linked(l, p)
  PROVE  Forward(l) = p
BY WalkFacts, ListAssumption DEF Linked, NextOf, Forward

LEMMA ChainFacts ==
  ASSUME NEW l, NEW In, NEW b, NEW c, NEW size, ChainIs(l, In, b, c, size)
  PROVE  Chain(l, b) = c
BY WalkFacts, ListAssumption DEF ChainIs, CollissionOf, Chain

-----------------------------------------------------------------------------
(* The hash table *)

\* A node is linked into its chain: that field is set, the others stay.
LEMMA SetCollission ==
  ASSUME NEW s \in NodeFields, NEW x \in Nodes \cup {NULL},
         NEW t, t = [s EXCEPT !.hash_collission_next = x]
  PROVE  /\ t \in NodeFields /\ t # NULL /\ s # NULL /\ t.hash_collission_next = x
         /\ t.id = s.id /\ t.data = s.data
         /\ t.next = s.next /\ t.prev = s.prev
<1>1. t = [id |-> s.id, data |-> s.data, next |-> s.next,
           prev |-> s.prev, hash_collission_next |-> x]
  BY DEF NodeFields
<1>2. /\ s.id \in Ids \cup {0} /\ s.data \in Data \cup {NULL}
      /\ s.next \in Nodes \cup {NULL} /\ s.prev \in Nodes \cup {NULL}
      /\ s.hash_collission_next \in Nodes \cup {NULL}
  BY FieldFacts
<1>3. t \in NodeFields
  <2>1. PICK i, d, n, p, h : /\ i = s.id /\ d = s.data /\ n = s.next /\ p = s.prev
                             /\ h = s.hash_collission_next
    OBVIOUS
  <2>2. [id |-> i, data |-> d, next |-> n, prev |-> p, hash_collission_next |-> x] \in NodeFields
    BY <1>2, <2>1, MakeFields
  <2>. QED BY <1>1, <2>1, <2>2
<1>4. t # NULL /\ s # NULL
  BY <1>3, FieldFacts
<1>. QED BY <1>1, <1>3, <1>4

\* The same for the link to the next node.
LEMMA SetNext ==
  ASSUME NEW s \in NodeFields, NEW x \in Nodes \cup {NULL},
         NEW t, t = [s EXCEPT !.next = x]
  PROVE  /\ t \in NodeFields /\ t # NULL /\ s # NULL /\ t.next = x
         /\ t.id = s.id /\ t.data = s.data
         /\ t.prev = s.prev /\ t.hash_collission_next = s.hash_collission_next
<1>1. t = [id |-> s.id, data |-> s.data, next |-> x,
           prev |-> s.prev, hash_collission_next |-> s.hash_collission_next]
  BY DEF NodeFields
<1>2. /\ s.id \in Ids \cup {0} /\ s.data \in Data \cup {NULL}
      /\ s.next \in Nodes \cup {NULL} /\ s.prev \in Nodes \cup {NULL}
      /\ s.hash_collission_next \in Nodes \cup {NULL}
  BY FieldFacts
<1>3. t \in NodeFields
  <2>1. PICK i, d, n, p, h : /\ i = s.id /\ d = s.data /\ n = s.next /\ p = s.prev
                             /\ h = s.hash_collission_next
    OBVIOUS
  <2>2. [id |-> i, data |-> d, next |-> x, prev |-> p, hash_collission_next |-> h] \in NodeFields
    BY <1>2, <2>1, MakeFields
  <2>. QED BY <1>1, <2>1, <2>2
<1>4. t # NULL /\ s # NULL
  BY <1>3, FieldFacts
<1>. QED BY <1>1, <1>3, <1>4

\* The same for the link to the previous node.
LEMMA SetPrev ==
  ASSUME NEW s \in NodeFields, NEW x \in Nodes \cup {NULL},
         NEW t, t = [s EXCEPT !.prev = x]
  PROVE  /\ t \in NodeFields /\ t # NULL /\ s # NULL /\ t.prev = x
         /\ t.id = s.id /\ t.data = s.data
         /\ t.next = s.next /\ t.hash_collission_next = s.hash_collission_next
<1>1. t = [id |-> s.id, data |-> s.data, next |-> s.next,
           prev |-> x, hash_collission_next |-> s.hash_collission_next]
  BY DEF NodeFields
<1>2. /\ s.id \in Ids \cup {0} /\ s.data \in Data \cup {NULL}
      /\ s.next \in Nodes \cup {NULL} /\ s.prev \in Nodes \cup {NULL}
      /\ s.hash_collission_next \in Nodes \cup {NULL}
  BY FieldFacts
<1>3. t \in NodeFields
  <2>1. PICK i, d, n, p, h : /\ i = s.id /\ d = s.data /\ n = s.next /\ p = s.prev
                             /\ h = s.hash_collission_next
    OBVIOUS
  <2>2. [id |-> i, data |-> d, next |-> n, prev |-> x, hash_collission_next |-> h] \in NodeFields
    BY <1>2, <2>1, MakeFields
  <2>. QED BY <1>1, <2>1, <2>2
<1>4. t # NULL /\ s # NULL
  BY <1>3, FieldFacts
<1>. QED BY <1>1, <1>3, <1>4

\* The lists l and m differ at most in the hash table.
SameLinks(l, m) ==
  /\ m.head = l.head
  /\ \A n \in Nodes :
       /\ m.nodes[n] = NULL <=> l.nodes[n] = NULL
       /\ m.nodes[n].id = l.nodes[n].id /\ m.nodes[n].data = l.nodes[n].data
       /\ m.nodes[n].next = l.nodes[n].next /\ m.nodes[n].prev = l.nodes[n].prev

LEMMA SameLinksFacts ==
  ASSUME NEW l, NEW m, SameLinks(l, m)
  PROVE  /\ Inside(m) = Inside(l)
         /\ \A p : Linked(l, p) => Linked(m, p)
         /\ \A size : \A In \in SUBSET Nodes : UniqueIds(l, In, size) => UniqueIds(m, In, size)
<1>1. \A n \in Node : n \in Nodes
  BY DEF Nodes
<1>2. Inside(m) = Inside(l)
  BY <1>1 DEF SameLinks, Inside
<1>3. ASSUME NEW p, Linked(l, p) PROVE Linked(m, p)
  <2>1. p \in Seq(Node)
    BY <1>3 DEF Linked, Leads
  <2>2. Leads(p, l.head, NextOf(l), Sentinel)
    BY <1>3 DEF Linked
  <2>3. \A n \in Range(p) : NextOf(m)[n] = NextOf(l)[n]
    <3>1. \A n \in Range(p) : n \in Node
      BY <2>1, PathFacts
    <3>. QED BY <1>1, <3>1 DEF NextOf, SameLinks
  <2>4. Leads(p, m.head, NextOf(m), Sentinel)
    <3>1. m.head = l.head
      BY DEF SameLinks
    <3>. QED BY <2>2, <2>3, <3>1, SameLeads
  <2>5. \A i \in 2..Len(p) : p[i] \in Nodes
    <3>1. \A i \in 2..Len(p) : i \in 1..Len(p)
      BY <2>1, PathFacts
    <3>. QED BY <1>1, <2>1, <3>1, PathFacts
  <2>6. Sentinel \in Nodes
    BY DEF Nodes
  <2>. QED BY <1>2, <1>3, <2>4, <2>5, <2>6 DEF Linked, SameLinks
<1>4. ASSUME NEW size, NEW In \in SUBSET Nodes, UniqueIds(l, In, size)
      PROVE  UniqueIds(m, In, size)
  BY <1>4 DEF UniqueIds, SameLinks
<1>. QED BY <1>2, <1>3, <1>4

\* What is known of a list before its table changes.
InTable(l, In, size) ==
  /\ ListTypes(l, size) /\ size = hash_table_size
  /\ In \subseteq Inside(l) /\ Chained(l, In, size)

LEMMA HashAdd ==
  ASSUME NEW l, NEW In, NEW size, InTable(l, In, size),
         NEW ln \in Inside(l), ln \notin In, NEW m, m = ListAddToHashTable(l, ln)
  PROVE  ListTypes(m, size) /\ SameLinks(l, m) /\ Chained(m, In \cup {ln}, size)
<1>1. /\ ListTypes(l, size) /\ size = hash_table_size
      /\ In \subseteq Inside(l) /\ Chained(l, In, size) /\ size \in Nat
  BY DEF InTable, ListTypes
<1>2. CASE ~(size > 0)
  <2>1. m = l
    BY <1>1, <1>2 DEF ListAddToHashTable, Hashed
  <2>. QED BY <1>1, <1>2, <2>1 DEF SameLinks, Chained
<1>3. CASE size > 0
  <2>1. PICK b : b = l.nodes[ln].id % size
    OBVIOUS
  <2>2. b \in 0..size - 1
    BY <1>1, <1>3, <2>1, BucketFacts
  <2>3. /\ l.nodes \in [Nodes -> NodeFields \cup {NULL}] /\ l.nodes[ln] \in NodeFields
        /\ l.table \in [0..size - 1 -> Node \cup {NULL}] /\ l.head \in Nodes
        /\ l = [head |-> l.head, nodes |-> l.nodes, table |-> l.table]
        /\ ln \in Node /\ ln \in Nodes /\ ln # Sentinel
        /\ \A n \in Node : n \in Nodes
    BY <1>1, TypeFacts
  <2>4. PICK old, h, r : /\ old = l.nodes[ln] /\ h = l.table[b]
                         /\ r = [old EXCEPT !.hash_collission_next = h]
    OBVIOUS
  <2>5. h \in Nodes \cup {NULL} /\ old \in NodeFields
    BY <2>2, <2>3, <2>4
  <2>6. /\ r \in NodeFields /\ r.id = old.id /\ r.data = old.data /\ r.next = old.next
        /\ r.prev = old.prev /\ r.hash_collission_next = h /\ r # NULL
    <3>1. r = [old EXCEPT !.hash_collission_next = h]
      BY <2>4
    <3>. QED BY <2>5, <3>1, SetCollission
  <2>7. PICK N, T : N = [l.nodes EXCEPT ![ln] = r] /\ T = [l.table EXCEPT ![b] = ln]
    OBVIOUS
  <2>8. m = [head |-> l.head, nodes |-> N, table |-> T]
    <3>1. m = [l EXCEPT !.nodes[ln].hash_collission_next = l.table[b], !.table[b] = ln]
      BY <1>1, <1>3, <2>1 DEF ListAddToHashTable, Hashed, Bucket
    <3>. QED BY <2>3, <2>4, <2>7, <3>1
  <2>9. m.head = l.head /\ m.nodes = N /\ m.table = T
    BY <2>8
  <2>10. /\ N \in [Nodes -> NodeFields \cup {NULL}] /\ N[ln] = r
         /\ \A n \in Nodes \ {ln} : N[n] = l.nodes[n]
    BY <2>3, <2>6, <2>7
  <2>11. /\ T \in [0..size - 1 -> Node \cup {NULL}] /\ T[b] = ln
         /\ \A a \in 0..size - 1 : a # b => T[a] = l.table[a]
    BY <2>2, <2>3, <2>7
  <2>12. ListTypes(m, size)
    <3>1. Sentinel \in Nodes /\ l.nodes[Sentinel] # NULL
      BY <1>1 DEF Nodes, ListTypes
    <3>2. N[Sentinel] # NULL
      BY <2>3, <2>10, <3>1
    <3>. QED BY <1>1, <2>3, <2>8, <2>9, <2>10, <2>11, <3>2 DEF ListTypes
  <2>13. SameLinks(l, m)
    <3>1. ASSUME NEW n \in Nodes
          PROVE  /\ N[n] = NULL <=> l.nodes[n] = NULL
                 /\ N[n].id = l.nodes[n].id /\ N[n].data = l.nodes[n].data
                 /\ N[n].next = l.nodes[n].next /\ N[n].prev = l.nodes[n].prev
      <4>1. CASE n = ln
        <5>1. old # NULL
          BY <2>5, FieldFacts
        <5>. QED BY <2>4, <2>6, <2>10, <4>1, <5>1
      <4>2. CASE n # ln
        BY <2>10, <4>2
      <4>. QED BY <4>1, <4>2
    <3>. QED BY <2>9, <3>1 DEF SameLinks
  <2>14. \A n \in Node : /\ CollissionOf(m)[n] = N[n].hash_collission_next
                         /\ CollissionOf(l)[n] = l.nodes[n].hash_collission_next
    BY <2>9 DEF CollissionOf
  <2>15. /\ CollissionOf(m)[ln] = h
         /\ \A n \in Node : n # ln => CollissionOf(m)[n] = CollissionOf(l)[n]
    BY <2>3, <2>6, <2>10, <2>14
  <2>16. \A n \in In : n \in Node /\ n \in Nodes /\ n # ln
    BY <1>1 DEF Inside, Nodes
  <2>17. \A a : InBucket(m, In \cup {ln}, a, size) =
                  InBucket(l, In, a, size) \cup (IF a = b THEN {ln} ELSE {})
    BY <2>1, <2>3, <2>13, <2>16 DEF InBucket, SameLinks
  <2>18. ASSUME NEW a \in 0..size - 1 PROVE \E c : ChainIs(m, In \cup {ln}, a, c, size)
    <3>1. PICK c : ChainIs(l, In, a, c, size)
      BY <1>1, <1>3 DEF Chained
    <3>2. Leads(c, l.table[a], CollissionOf(l), NULL) /\ Range(c) = InBucket(l, In, a, size)
      BY <3>1 DEF ChainIs
    <3>3. \A n \in Range(c) : n \in In /\ n \in Node /\ n # ln
      BY <2>16, <3>2 DEF InBucket
    <3>4. \A n \in Range(c) : CollissionOf(m)[n] = CollissionOf(l)[n]
      BY <2>15, <3>3
    <3>5. CASE a = b
      <4>1. Precedes(ln, c, h, CollissionOf(l), CollissionOf(m), NULL)
        BY <2>3, <2>4, <2>15, <3>2, <3>3, <3>4, <3>5 DEF Precedes
      <4>2. /\ Leads(<<ln>> \o c, ln, CollissionOf(m), NULL)
            /\ Range(<<ln>> \o c) = Range(c) \cup {ln}
        BY <4>1, PushLeads
      <4>3. m.table[a] = ln
        BY <2>9, <2>11, <3>5
      <4>4. Range(<<ln>> \o c) = InBucket(m, In \cup {ln}, a, size)
        BY <2>17, <3>2, <3>5, <4>2
      <4>5. ChainIs(m, In \cup {ln}, a, <<ln>> \o c, size)
        BY <4>2, <4>3, <4>4 DEF ChainIs
      <4>. QED BY <4>5
    <3>6. CASE a # b
      <4>1. m.table[a] = l.table[a]
        BY <2>9, <2>11, <3>6
      <4>2. Leads(c, m.table[a], CollissionOf(m), NULL)
        BY <3>2, <3>4, <4>1, SameLeads
      <4>3. Range(c) = InBucket(m, In \cup {ln}, a, size)
        BY <2>17, <3>2, <3>6
      <4>4. ChainIs(m, In \cup {ln}, a, c, size)
        BY <4>2, <4>3 DEF ChainIs
      <4>. QED BY <4>4
    <3>. QED BY <3>5, <3>6
  <2>. QED BY <2>12, <2>13, <2>18 DEF Chained
<1>. QED BY <1>1, <1>2, <1>3

\* Where a chain has an id.
LEMMA ChainAt ==
  ASSUME NEW l, NEW In, NEW size, InTable(l, In, size), UniqueIds(l, In, size), size > 0,
         NEW id \in Nat, NEW b, b = id % size,
         NEW c, ChainIs(l, In, b, c, size), NEW i, i = FirstOf(IdAt(l, c, id))
  PROVE  /\ i \in 0..Len(c)
         /\ i = 0 => \A n \in In : l.nodes[n].id # id
         /\ i # 0 => /\ c[i] \in In /\ l.nodes[c[i]].id = id
                     /\ \A n \in In : l.nodes[n].id = id => n = c[i]
<1>1. Leads(c, l.table[b], CollissionOf(l), NULL) /\ Range(c) = InBucket(l, In, b, size)
  BY DEF ChainIs
<1>2. c \in Seq(Node)
  BY <1>1 DEF Leads
<1>3. Len(c) \in Nat /\ \A k \in 1..Len(c) : c[k] \in Range(c)
  BY <1>2, PathFacts
<1>4. IdAt(l, c, id) \in SUBSET (1..Len(c))
  BY DEF IdAt
<1>5. /\ i \in 0..Len(c) /\ (i = 0 <=> IdAt(l, c, id) = {})
      /\ i # 0 => i \in IdAt(l, c, id)
  BY <1>3, <1>4, FirstOfFacts
<1>6. ASSUME NEW n \in In, l.nodes[n].id = id PROVE i # 0
  <2>1. n \in Range(c)
    BY <1>1, <1>6 DEF InBucket
  <2>2. PICK k \in 1..Len(c) : c[k] = n
    BY <1>2, <2>1, PathFacts
  <2>3. k \in IdAt(l, c, id)
    BY <1>6, <2>2 DEF IdAt
  <2>. QED BY <1>5, <2>3
<1>7. i # 0 => c[i] \in In /\ l.nodes[c[i]].id = id
  BY <1>1, <1>3, <1>5 DEF IdAt, InBucket
<1>8. ASSUME i # 0, NEW n \in In, l.nodes[n].id = id PROVE n = c[i]
  BY <1>7, <1>8 DEF UniqueIds
<1>. QED BY <1>5, <1>6, <1>7, <1>8

\* What HashRemove makes of a list: the nodes with the id are no more in the table.
Unhashed(l, m, In, id, size) ==
  /\ ListTypes(m, size) /\ SameLinks(l, m)
  /\ Chained(m, {n \in In : l.nodes[n].id # id}, size)

LEMMA HashRemove ==
  ASSUME NEW l, NEW In, NEW size, InTable(l, In, size), UniqueIds(l, In, size),
         NEW id \in Nat, NEW m, m = ListRemoveFromHashTable(l, id)
  PROVE  Unhashed(l, m, In, id, size)
<1>1. /\ ListTypes(l, size) /\ size = hash_table_size
      /\ In \subseteq Inside(l) /\ Chained(l, In, size) /\ size \in Nat
  BY DEF InTable, ListTypes
<1>2. CASE ~(size > 0)
  <2>1. m = l
    BY <1>1, <1>2 DEF ListRemoveFromHashTable, Hashed
  <2>. QED BY <1>1, <1>2, <2>1 DEF SameLinks, Chained, Unhashed
<1>3. CASE size > 0
  <2>1. PICK b : b = id % size
    OBVIOUS
  <2>2. b \in 0..size - 1
    BY <1>1, <1>3, <2>1
  <2>3. PICK c : ChainIs(l, In, b, c, size)
    BY <1>1, <1>3, <2>2 DEF Chained
  <2>4. Leads(c, l.table[b], CollissionOf(l), NULL) /\ Range(c) = InBucket(l, In, b, size)
    BY <2>3 DEF ChainIs
  <2>5. PICK i : i = FirstOf(IdAt(l, c, id))
    OBVIOUS
  <2>6. /\ i \in 0..Len(c)
        /\ i = 0 => \A n \in In : l.nodes[n].id # id
        /\ i # 0 => /\ c[i] \in In /\ l.nodes[c[i]].id = id
                    /\ \A n \in In : l.nodes[n].id = id => n = c[i]
    BY <1>3, <2>1, <2>3, <2>5, ChainAt
  <2>7. PICK rest : rest = l.nodes[c[i]].hash_collission_next
    OBVIOUS
  <2>8. m = IF i = 0 THEN l
            ELSE IF i = 1 THEN [l EXCEPT !.table[b] = rest]
            ELSE [l EXCEPT !.nodes[c[i - 1]].hash_collission_next = rest]
    <3>1. Chain(l, b) = c /\ Bucket(id) = b /\ Hashed
      BY <1>1, <1>3, <2>1, <2>3, ChainFacts DEF Bucket, Hashed
    <3>2. SelectInSeq(Chain(l, b), LAMBDA n : l.nodes[n].id = id) = i
      BY <2>5, <3>1, SelectFacts
    <3>. QED BY <2>7, <3>1, <3>2 DEF ListRemoveFromHashTable
  <2>9. CASE i = 0
    <3>1. m = l /\ {n \in In : l.nodes[n].id # id} = In
      BY <2>6, <2>8, <2>9
    <3>. QED BY <1>1, <3>1 DEF SameLinks, Unhashed
  <2>10. CASE i # 0
    <3>1. /\ l.nodes \in [Nodes -> NodeFields \cup {NULL}]
          /\ l.table \in [0..size - 1 -> Node \cup {NULL}] /\ l.head \in Nodes
          /\ l = [head |-> l.head, nodes |-> l.nodes, table |-> l.table]
          /\ \A n \in Node : n \in Nodes
          /\ \A n \in Inside(l) : n \in Node /\ n \in Nodes /\ l.nodes[n] \in NodeFields
      BY <1>1, TypeFacts
    <3>2. /\ c \in Seq(Node) /\ IsInjective(c) /\ Len(c) \in Nat /\ i \in 1..Len(c)
          /\ \A k \in 1..Len(c) : c[k] \in Range(c) /\ c[k] \in Node
      <4>1. c \in Seq(Node) /\ IsInjective(c)
        BY <2>4 DEF Leads
      <4>2. Len(c) \in Nat /\ \A k \in 1..Len(c) : c[k] \in Range(c) /\ c[k] \in Node
        BY <4>1, PathFacts
      <4>. QED BY <2>6, <2>10, <4>1, <4>2
    <3>3. \A n \in Range(c) : n \in In /\ n \in Inside(l)
      BY <1>1, <2>4 DEF InBucket
    <3>4. rest \in Node \cup {NULL}
      <4>1. rest = CollissionOf(l)[c[i]]
        BY <2>7, <3>2 DEF CollissionOf
      <4>2. rest = IF i = Len(c) THEN NULL ELSE c[i + 1]
        BY <2>4, <3>2, <4>1 DEF Leads
      <4>3. i # Len(c) => i + 1 \in 1..Len(c)
        BY <3>2
      <4>. QED BY <3>2, <4>2, <4>3
    <3>5. PICK before : before = c[i - 1]
      OBVIOUS
    <3>6. i # 1 => /\ i - 1 \in 1..Len(c) /\ before \in Node /\ before \in In
                   /\ before \in Range(c)
                   /\ l.nodes[before] \in NodeFields /\ before # c[i]
      <4>. SUFFICES ASSUME i # 1
                    PROVE  /\ i - 1 \in 1..Len(c) /\ before \in Node /\ before \in In
                           /\ before \in Range(c)
                           /\ l.nodes[before] \in NodeFields /\ before # c[i]
        OBVIOUS
      <4>1. i - 1 \in 1..Len(c) /\ i - 1 # i
        BY <3>2
      <4>2. before \in Range(c) /\ before \in Node /\ before # c[i]
        BY <3>2, <3>5, <4>1, InjectiveFacts
      <4>. QED BY <3>1, <3>3, <4>1, <4>2
    <3>7. PICK old, r : /\ old = l.nodes[before]
                        /\ r = [old EXCEPT !.hash_collission_next = rest]
      OBVIOUS
    <3>8. i # 1 => /\ r \in NodeFields /\ r.id = old.id /\ r.data = old.data
                   /\ r.next = old.next /\ r.prev = old.prev
                   /\ r.hash_collission_next = rest /\ r # NULL /\ old # NULL
      <4>. SUFFICES ASSUME i # 1
                    PROVE  /\ r \in NodeFields /\ r.id = old.id /\ r.data = old.data
                           /\ r.next = old.next /\ r.prev = old.prev
                           /\ r.hash_collission_next = rest /\ r # NULL /\ old # NULL
        OBVIOUS
      <4>1. old \in NodeFields /\ rest \in Nodes \cup {NULL}
        BY <3>1, <3>4, <3>6, <3>7
      <4>2. r = [old EXCEPT !.hash_collission_next = rest]
        BY <3>7
      <4>. QED BY <4>1, <4>2, SetCollission
    <3>9. PICK N, T : /\ N = IF i = 1 THEN l.nodes ELSE [l.nodes EXCEPT ![before] = r]
                      /\ T = IF i = 1 THEN [l.table EXCEPT ![b] = rest] ELSE l.table
      OBVIOUS
    <3>10. m = [head |-> l.head, nodes |-> N, table |-> T]
      <4>1. CASE i = 1
        <5>1. m = [l EXCEPT !.table[b] = rest]
          BY <2>8, <4>1
        <5>. QED BY <3>1, <3>9, <4>1, <5>1
      <4>2. CASE i # 1
        <5>1. m = [l EXCEPT !.nodes[before].hash_collission_next = rest]
          BY <2>8, <2>10, <3>5, <4>2
        <5>. QED BY <3>1, <3>7, <3>9, <4>2, <5>1
      <4>. QED BY <4>1, <4>2
    <3>11. m.head = l.head /\ m.nodes = N /\ m.table = T
      BY <3>10
    <3>12. /\ N \in [Nodes -> NodeFields \cup {NULL}]
           /\ i # 1 => N[before] = r
           /\ \A n \in Nodes : i = 1 \/ n # before => N[n] = l.nodes[n]
      <4>1. CASE i = 1
        BY <3>1, <3>9, <4>1
      <4>2. CASE i # 1
        BY <3>1, <3>6, <3>8, <3>9, <4>2
      <4>. QED BY <4>1, <4>2
    <3>13. /\ T \in [0..size - 1 -> Node \cup {NULL}]
           /\ i = 1 => T[b] = rest
           /\ \A a \in 0..size - 1 : i # 1 \/ a # b => T[a] = l.table[a]
      BY <2>2, <3>1, <3>4, <3>9
    <3>14. ListTypes(m, size)
      <4>1. Sentinel \in Nodes /\ l.nodes[Sentinel] # NULL
        BY <1>1 DEF Nodes, ListTypes
      <4>2. N[Sentinel] # NULL
        BY <3>8, <3>12, <4>1
      <4>. QED BY <1>1, <3>1, <3>10, <3>11, <3>12, <3>13, <4>2 DEF ListTypes
    <3>15. SameLinks(l, m)
      <4>1. ASSUME NEW n \in Nodes
            PROVE  /\ N[n] = NULL <=> l.nodes[n] = NULL
                   /\ N[n].id = l.nodes[n].id /\ N[n].data = l.nodes[n].data
                   /\ N[n].next = l.nodes[n].next /\ N[n].prev = l.nodes[n].prev
        <5>1. CASE i # 1 /\ n = before
          BY <3>7, <3>8, <3>12, <5>1
        <5>2. CASE i = 1 \/ n # before
          BY <3>12, <5>2
        <5>. QED BY <5>1, <5>2
      <4>. QED BY <3>11, <4>1 DEF SameLinks
    <3>16. /\ i # 1 => CollissionOf(m)[before] = rest
           /\ \A n \in Node : i = 1 \/ n # before => CollissionOf(m)[n] = CollissionOf(l)[n]
      <4>1. \A n \in Node : /\ CollissionOf(m)[n] = N[n].hash_collission_next
                            /\ CollissionOf(l)[n] = l.nodes[n].hash_collission_next
        BY <3>11 DEF CollissionOf
      <4>. QED BY <3>1, <3>6, <3>8, <3>12, <4>1
    <3>17. PICK Out : Out = {n \in In : l.nodes[n].id # id}
      OBVIOUS
    <3>18. /\ Out = In \ {c[i]}
           /\ \A a : InBucket(m, Out, a, size) = InBucket(l, In, a, size) \ {c[i]}
      <4>1. Out = In \ {c[i]}
        BY <2>6, <2>10, <3>17
      <4>2. \A n \in In : m.nodes[n].id = l.nodes[n].id
        BY <1>1, <3>1, <3>15 DEF SameLinks
      <4>. QED BY <4>1, <4>2 DEF InBucket
    <3>19. ASSUME NEW a \in 0..size - 1 PROVE \E d : ChainIs(m, Out, a, d, size)
      <4>1. CASE a = b
        <5>1. PICK q : q = RemoveAt(c, i)
          OBVIOUS
        <5>2. Skips(i, c, l.table[b], CollissionOf(l), m.table[b], CollissionOf(m), NULL)
          <6>1. rest = CollissionOf(l)[c[i]]
            BY <2>7, <3>2 DEF CollissionOf
          <6>2. CASE i = 1
            BY <2>4, <3>2, <3>11, <3>13, <3>16, <6>1, <6>2 DEF Skips
          <6>3. CASE i # 1
            <7>1. m.table[b] = l.table[b]
              BY <2>2, <3>11, <3>13, <6>3
            <7>2. CollissionOf(m)[c[i - 1]] = CollissionOf(l)[c[i]]
              BY <3>5, <3>16, <6>1, <6>3
            <7>3. \A j \in 1..Len(c) : j # i - 1 => c[j] # before
              BY <3>2, <3>5, <3>6, <6>3, InjectiveFacts
            <7>. QED BY <2>4, <3>2, <3>16, <6>3, <7>1, <7>2, <7>3 DEF Skips
          <6>. QED BY <6>2, <6>3
        <5>3. /\ Leads(q, m.table[b], CollissionOf(m), NULL)
              /\ Range(q) = Range(c) \ {c[i]}
          BY <5>1, <5>2, SkipLeads
        <5>4. ChainIs(m, Out, a, q, size)
          BY <2>4, <3>18, <4>1, <5>3 DEF ChainIs
        <5>. QED BY <5>4
      <4>2. CASE a # b
        <5>1. PICK d : ChainIs(l, In, a, d, size)
          BY <1>1, <1>3 DEF Chained
        <5>2. Leads(d, l.table[a], CollissionOf(l), NULL)
              /\ Range(d) = InBucket(l, In, a, size)
          BY <5>1 DEF ChainIs
        <5>3. \A n \in Range(d) : n \in Node /\ n \notin Range(c)
          <6>1. \A n \in Range(d) : n \in In /\ l.nodes[n].id % size = a
            BY <5>2 DEF InBucket
          <6>2. \A n \in Range(c) : l.nodes[n].id % size = b
            BY <2>4 DEF InBucket
          <6>. QED BY <1>1, <3>1, <4>2, <6>1, <6>2
        <5>4. \A n \in Range(d) : CollissionOf(m)[n] = CollissionOf(l)[n]
          BY <3>6, <3>16, <5>3
        <5>5. m.table[a] = l.table[a]
          BY <3>11, <3>13, <4>2
        <5>6. Leads(d, m.table[a], CollissionOf(m), NULL)
          BY <5>2, <5>4, <5>5, SameLeads
        <5>7. c[i] \notin Range(d)
          BY <3>2, <5>3
        <5>8. ChainIs(m, Out, a, d, size)
          BY <3>18, <5>2, <5>6, <5>7 DEF ChainIs
        <5>. QED BY <5>8
      <4>. QED BY <4>1, <4>2
    <3>. QED BY <3>14, <3>15, <3>17, <3>19 DEF Chained, Unhashed
  <2>. QED BY <2>9, <2>10
<1>. QED BY <1>1, <1>2, <1>3

-----------------------------------------------------------------------------
(* Adding a node *)

\* The nodes In have their ids and are where they were in the table.
SameTable(l, m, In) ==
  /\ m.table = l.table
  /\ \A n \in In : /\ n \in Node /\ m.nodes[n].id = l.nodes[n].id
                   /\ m.nodes[n].hash_collission_next = l.nodes[n].hash_collission_next

LEMMA SameChains ==
  ASSUME NEW l, NEW m, NEW In, NEW size, SameTable(l, m, In), Chained(l, In, size)
  PROVE  Chained(m, In, size)
<1>. SUFFICES ASSUME size > 0, NEW b \in 0..size - 1
              PROVE  \E c : ChainIs(m, In, b, c, size)
  BY DEF Chained
<1>1. PICK c : ChainIs(l, In, b, c, size)
  BY DEF Chained
<1>2. Leads(c, l.table[b], CollissionOf(l), NULL) /\ Range(c) = InBucket(l, In, b, size)
  BY <1>1 DEF ChainIs
<1>3. \A n \in Range(c) : n \in Node /\ CollissionOf(m)[n] = CollissionOf(l)[n]
  BY <1>2 DEF SameTable, InBucket, CollissionOf
<1>4. Leads(c, l.table[b], CollissionOf(m), NULL)
  BY <1>2, <1>3, SameLeads
<1>5. m.table[b] = l.table[b] /\ InBucket(m, In, b, size) = InBucket(l, In, b, size)
  BY DEF SameTable, InBucket
<1>. QED BY <1>2, <1>4, <1>5 DEF ChainIs

\* The node ln is free, and a list with a table has no other of the id.
Fresh(l, p, ln, id, data, size) ==
  /\ GoodList(l, p, size) /\ size = hash_table_size
  /\ ln \in Node /\ l.nodes[ln] = NULL /\ id \in Ids /\ data \in Data
  /\ size > 0 => \A n \in Inside(l) : l.nodes[n].id # id

\* The nodes In have the ids and the data they had.
SameItems(l, m, In) ==
  \A n \in In : m.nodes[n].id = l.nodes[n].id /\ m.nodes[n].data = l.nodes[n].data

\* The node ln is linked into the path q, and not yet in the table.
Placed(l, k, q, ln, id, data, size) ==
  /\ ListTypes(k, size) /\ Linked(k, q) /\ k.nodes[Sentinel].data = NULL
  /\ SameTable(l, k, Inside(l)) /\ SameItems(l, k, Inside(l))
  /\ Inside(k) = Inside(l) \cup {ln}
  /\ k.nodes[ln].id = id /\ k.nodes[ln].data = data

\* The node ln is in the list as well.
Added(l, m, q, ln, id, data, size) ==
  /\ GoodList(m, q, size) /\ SameItems(l, m, Inside(l))
  /\ m.nodes[ln].id = id /\ m.nodes[ln].data = data

LEMMA AddGood ==
  ASSUME NEW l, NEW p, NEW k, NEW q, NEW ln, NEW id, NEW data, NEW size,
         Fresh(l, p, ln, id, data, size), Placed(l, k, q, ln, id, data, size),
         NEW m, m = ListAddToHashTable(k, ln)
  PROVE  Added(l, m, q, ln, id, data, size)
<1>1. /\ ListTypes(l, size) /\ size = hash_table_size /\ l.nodes[ln] = NULL
      /\ Chained(l, Inside(l), size) /\ UniqueIds(l, Inside(l), size)
      /\ ln \in Node
      /\ size > 0 => \A n \in Inside(l) : l.nodes[n].id # id
  BY DEF Fresh, GoodList
<1>2. /\ ListTypes(k, size) /\ Linked(k, q) /\ k.nodes[Sentinel].data = NULL
      /\ SameTable(l, k, Inside(l)) /\ SameItems(l, k, Inside(l))
      /\ Inside(k) = Inside(l) \cup {ln}
      /\ k.nodes[ln].id = id /\ k.nodes[ln].data = data
  BY DEF Placed
<1>3. InTable(k, Inside(l), size)
  BY <1>1, <1>2, SameChains DEF InTable
<1>4. ln \in Inside(k) /\ ln \notin Inside(l)
  BY <1>1, <1>2 DEF Inside
<1>5. ListTypes(m, size) /\ SameLinks(k, m) /\ Chained(m, Inside(k), size)
  BY <1>2, <1>3, <1>4, HashAdd
<1>6. \A n \in Inside(k) : n \in Nodes
  BY DEF Inside, Nodes
<1>7. UniqueIds(k, Inside(k), size)
  <2>. SUFFICES ASSUME size > 0, NEW m1 \in Inside(k), NEW m2 \in Inside(k),
                       k.nodes[m1].id = k.nodes[m2].id
                PROVE  m1 = m2
    BY DEF UniqueIds
  <2>1. \A n \in Inside(l) : k.nodes[n].id = l.nodes[n].id /\ l.nodes[n].id # id
    BY <1>1, <1>2 DEF SameItems
  <2>2. CASE m1 \in Inside(l) /\ m2 \in Inside(l)
    BY <1>1, <2>1, <2>2 DEF UniqueIds
  <2>3. CASE ~(m1 \in Inside(l) /\ m2 \in Inside(l))
    BY <1>2, <2>1, <2>3
  <2>. QED BY <2>2, <2>3
<1>8. UniqueIds(m, Inside(k), size) /\ Inside(m) = Inside(k) /\ Linked(m, q)
  <2>1. Inside(k) \in SUBSET Nodes
    BY <1>6
  <2>. QED BY <1>2, <1>5, <1>7, <2>1, SameLinksFacts
<1>9. m.nodes[Sentinel].data = NULL
  BY <1>2, <1>5 DEF SameLinks, Nodes
<1>10. GoodList(m, q, size)
  BY <1>5, <1>8, <1>9 DEF GoodList
<1>11. /\ SameItems(l, m, Inside(l))
       /\ m.nodes[ln].id = id /\ m.nodes[ln].data = data
  BY <1>2, <1>4, <1>5, <1>6 DEF SameItems, SameLinks
<1>. QED BY <1>10, <1>11 DEF Added

\* What is known of a list that is linked.
LEMMA LinkedFacts ==
  ASSUME NEW l, NEW p, Linked(l, p)
  PROVE  /\ p \in Seq(Node) /\ IsInjective(p) /\ Len(p) \in Nat
         /\ p = <<>> <=> Len(p) = 0
         /\ l.head = IF p = <<>> THEN Sentinel ELSE p[1]
         /\ \A i \in 1..Len(p) : /\ p[i] \in Inside(l) /\ p[i] \in Node
                                 /\ l.nodes[p[i]].next = IF i = Len(p) THEN Sentinel ELSE p[i + 1]
         /\ \A n \in Inside(l) : \E i \in 1..Len(p) : n = p[i]
<1>1. p \in Seq(Node) /\ IsInjective(p) /\ Range(p) = Inside(l)
  BY DEF Linked, Leads
<1>2. /\ Len(p) \in Nat /\ \A i \in 1..Len(p) : p[i] \in Node /\ p[i] \in Range(p)
      /\ Range(p) = {p[i] : i \in 1..Len(p)} /\ (p = <<>> <=> Len(p) = 0)
  BY <1>1, PathFacts
<1>3. \A n \in Node : NextOf(l)[n] = l.nodes[n].next
  BY DEF NextOf
<1>. QED BY <1>1, <1>2, <1>3 DEF Linked, Leads

\* What ListPush has done to a list before the table.
PushLinks(l, ln, id, data) ==
  [l EXCEPT !.nodes[ln] = [NewNode(id, data) EXCEPT !.next = l.head],
            !.nodes[l.head].prev = ln,
            !.head = ln]

LEMMA PushPlaced ==
  ASSUME NEW l, NEW p, NEW ln, NEW id, NEW data, NEW size, Fresh(l, p, ln, id, data, size),
         NEW k, k = PushLinks(l, ln, id, data)
  PROVE  Placed(l, k, <<ln>> \o p, ln, id, data, size)
<1>1. /\ ListTypes(l, size) /\ Linked(l, p) /\ l.nodes[Sentinel].data = NULL
      /\ ln \in Node /\ l.nodes[ln] = NULL /\ id \in Ids /\ data \in Data
  BY DEF Fresh, GoodList
<1>2. /\ l.head \in Nodes /\ l.nodes \in [Nodes -> NodeFields \cup {NULL}]
      /\ l = [head |-> l.head, nodes |-> l.nodes, table |-> l.table]
      /\ l.table \in [0..size - 1 -> Node \cup {NULL}] /\ size \in Nat
      /\ Sentinel \in Nodes /\ Sentinel \notin Node /\ NULL \notin Nodes
      /\ \A n \in Node : n \in Nodes
      /\ \A n \in Inside(l) : n \in Node /\ l.nodes[n] \in NodeFields
      /\ l.nodes[Sentinel] \in NodeFields
  BY <1>1, TypeFacts
<1>3. /\ p \in Seq(Node) /\ Len(p) \in Nat
      /\ l.head = IF p = <<>> THEN Sentinel ELSE p[1]
      /\ \A i \in 1..Len(p) : p[i] \in Inside(l) /\ p[i] \in Node
      /\ (p = <<>> <=> Len(p) = 0)
  BY <1>1, LinkedFacts
<1>4. PICK h, old, new, r : /\ h = l.head /\ old = l.nodes[h]
                            /\ new = [NewNode(id, data) EXCEPT !.next = h]
                            /\ r = [old EXCEPT !.prev = ln]
  OBVIOUS
<1>5. h \in Nodes /\ old \in NodeFields /\ h # ln
  <2>1. CASE p = <<>>
    BY <1>1, <1>2, <1>3, <1>4, <2>1
  <2>2. CASE p # <<>>
    <3>1. h \in Inside(l)
      BY <1>3, <1>4, <2>2
    <3>2. h # ln
      BY <1>1, <3>1 DEF Inside
    <3>. QED BY <1>2, <1>4, <3>1, <3>2
  <2>. QED BY <2>1, <2>2
<1>6. /\ new \in NodeFields /\ new.id = id /\ new.data = data /\ new.next = h
      /\ new # NULL
  <2>1. new = [id |-> id, data |-> data, next |-> h, prev |-> NULL,
               hash_collission_next |-> NULL]
    BY <1>4 DEF NewNode
  <2>2. new \in NodeFields
    BY <1>1, <1>5, <2>1, MakeFields
  <2>. QED BY <2>1, <2>2, FieldFacts
<1>7. /\ r \in NodeFields /\ r.id = old.id /\ r.data = old.data /\ r.next = old.next
      /\ r.prev = ln /\ r.hash_collission_next = old.hash_collission_next
      /\ r # NULL /\ old # NULL
  <2>1. old \in NodeFields /\ ln \in Nodes \cup {NULL}
    BY <1>1, <1>2, <1>5
  <2>2. r = [old EXCEPT !.prev = ln]
    BY <1>4
  <2>. QED BY <2>1, <2>2, SetPrev
<1>8. PICK N : N = [[l.nodes EXCEPT ![ln] = new] EXCEPT ![h] = r]
  OBVIOUS
<1>9. k = [head |-> ln, nodes |-> N, table |-> l.table]
  <2>1. PICK M : M = [l.nodes EXCEPT ![ln] = new]
    OBVIOUS
  <2>2. M[h] = old
    BY <1>2, <1>4, <1>5, <2>1
  <2>3. N = [M EXCEPT ![h] = [M[h] EXCEPT !.prev = ln]]
    BY <1>4, <1>8, <2>1, <2>2
  <2>4. k = [[[l EXCEPT !.nodes = M] EXCEPT !.nodes = [M EXCEPT ![h].prev = ln]]
              EXCEPT !.head = ln]
    BY <1>2, <1>4, <2>1 DEF PushLinks
  <2>. QED BY <1>2, <2>3, <2>4
<1>10. k.head = ln /\ k.nodes = N /\ k.table = l.table
  BY <1>9
<1>11. /\ N \in [Nodes -> NodeFields \cup {NULL}] /\ N[ln] = new /\ N[h] = r
       /\ \A n \in Nodes : n # ln /\ n # h => N[n] = l.nodes[n]
  BY <1>1, <1>2, <1>5, <1>6, <1>7, <1>8
<1>12. \A n \in Nodes : n # ln =>
         /\ N[n] = NULL <=> l.nodes[n] = NULL
         /\ N[n].id = l.nodes[n].id /\ N[n].data = l.nodes[n].data
         /\ N[n].next = l.nodes[n].next
         /\ N[n].hash_collission_next = l.nodes[n].hash_collission_next
         /\ n # h => N[n].prev = l.nodes[n].prev
  BY <1>4, <1>7, <1>11
<1>13. ListTypes(k, size)
  <2>1. N[Sentinel] # NULL
    BY <1>1, <1>2, <1>12 DEF ListTypes
  <2>. QED BY <1>1, <1>2, <1>9, <1>10, <1>11, <2>1 DEF ListTypes
<1>14. Inside(k) = Inside(l) \cup {ln} /\ ln \notin Inside(l)
  BY <1>1, <1>2, <1>6, <1>10, <1>11, <1>12 DEF Inside
<1>15. SameTable(l, k, Inside(l)) /\ SameItems(l, k, Inside(l))
  BY <1>2, <1>10, <1>12, <1>14 DEF SameTable, SameItems
<1>16. k.nodes[Sentinel].data = NULL
  BY <1>1, <1>2, <1>10, <1>12
<1>17. PICK q : q = <<ln>> \o p
  OBVIOUS
<1>18. Linked(k, q)
  <2>1. Leads(p, h, NextOf(l), Sentinel) /\ Range(p) = Inside(l)
    BY <1>1, <1>4 DEF Linked
  <2>2. \A n \in Node : NextOf(k)[n] = N[n].next /\ NextOf(l)[n] = l.nodes[n].next
    BY <1>10 DEF NextOf
  <2>3. \A n \in Range(p) : NextOf(k)[n] = NextOf(l)[n]
    BY <1>2, <1>12, <1>14, <2>1, <2>2
  <2>4. NextOf(k)[ln] = h
    BY <1>1, <1>6, <1>11, <2>2
  <2>5. Precedes(ln, p, h, NextOf(l), NextOf(k), Sentinel)
    BY <1>1, <1>14, <2>1, <2>3, <2>4 DEF Precedes
  <2>6. Leads(q, ln, NextOf(k), Sentinel) /\ Range(q) = Range(p) \cup {ln}
    BY <1>17, <2>5, PushLeads
  <2>7. /\ Len(q) = Len(p) + 1 /\ q[1] = ln
        /\ \A i \in 1..Len(p) : q[i + 1] = p[i]
    BY <1>1, <1>3, <1>17, PushedFacts
  <2>8. ASSUME NEW i \in 2..Len(q) PROVE k.nodes[q[i]].prev = q[i - 1]
    <3>1. i - 1 \in 1..Len(p) /\ q[i] = p[i - 1]
      <4>1. i - 1 \in 1..Len(p) /\ (i - 1) + 1 = i
        BY <1>3, <2>7
      <4>. QED BY <2>7, <4>1
    <3>2. p[i - 1] \in Nodes /\ p[i - 1] # ln
      BY <1>2, <1>3, <1>14, <3>1
    <3>3. CASE i = 2
      <4>1. p # <<>> /\ p[i - 1] = h
        BY <1>3, <1>4, <3>1, <3>3
      <4>. QED BY <1>7, <1>10, <1>11, <2>7, <3>1, <3>3, <4>1
    <3>4. CASE i # 2
      <4>1. i - 1 \in 2..Len(p) /\ i - 2 \in 1..Len(p) /\ (i - 2) + 1 = i - 1
            /\ (i - 1) - 1 = i - 2
        BY <1>3, <3>1, <3>4
      <4>2. l.nodes[p[i - 1]].prev = p[i - 2] /\ q[i - 1] = p[i - 2]
        BY <1>1, <2>7, <4>1 DEF Linked
      <4>3. p[i - 1] # h
        <5>1. p # <<>> /\ h = p[1] /\ 1 \in 1..Len(p) /\ i - 1 # 1
          BY <1>3, <1>4, <3>1, <3>4
        <5>2. IsInjective(p)
          BY <1>1, LinkedFacts
        <5>. QED BY <1>3, <3>1, <5>1, <5>2, InjectiveFacts
      <4>. QED BY <1>10, <1>12, <3>1, <3>2, <4>2, <4>3
    <3>. QED BY <3>3, <3>4
  <2>9. k.nodes[Sentinel].prev = q[Len(q)]
    <3>1. CASE p = <<>>
      <4>1. h = Sentinel /\ Len(q) = 1
        BY <1>3, <1>4, <2>7, <3>1
      <4>. QED BY <1>7, <1>10, <1>11, <2>7, <4>1
    <3>2. CASE p # <<>>
      <4>1. l.nodes[Sentinel].prev = p[Len(p)] /\ Len(p) \in 1..Len(p)
        BY <1>1, <1>3, <3>2 DEF Linked
      <4>2. h \in Node
        BY <1>3, <1>4, <3>2
      <4>3. k.nodes[Sentinel].prev = l.nodes[Sentinel].prev
        BY <1>1, <1>2, <1>10, <1>12, <4>2
      <4>. QED BY <2>7, <4>1, <4>3
    <3>. QED BY <3>1, <3>2
  <2>. QED BY <1>10, <1>14, <2>1, <2>6, <2>8, <2>9 DEF Linked
<1>. QED BY <1>6, <1>10, <1>11, <1>13, <1>14, <1>15, <1>16, <1>17, <1>18 DEF Placed

LEMMA PushAdds ==
  ASSUME NEW l, NEW p, NEW ln, NEW id, NEW data, NEW size, Fresh(l, p, ln, id, data, size)
  PROVE  Added(l, ListPush(l, ln, id, data), <<ln>> \o p, ln, id, data, size)
<1>1. PICK k : k = PushLinks(l, ln, id, data)
  OBVIOUS
<1>2. Placed(l, k, <<ln>> \o p, ln, id, data, size)
  BY <1>1, PushPlaced
<1>. QED BY <1>1, <1>2, AddGood DEF ListPush, PushLinks

\* What ListAppend has done to a list that is not empty before the table.
AppendLinks(l, ln, id, data) ==
  LET last == l.nodes[Sentinel].prev IN
  [l EXCEPT !.nodes[ln] = [NewNode(id, data) EXCEPT !.prev = last, !.next = Sentinel],
            !.nodes[last].next = ln,
            !.nodes[Sentinel].prev = ln]

LEMMA AppendPlaced ==
  ASSUME NEW l, NEW p, NEW ln, NEW id, NEW data, NEW size, Fresh(l, p, ln, id, data, size),
         p # <<>>, NEW k, k = AppendLinks(l, ln, id, data)
  PROVE  Placed(l, k, Append(p, ln), ln, id, data, size)
<1>1. /\ ListTypes(l, size) /\ Linked(l, p) /\ l.nodes[Sentinel].data = NULL
      /\ ln \in Node /\ l.nodes[ln] = NULL /\ id \in Ids /\ data \in Data
  BY DEF Fresh, GoodList
<1>2. /\ l.head \in Nodes /\ l.nodes \in [Nodes -> NodeFields \cup {NULL}]
      /\ l = [head |-> l.head, nodes |-> l.nodes, table |-> l.table]
      /\ l.table \in [0..size - 1 -> Node \cup {NULL}] /\ size \in Nat
      /\ Sentinel \in Nodes /\ Sentinel \notin Node /\ NULL \notin Nodes
      /\ \A n \in Node : n \in Nodes
      /\ \A n \in Inside(l) : n \in Node /\ l.nodes[n] \in NodeFields
      /\ l.nodes[Sentinel] \in NodeFields
  BY <1>1, TypeFacts
<1>3. /\ p \in Seq(Node) /\ IsInjective(p) /\ Len(p) \in Nat /\ Len(p) \in 1..Len(p)
      /\ l.head = p[1]
      /\ \A i \in 1..Len(p) : p[i] \in Inside(l) /\ p[i] \in Node
  BY <1>1, LinkedFacts
<1>4. PICK last, old, new, r, s, t : /\ last = p[Len(p)] /\ old = l.nodes[last]
        /\ new = [NewNode(id, data) EXCEPT !.prev = last, !.next = Sentinel]
        /\ r = [old EXCEPT !.next = ln]
        /\ s = l.nodes[Sentinel] /\ t = [s EXCEPT !.prev = ln]
  OBVIOUS
<1>5. /\ last \in Node /\ last \in Nodes /\ old \in NodeFields /\ last # ln
      /\ last # Sentinel /\ s \in NodeFields /\ l.nodes[Sentinel].prev = last
      /\ ln # Sentinel /\ ln \in Nodes
  <2>1. last \in Inside(l) /\ l.nodes[Sentinel].prev = last
    BY <1>1, <1>3, <1>4 DEF Linked
  <2>2. last # ln
    BY <1>1, <2>1 DEF Inside
  <2>. QED BY <1>1, <1>2, <1>4, <2>1, <2>2
<1>6. /\ new \in NodeFields /\ new.id = id /\ new.data = data /\ new.next = Sentinel
      /\ new.prev = last /\ new # NULL
  <2>1. new = [id |-> id, data |-> data, next |-> Sentinel, prev |-> last,
               hash_collission_next |-> NULL]
    BY <1>4 DEF NewNode
  <2>2. new \in NodeFields
    BY <1>1, <1>2, <1>5, <2>1, MakeFields
  <2>. QED BY <2>1, <2>2, FieldFacts
<1>7. /\ r \in NodeFields /\ r.id = old.id /\ r.data = old.data /\ r.next = ln
      /\ r.prev = old.prev /\ r.hash_collission_next = old.hash_collission_next
      /\ r # NULL /\ old # NULL
  <2>1. old \in NodeFields /\ ln \in Nodes \cup {NULL}
    BY <1>5
  <2>2. r = [old EXCEPT !.next = ln]
    BY <1>4
  <2>. QED BY <2>1, <2>2, SetNext
<1>8. /\ t \in NodeFields /\ t.id = s.id /\ t.data = s.data /\ t.next = s.next
      /\ t.prev = ln /\ t.hash_collission_next = s.hash_collission_next
      /\ t # NULL /\ s # NULL
  <2>1. s \in NodeFields /\ ln \in Nodes \cup {NULL}
    BY <1>5
  <2>2. t = [s EXCEPT !.prev = ln]
    BY <1>4
  <2>. QED BY <2>1, <2>2, SetPrev
<1>9. PICK L, M, N : /\ L = [l.nodes EXCEPT ![ln] = new]
                     /\ M = [L EXCEPT ![last] = r] /\ N = [M EXCEPT ![Sentinel] = t]
  OBVIOUS
<1>10. /\ L[last] = old /\ M[Sentinel] = s
       /\ M = [L EXCEPT ![last].next = ln] /\ N = [M EXCEPT ![Sentinel].prev = ln]
  <2>1. L[last] = old
    BY <1>2, <1>4, <1>5, <1>9
  <2>2. M[Sentinel] = s
    BY <1>2, <1>4, <1>5, <1>9
  <2>. QED BY <1>4, <1>9, <2>1, <2>2
<1>11. k = [head |-> l.head, nodes |-> N, table |-> l.table]
  <2>1. k = [[[l EXCEPT !.nodes = L] EXCEPT !.nodes = M] EXCEPT !.nodes = N]
    <3>1. k = [l EXCEPT !.nodes[ln] = new, !.nodes[last].next = ln, !.nodes[Sentinel].prev = ln]
      BY <1>4, <1>5 DEF AppendLinks
    <3>2. PICK k1, k2 : k1 = [l EXCEPT !.nodes = L] /\ k2 = [k1 EXCEPT !.nodes = M]
      OBVIOUS
    <3>3. k1.nodes = L /\ k2.nodes = M
      BY <1>2, <3>2
    <3>4. k1 = [l EXCEPT !.nodes[ln] = new]
      BY <1>2, <1>9, <3>2
    <3>5. k2 = [k1 EXCEPT !.nodes[last].next = ln]
      BY <1>10, <3>2, <3>3
    <3>6. [k2 EXCEPT !.nodes = N] = [k2 EXCEPT !.nodes[Sentinel].prev = ln]
      BY <1>10, <3>3
    <3>. QED BY <3>1, <3>2, <3>4, <3>5, <3>6
  <2>. QED BY <1>2, <2>1
<1>12. k.head = l.head /\ k.nodes = N /\ k.table = l.table
  BY <1>11
<1>13. /\ N \in [Nodes -> NodeFields \cup {NULL}]
       /\ N[ln] = new /\ N[last] = r /\ N[Sentinel] = t
       /\ \A n \in Nodes : n # ln /\ n # last /\ n # Sentinel => N[n] = l.nodes[n]
  <2>1. L \in [Nodes -> NodeFields \cup {NULL}] /\ L[ln] = new
        /\ \A n \in Nodes : n # ln => L[n] = l.nodes[n]
    BY <1>2, <1>5, <1>6, <1>9
  <2>2. /\ M \in [Nodes -> NodeFields \cup {NULL}] /\ M[last] = r
        /\ \A n \in Nodes : n # last => M[n] = L[n]
    BY <1>5, <1>7, <1>9, <2>1
  <2>3. /\ N \in [Nodes -> NodeFields \cup {NULL}] /\ N[Sentinel] = t
        /\ \A n \in Nodes : n # Sentinel => N[n] = M[n]
    BY <1>2, <1>8, <1>9, <2>2
  <2>. QED BY <1>5, <2>1, <2>2, <2>3
<1>14. \A n \in Nodes : n # ln =>
         /\ N[n] = NULL <=> l.nodes[n] = NULL
         /\ N[n].id = l.nodes[n].id /\ N[n].data = l.nodes[n].data
         /\ n # Sentinel => N[n].prev = l.nodes[n].prev
         /\ N[n].hash_collission_next = l.nodes[n].hash_collission_next
         /\ n # last => N[n].next = l.nodes[n].next
  <2>1. ASSUME NEW n \in Nodes, n # ln
        PROVE  /\ N[n] = NULL <=> l.nodes[n] = NULL
               /\ N[n].id = l.nodes[n].id /\ N[n].data = l.nodes[n].data
               /\ n # Sentinel => N[n].prev = l.nodes[n].prev
               /\ N[n].hash_collission_next = l.nodes[n].hash_collission_next
               /\ n # last => N[n].next = l.nodes[n].next
    <3>1. CASE n = last
      BY <1>4, <1>7, <1>13, <3>1
    <3>2. CASE n = Sentinel
      BY <1>4, <1>8, <1>13, <3>2
    <3>3. CASE n # last /\ n # Sentinel
      BY <1>13, <2>1, <3>3
    <3>. QED BY <3>1, <3>2, <3>3
  <2>. QED BY <2>1
<1>15. ListTypes(k, size)
  BY <1>1, <1>2, <1>8, <1>11, <1>12, <1>13 DEF ListTypes
<1>16. Inside(k) = Inside(l) \cup {ln} /\ ln \notin Inside(l)
  BY <1>1, <1>2, <1>6, <1>12, <1>13, <1>14 DEF Inside
<1>17. SameTable(l, k, Inside(l)) /\ SameItems(l, k, Inside(l))
  BY <1>2, <1>12, <1>14, <1>16 DEF SameTable, SameItems
<1>18. k.nodes[Sentinel].data = NULL
  BY <1>1, <1>4, <1>8, <1>12, <1>13
<1>19. PICK q : q = Append(p, ln)
  OBVIOUS
<1>20. Linked(k, q)
  <2>1. Leads(p, l.head, NextOf(l), Sentinel) /\ Range(p) = Inside(l)
    BY <1>1 DEF Linked
  <2>2. \A n \in Node : NextOf(k)[n] = N[n].next /\ NextOf(l)[n] = l.nodes[n].next
    BY <1>12 DEF NextOf
  <2>3. \A n \in Range(p) \ {last} : NextOf(k)[n] = NextOf(l)[n]
    BY <1>2, <1>14, <1>16, <2>1, <2>2
  <2>4. NextOf(k)[ln] = Sentinel /\ NextOf(k)[last] = ln
    BY <1>1, <1>5, <1>6, <1>7, <1>13, <2>2
  <2>5. Follows(ln, p, l.head, NextOf(l), NextOf(k), Sentinel)
    BY <1>1, <1>4, <1>16, <2>1, <2>3, <2>4 DEF Follows
  <2>6. Leads(q, l.head, NextOf(k), Sentinel) /\ Range(q) = Range(p) \cup {ln}
    BY <1>19, <2>5, AppendLeads
  <2>7. /\ Len(q) = Len(p) + 1 /\ q[Len(p) + 1] = ln
        /\ \A i \in 1..Len(p) : q[i] = p[i]
    BY <1>1, <1>3, <1>19, AppendProperties
  <2>8. ASSUME NEW i \in 2..Len(q) PROVE k.nodes[q[i]].prev = q[i - 1]
    <3>1. i - 1 \in 1..Len(p) /\ q[i - 1] = p[i - 1]
      <4>1. i - 1 \in 1..Len(p)
        BY <1>3, <2>7
      <4>. QED BY <2>7, <4>1
    <3>2. CASE i = Len(p) + 1
      <4>1. q[i] = ln /\ q[i - 1] = last
        <5>1. i - 1 = Len(p)
          BY <1>3, <3>2
        <5>. QED BY <1>4, <2>7, <3>1, <3>2, <5>1
      <4>. QED BY <1>6, <1>12, <1>13, <4>1
    <3>3. CASE i # Len(p) + 1
      <4>1. i \in 2..Len(p) /\ i \in 1..Len(p)
        BY <1>3, <2>7, <3>3
      <4>2. q[i] = p[i] /\ p[i] \in Nodes /\ p[i] # ln /\ p[i] # Sentinel
        BY <1>2, <1>3, <1>16, <2>7, <4>1
      <4>3. l.nodes[p[i]].prev = p[i - 1]
        BY <1>1, <4>1 DEF Linked
      <4>. QED BY <1>12, <1>14, <3>1, <4>2, <4>3
    <3>. QED BY <3>2, <3>3
  <2>9. k.nodes[Sentinel].prev = q[Len(q)]
    BY <1>8, <1>12, <1>13, <2>7
  <2>. QED BY <1>12, <1>16, <2>1, <2>6, <2>8, <2>9 DEF Linked
<1>. QED BY <1>6, <1>12, <1>13, <1>15, <1>16, <1>17, <1>18, <1>19, <1>20 DEF Placed

LEMMA AppendAdds ==
  ASSUME NEW l, NEW p, NEW ln, NEW id, NEW data, NEW size, Fresh(l, p, ln, id, data, size)
  PROVE  Added(l, ListAppend(l, ln, id, data), Append(p, ln), ln, id, data, size)
<1>1. /\ p \in Seq(Node) /\ l.head = IF p = <<>> THEN Sentinel ELSE p[1]
      /\ p # <<>> => p[1] # Sentinel
      /\ ln \in Node
  <2>1. Linked(l, p) /\ ln \in Node
    BY DEF Fresh, GoodList
  <2>2. p # <<>> => 1 \in 1..Len(p)
    BY <2>1, LinkedFacts
  <2>. QED BY <2>1, <2>2, LinkedFacts, ListAssumption
<1>2. CASE p = <<>>
  <2>1. ListAppend(l, ln, id, data) = ListPush(l, ln, id, data)
    BY <1>1, <1>2 DEF ListAppend, ListEmpty
  <2>2. Append(p, ln) = <<ln>> \o p
    BY <1>1, <1>2
  <2>. QED BY <2>1, <2>2, PushAdds
<1>3. CASE p # <<>>
  <2>1. PICK k : k = AppendLinks(l, ln, id, data)
    OBVIOUS
  <2>2. Placed(l, k, Append(p, ln), ln, id, data, size)
    BY <1>3, <2>1, AppendPlaced
  <2>3. ListAppend(l, ln, id, data) = ListAddToHashTable(k, ln)
    BY <1>1, <1>3, <2>1 DEF ListAppend, ListEmpty, AppendLinks
  <2>. QED BY <2>2, <2>3, AddGood
<1>. QED BY <1>2, <1>3

-----------------------------------------------------------------------------
(* Removing a node *)

\* The list u is m without the i-th node of the path p.
Drops(m, u, p, i, size) ==
  LET after == m.nodes[p[i]].next IN
  /\ ListTypes(u, size) /\ u.table = m.table /\ u.nodes[p[i]] = NULL
  /\ \A n \in Nodes : n # p[i] =>
       /\ u.nodes[n] = NULL <=> m.nodes[n] = NULL
       /\ u.nodes[n].id = m.nodes[n].id /\ u.nodes[n].data = m.nodes[n].data
       /\ u.nodes[n].hash_collission_next = m.nodes[n].hash_collission_next
  /\ IF i = 1 THEN u.head = after ELSE u.head = m.head /\ u.nodes[p[i - 1]].next = after
  /\ \A j \in 1..Len(p) : j # i /\ j # i - 1 => u.nodes[p[j]].next = m.nodes[p[j]].next
  /\ i > 1 => u.nodes[after].prev = p[i - 1]
  /\ \A n \in Nodes : n # p[i] /\ n # after => u.nodes[n].prev = m.nodes[n].prev

\* What a node can be taken out of, after its entry in the table or with it.
Cuttable(l, p, In, i, size) ==
  /\ ListTypes(l, size) /\ size = hash_table_size /\ Linked(l, p) /\ i \in 1..Len(p)
  /\ In \subseteq Inside(l) /\ Inside(l) \ {p[i]} \subseteq In
  /\ Chained(l, In, size) /\ UniqueIds(l, Inside(l), size)
  /\ l.nodes[Sentinel].data = NULL

LEMMA CutHash ==
  ASSUME NEW l, NEW p, NEW In, NEW i, NEW size, Cuttable(l, p, In, i, size),
         NEW m, m = ListRemoveFromHashTable(l, l.nodes[p[i]].id)
  PROVE  Cuttable(m, p, Inside(m) \ {p[i]}, i, size) /\ SameLinks(l, m)
<1>1. /\ ListTypes(l, size) /\ size = hash_table_size /\ Linked(l, p) /\ i \in 1..Len(p)
      /\ In \subseteq Inside(l) /\ Inside(l) \ {p[i]} \subseteq In
      /\ Chained(l, In, size) /\ UniqueIds(l, Inside(l), size)
      /\ l.nodes[Sentinel].data = NULL
  BY DEF Cuttable
<1>2. PICK id : id = l.nodes[p[i]].id
  OBVIOUS
<1>3. p[i] \in Inside(l) /\ id \in Nat
  <2>1. p[i] \in Inside(l)
    BY <1>1, LinkedFacts
  <2>2. l.nodes[p[i]] \in NodeFields
    BY <1>1, <2>1, TypeFacts
  <2>. QED BY <1>2, <2>1, <2>2, FieldFacts
<1>4. InTable(l, In, size) /\ UniqueIds(l, In, size)
  BY <1>1 DEF InTable, UniqueIds
<1>5. /\ ListTypes(m, size) /\ SameLinks(l, m)
      /\ Chained(m, {n \in In : l.nodes[n].id # id}, size)
  <2>1. m = ListRemoveFromHashTable(l, id)
    BY <1>2
  <2>2. Unhashed(l, m, In, id, size)
    BY <1>3, <1>4, <2>1, HashRemove
  <2>. QED BY <2>2 DEF Unhashed
<1>6. Inside(m) = Inside(l) /\ Linked(m, p) /\ UniqueIds(m, Inside(l), size)
  <2>1. Inside(l) \in SUBSET Nodes
    BY DEF Inside, Nodes
  <2>. QED BY <1>1, <1>5, <2>1, SameLinksFacts
<1>7. Chained(m, Inside(m) \ {p[i]}, size)
  <2>1. CASE size > 0
    <3>1. {n \in In : l.nodes[n].id # id} = Inside(l) \ {p[i]}
      BY <1>1, <1>2, <1>3, <2>1 DEF UniqueIds
    <3>. QED BY <1>5, <1>6, <3>1
  <2>2. CASE ~(size > 0)
    BY <2>2 DEF Chained
  <2>. QED BY <2>1, <2>2
<1>8. m.nodes[Sentinel].data = NULL
  BY <1>1, <1>5 DEF SameLinks, Nodes
<1>. QED BY <1>1, <1>5, <1>6, <1>7, <1>8 DEF Cuttable

LEMMA DropLinked ==
  ASSUME NEW m, NEW u, NEW p, NEW i, NEW size, Linked(m, p), i \in 1..Len(p),
         Drops(m, u, p, i, size)
  PROVE  Linked(u, RemoveAt(p, i)) /\ Inside(u) = Inside(m) \ {p[i]}
<1>1. PICK after : after = m.nodes[p[i]].next
  OBVIOUS
<1>2. /\ u.nodes[p[i]] = NULL
      /\ \A n \in Nodes : n # p[i] => (u.nodes[n] = NULL <=> m.nodes[n] = NULL)
      /\ IF i = 1 THEN u.head = after ELSE u.head = m.head /\ u.nodes[p[i - 1]].next = after
      /\ \A j \in 1..Len(p) : j # i /\ j # i - 1 => u.nodes[p[j]].next = m.nodes[p[j]].next
      /\ i > 1 => u.nodes[after].prev = p[i - 1]
      /\ \A n \in Nodes : n # p[i] /\ n # after => u.nodes[n].prev = m.nodes[n].prev
  BY <1>1 DEF Drops
<1>3. /\ p \in Seq(Node) /\ IsInjective(p) /\ Len(p) \in Nat
      /\ m.head = IF p = <<>> THEN Sentinel ELSE p[1]
      /\ \A j \in 1..Len(p) : p[j] \in Inside(m) /\ p[j] \in Node /\ p[j] \in Nodes
      /\ Leads(p, m.head, NextOf(m), Sentinel) /\ Range(p) = Inside(m)
      /\ \A j \in 2..Len(p) : m.nodes[p[j]].prev = p[j - 1]
      /\ m.nodes[Sentinel].prev = p[Len(p)]
  <2>1. p # <<>>
    BY LinkedFacts
  <2>. QED BY <2>1, LinkedFacts DEF Linked, Nodes
<1>4. after = IF i = Len(p) THEN Sentinel ELSE p[i + 1]
  BY <1>1, LinkedFacts
<1>5. \A j, k \in 1..Len(p) : p[j] = p[k] => j = k
  BY <1>3, InjectiveFacts
<1>6. \A n \in Node : /\ n \in Nodes /\ NextOf(m)[n] = m.nodes[n].next
                      /\ NextOf(u)[n] = u.nodes[n].next
  BY DEF NextOf, Nodes
<1>7. Skips(i, p, m.head, NextOf(m), u.head, NextOf(u), Sentinel)
  <2>1. i # 1 => i - 1 \in 1..Len(p)
    BY <1>3
  <2>2. 1 \in 1..Len(p)
    BY <1>3
  <2>3. IF i = 1 THEN u.head = NextOf(m)[p[1]]
        ELSE u.head = m.head /\ NextOf(u)[p[i - 1]] = NextOf(m)[p[i]]
    BY <1>1, <1>2, <1>3, <1>6, <2>1, <2>2
  <2>. QED BY <1>2, <1>3, <1>6, <2>3 DEF Skips
<1>8. PICK q : q = RemoveAt(p, i)
  OBVIOUS
<1>9. Leads(q, u.head, NextOf(u), Sentinel) /\ Range(q) = Range(p) \ {p[i]}
  BY <1>7, <1>8, SkipLeads
<1>10. /\ Len(q) = Len(p) - 1 /\ Len(q) \in Nat /\ q \in Seq(Node)
       /\ \A j \in 1..Len(q) : q[j] = IF j < i THEN p[j] ELSE p[j + 1]
  BY <1>3, <1>8, RemoveAtFacts
<1>11. Inside(u) = Inside(m) \ {p[i]}
  BY <1>2, <1>6 DEF Inside
<1>12. Sentinel \in Nodes /\ Sentinel \notin Node
  BY ListAssumption DEF Nodes
<1>13. ASSUME NEW j \in 2..Len(q) PROVE u.nodes[q[j]].prev = q[j - 1]
  <2>1. /\ j \in 1..Len(q) /\ j - 1 \in 1..Len(q)
        /\ j \in 2..Len(p) /\ j \in 1..Len(p) /\ j + 1 \in 2..Len(p) /\ j + 1 \in 1..Len(p)
        /\ (j - 1) + 1 = j /\ (j + 1) - 1 = j
    BY <1>3, <1>10
  <2>2. CASE j < i
    <3>1. j - 1 < i /\ j # i /\ j # i + 1
      BY <2>1, <2>2
    <3>2. q[j] = p[j] /\ q[j - 1] = p[j - 1] /\ m.nodes[p[j]].prev = p[j - 1]
      BY <1>3, <1>10, <2>1, <2>2, <3>1
    <3>3. p[j] # p[i] /\ p[j] # after
      <4>1. i # Len(p) => i + 1 \in 1..Len(p)
        BY <1>3
      <4>. QED BY <1>3, <1>4, <1>5, <1>12, <2>1, <3>1, <4>1
    <3>. QED BY <1>2, <1>3, <2>1, <3>2, <3>3
  <2>3. CASE j = i
    <3>1. i > 1 /\ i # Len(p) /\ ~(j < i) /\ j - 1 < i
      BY <1>3, <1>10, <2>1, <2>3
    <3>2. q[j] = after /\ q[j - 1] = p[i - 1]
      BY <1>4, <1>10, <2>1, <2>3, <3>1
    <3>. QED BY <1>2, <3>1, <3>2
  <2>4. CASE j > i
    <3>1. ~(j < i) /\ ~(j - 1 < i) /\ j + 1 # i /\ j + 1 # i + 1
      BY <2>1, <2>4
    <3>2. q[j] = p[j + 1] /\ q[j - 1] = p[j]
      BY <1>10, <2>1, <3>1
    <3>3. m.nodes[p[j + 1]].prev = p[j]
      BY <1>3, <2>1
    <3>4. p[j + 1] # p[i] /\ p[j + 1] # after
      <4>1. i # Len(p) => i + 1 \in 1..Len(p)
        BY <1>3
      <4>. QED BY <1>3, <1>4, <1>5, <1>12, <2>1, <3>1, <4>1
    <3>. QED BY <1>2, <1>3, <2>1, <3>2, <3>3, <3>4
  <2>. QED BY <2>1, <2>2, <2>3, <2>4
<1>14. ASSUME q # <<>> PROVE u.nodes[Sentinel].prev = q[Len(q)]
  <2>1. Len(q) # 0 /\ Len(q) \in 1..Len(q)
    BY <1>10, <1>14, PathFacts
  <2>2. CASE i = Len(p)
    <3>1. i > 1 /\ Len(q) < i /\ Len(q) = i - 1
      BY <1>3, <1>10, <2>1, <2>2
    <3>. QED BY <1>2, <1>4, <1>10, <2>1, <2>2, <3>1
  <2>3. CASE i # Len(p)
    <3>1. ~(Len(q) < i) /\ Len(q) + 1 = Len(p) /\ i + 1 \in 1..Len(p)
      BY <1>3, <1>10, <2>3
    <3>2. q[Len(q)] = p[Len(p)]
      BY <1>10, <2>1, <3>1
    <3>3. Sentinel # p[i] /\ Sentinel # after
      BY <1>3, <1>4, <1>12, <2>3, <3>1
    <3>. QED BY <1>2, <1>3, <1>12, <3>2, <3>3
  <2>. QED BY <2>2, <2>3
<1>. QED BY <1>3, <1>8, <1>9, <1>11, <1>13, <1>14 DEF Linked

\* The list u is l without the i-th node of the path p, and as good.
Removed(l, u, p, i, size) ==
  GoodList(u, RemoveAt(p, i), size) /\ SameItems(l, u, Inside(l) \ {p[i]})

LEMMA DropGood ==
  ASSUME NEW m, NEW u, NEW p, NEW i, NEW size, Cuttable(m, p, Inside(m) \ {p[i]}, i, size),
         Drops(m, u, p, i, size)
  PROVE  Removed(m, u, p, i, size)
<1>1. /\ Linked(m, p) /\ i \in 1..Len(p)
      /\ Chained(m, Inside(m) \ {p[i]}, size) /\ UniqueIds(m, Inside(m), size)
      /\ m.nodes[Sentinel].data = NULL
  BY DEF Cuttable
<1>2. /\ ListTypes(u, size) /\ u.table = m.table
      /\ \A n \in Nodes : n # p[i] =>
           /\ u.nodes[n].id = m.nodes[n].id /\ u.nodes[n].data = m.nodes[n].data
           /\ u.nodes[n].hash_collission_next = m.nodes[n].hash_collission_next
  BY DEF Drops
<1>3. Linked(u, RemoveAt(p, i)) /\ Inside(u) = Inside(m) \ {p[i]}
  BY <1>1, DropLinked
<1>4. \A n \in Inside(u) : n \in Node /\ n \in Nodes /\ n # p[i]
  BY <1>3 DEF Inside, Nodes
<1>5. SameTable(m, u, Inside(u)) /\ SameItems(m, u, Inside(u))
  BY <1>2, <1>4 DEF SameTable, SameItems
<1>6. Chained(u, Inside(u), size)
  BY <1>1, <1>3, <1>5, SameChains
<1>7. UniqueIds(u, Inside(u), size)
  BY <1>1, <1>3, <1>5 DEF UniqueIds, SameItems
<1>8. u.nodes[Sentinel].data = NULL
  <2>1. Sentinel \in Nodes /\ Sentinel # p[i]
    <3>1. p[i] \in Node
      BY <1>1, LinkedFacts
    <3>. QED BY <3>1, ListAssumption DEF Nodes
  <2>. QED BY <1>1, <1>2, <2>1
<1>. QED BY <1>2, <1>3, <1>5, <1>6, <1>7, <1>8 DEF Removed, GoodList

\* What is known of a node that is taken out.
LEMMA CutFacts ==
  ASSUME NEW m, NEW p, NEW In, NEW i, NEW size, Cuttable(m, p, In, i, size)
  PROVE  /\ m.head \in Nodes /\ m.nodes \in [Nodes -> NodeFields \cup {NULL}]
         /\ m = [head |-> m.head, nodes |-> m.nodes, table |-> m.table]
         /\ m.table \in [0..size - 1 -> Node \cup {NULL}] /\ size \in Nat
         /\ m.nodes[Sentinel] # NULL
         /\ Sentinel \in Nodes /\ Sentinel \notin Node /\ NULL \notin Nodes
         /\ p \in Seq(Node) /\ Len(p) \in Nat /\ i \in 1..Len(p) /\ m.head = p[1]
         /\ \A j \in 1..Len(p) : /\ p[j] \in Node /\ p[j] \in Nodes
                                 /\ m.nodes[p[j]] \in NodeFields
         /\ \A j, k \in 1..Len(p) : p[j] = p[k] => j = k
         /\ m.nodes[p[i]].next = IF i = Len(p) THEN Sentinel ELSE p[i + 1]
         /\ m.nodes[p[i]].next \in Nodes /\ m.nodes[p[i]].next # p[i]
         /\ m.nodes[m.nodes[p[i]].next] \in NodeFields
         /\ i > 1 => /\ m.nodes[p[i]].prev = p[i - 1] /\ i - 1 \in 1..Len(p)
                     /\ p[i - 1] # p[i] /\ p[i - 1] # m.nodes[p[i]].next
<1>1. ListTypes(m, size) /\ Linked(m, p) /\ i \in 1..Len(p)
  BY DEF Cuttable
<1>2. /\ m.head \in Nodes /\ m.nodes \in [Nodes -> NodeFields \cup {NULL}]
      /\ m = [head |-> m.head, nodes |-> m.nodes, table |-> m.table]
      /\ m.table \in [0..size - 1 -> Node \cup {NULL}] /\ size \in Nat
      /\ Sentinel \in Nodes /\ Sentinel \notin Node /\ NULL \notin Nodes
      /\ \A n \in Node : n \in Nodes
      /\ \A n \in Inside(m) : m.nodes[n] \in NodeFields
      /\ m.nodes[Sentinel] \in NodeFields
  BY <1>1, TypeFacts
<1>3. /\ p \in Seq(Node) /\ IsInjective(p) /\ Len(p) \in Nat /\ p # <<>> /\ m.head = p[1]
      /\ \A j \in 1..Len(p) : /\ p[j] \in Inside(m) /\ p[j] \in Node
                              /\ m.nodes[p[j]].next = IF j = Len(p) THEN Sentinel ELSE p[j + 1]
  <2>1. /\ p \in Seq(Node) /\ IsInjective(p) /\ Len(p) \in Nat
        /\ (p = <<>> <=> Len(p) = 0)
        /\ m.head = IF p = <<>> THEN Sentinel ELSE p[1]
        /\ \A j \in 1..Len(p) : /\ p[j] \in Inside(m) /\ p[j] \in Node
                                /\ m.nodes[p[j]].next = IF j = Len(p) THEN Sentinel ELSE p[j + 1]
    BY <1>1, LinkedFacts
  <2>2. Len(p) # 0
    BY <1>1, <2>1
  <2>. QED BY <2>1, <2>2
<1>4. \A j, k \in 1..Len(p) : p[j] = p[k] => j = k
  BY <1>3, InjectiveFacts
<1>5. m.nodes[Sentinel] # NULL
  BY <1>1 DEF ListTypes
<1>6. PICK after : after = m.nodes[p[i]].next
  OBVIOUS
<1>7. /\ after = IF i = Len(p) THEN Sentinel ELSE p[i + 1]
      /\ after \in Nodes /\ after # p[i] /\ m.nodes[after] \in NodeFields
  <2>1. after = IF i = Len(p) THEN Sentinel ELSE p[i + 1]
    BY <1>1, <1>3, <1>6
  <2>2. i # Len(p) => i + 1 \in 1..Len(p) /\ i + 1 # i
    BY <1>1, <1>3
  <2>3. CASE i = Len(p)
    <3>1. after = Sentinel
      BY <2>1, <2>3
    <3>2. p[i] \in Node
      BY <1>1, <1>3
    <3>. QED BY <1>2, <2>1, <3>1, <3>2
  <2>4. CASE i # Len(p)
    <3>1. after = p[i + 1] /\ i + 1 \in 1..Len(p)
      BY <2>1, <2>2, <2>4
    <3>2. after \in Inside(m) /\ after \in Node
      BY <1>3, <3>1
    <3>3. after # p[i]
      BY <1>1, <1>4, <2>2, <2>4, <3>1
    <3>. QED BY <1>2, <2>1, <3>2, <3>3
  <2>. QED BY <2>3, <2>4
<1>8. ASSUME i > 1
      PROVE  m.nodes[p[i]].prev = p[i - 1] /\ i - 1 \in 1..Len(p)
             /\ p[i - 1] # p[i] /\ p[i - 1] # after
  <2>1. i \in 2..Len(p) /\ i - 1 \in 1..Len(p) /\ i - 1 # i /\ i - 1 # i + 1
    BY <1>1, <1>3, <1>8
  <2>2. i # Len(p) => i + 1 \in 1..Len(p)
    BY <1>1, <1>3
  <2>3. m.nodes[p[i]].prev = p[i - 1]
    BY <1>1, <2>1 DEF Linked
  <2>4. p[i - 1] # p[i]
    BY <1>1, <1>4, <2>1
  <2>5. p[i - 1] # after
    <3>1. CASE i = Len(p)
      <4>1. p[i - 1] \in Node /\ after = Sentinel
        BY <1>3, <1>7, <2>1, <3>1
      <4>. QED BY <1>2, <4>1
    <3>2. CASE i # Len(p)
      <4>1. after = p[i + 1] /\ i + 1 \in 1..Len(p)
        BY <1>7, <2>2, <3>2
      <4>. QED BY <1>4, <2>1, <4>1
    <3>. QED BY <3>1, <3>2
  <2>. QED BY <2>1, <2>3, <2>4, <2>5
<1>9. \A j \in 1..Len(p) : p[j] \in Nodes /\ m.nodes[p[j]] \in NodeFields
  BY <1>2, <1>3
<1>. QED BY <1>1, <1>2, <1>3, <1>4, <1>5, <1>6, <1>7, <1>8, <1>9

\* What ListDequeue does after the table: ln is the first node and after the next one.
Dequeued(m, ln, after) ==
  [m EXCEPT !.head = after, !.nodes[after].prev = Sentinel, !.nodes[ln] = NULL]

LEMMA DequeueDrops ==
  ASSUME NEW m, NEW p, NEW In, NEW size, Cuttable(m, p, In, 1, size),
         NEW after, after = m.nodes[p[1]].next, NEW u, u = Dequeued(m, p[1], after)
  PROVE  Drops(m, u, p, 1, size)
<1>1. /\ m.head \in Nodes /\ m.nodes \in [Nodes -> NodeFields \cup {NULL}]
      /\ m = [head |-> m.head, nodes |-> m.nodes, table |-> m.table]
      /\ m.table \in [0..size - 1 -> Node \cup {NULL}] /\ size \in Nat
      /\ m.nodes[Sentinel] # NULL /\ Sentinel \in Nodes /\ Sentinel \notin Node
      /\ \A j \in 1..Len(p) : p[j] \in Node /\ p[j] \in Nodes
      /\ \A j, k \in 1..Len(p) : p[j] = p[k] => j = k
      /\ after \in Nodes /\ after # p[1] /\ m.nodes[after] \in NodeFields
      /\ 1 \in 1..Len(p) /\ Len(p) \in Nat
  BY CutFacts
<1>2. PICK s, t : s = m.nodes[after] /\ t = [s EXCEPT !.prev = Sentinel]
  OBVIOUS
<1>3. /\ t \in NodeFields /\ t.id = s.id /\ t.data = s.data /\ t.next = s.next
      /\ t.prev = Sentinel /\ t.hash_collission_next = s.hash_collission_next
      /\ t # NULL /\ s # NULL
  <2>1. s \in NodeFields /\ Sentinel \in Nodes \cup {NULL}
    BY <1>1, <1>2
  <2>2. t = [s EXCEPT !.prev = Sentinel]
    BY <1>2
  <2>. QED BY <2>1, <2>2, SetPrev
<1>4. PICK M, N : M = [m.nodes EXCEPT ![after] = t] /\ N = [M EXCEPT ![p[1]] = NULL]
  OBVIOUS
<1>5. u = [head |-> after, nodes |-> N, table |-> m.table]
  BY <1>1, <1>2, <1>4 DEF Dequeued
<1>6. u.head = after /\ u.nodes = N /\ u.table = m.table
  BY <1>5
<1>7. /\ N \in [Nodes -> NodeFields \cup {NULL}]
      /\ N[p[1]] = NULL /\ N[after] = t
      /\ \A n \in Nodes : n # p[1] /\ n # after => N[n] = m.nodes[n]
  <2>1. M \in [Nodes -> NodeFields \cup {NULL}] /\ M[after] = t
        /\ \A n \in Nodes : n # after => M[n] = m.nodes[n]
    BY <1>1, <1>3, <1>4
  <2>. QED BY <1>1, <1>4, <2>1
<1>8. \A n \in Nodes : n # p[1] =>
        /\ N[n] = NULL <=> m.nodes[n] = NULL
        /\ N[n].id = m.nodes[n].id /\ N[n].data = m.nodes[n].data
        /\ N[n].next = m.nodes[n].next
        /\ N[n].hash_collission_next = m.nodes[n].hash_collission_next
        /\ n # after => N[n].prev = m.nodes[n].prev
  BY <1>2, <1>3, <1>7
<1>9. ListTypes(u, size)
  <2>1. N[Sentinel] # NULL
    BY <1>1, <1>8
  <2>. QED BY <1>1, <1>5, <1>6, <1>7, <2>1 DEF ListTypes
<1>10. \A j \in 1..Len(p) : j # 1 => u.nodes[p[j]].next = m.nodes[p[j]].next
  BY <1>1, <1>6, <1>8
<1>11. u.head = m.nodes[p[1]].next /\ u.table = m.table /\ u.nodes[p[1]] = NULL
  BY <1>6, <1>7
<1>12. \A n \in Nodes : n # p[1] /\ n # m.nodes[p[1]].next => u.nodes[n].prev = m.nodes[n].prev
  BY <1>6, <1>8
<1>13. ~(1 > 1)
  OBVIOUS
<1>. QED BY <1>6, <1>8, <1>9, <1>10, <1>11, <1>12, <1>13 DEF Drops

LEMMA UnlinkDrops ==
  ASSUME NEW m, NEW p, NEW In, NEW i, NEW size, Cuttable(m, p, In, i, size), i > 1,
         NEW u, u = Unlinked(m, p[i])
  PROVE  Drops(m, u, p, i, size)
<1>1. PICK before, after : after = m.nodes[p[i]].next /\ before = p[i - 1]
  OBVIOUS
<1>2. /\ m.head \in Nodes /\ m.nodes \in [Nodes -> NodeFields \cup {NULL}]
      /\ m = [head |-> m.head, nodes |-> m.nodes, table |-> m.table]
      /\ m.table \in [0..size - 1 -> Node \cup {NULL}] /\ size \in Nat
      /\ m.nodes[Sentinel] # NULL /\ Sentinel \in Nodes /\ Sentinel \notin Node
      /\ \A j \in 1..Len(p) : p[j] \in Node /\ p[j] \in Nodes
      /\ \A j, k \in 1..Len(p) : p[j] = p[k] => j = k
      /\ after \in Nodes /\ after # p[i] /\ m.nodes[after] \in NodeFields
      /\ i \in 1..Len(p) /\ Len(p) \in Nat
      /\ m.nodes[p[i]].prev = before /\ i - 1 \in 1..Len(p)
      /\ before # p[i] /\ before # after /\ before \in Nodes /\ before \in Node
      /\ m.nodes[before] \in NodeFields
  BY <1>1, CutFacts
<1>3. PICK r, x, s, t : /\ r = m.nodes[before] /\ x = [r EXCEPT !.next = after]
                        /\ s = m.nodes[after] /\ t = [s EXCEPT !.prev = before]
  OBVIOUS
<1>4. /\ x \in NodeFields /\ x.id = r.id /\ x.data = r.data /\ x.next = after
      /\ x.prev = r.prev /\ x.hash_collission_next = r.hash_collission_next
      /\ x # NULL /\ r # NULL
  <2>1. r \in NodeFields /\ after \in Nodes \cup {NULL}
    BY <1>2, <1>3
  <2>2. x = [r EXCEPT !.next = after]
    BY <1>3
  <2>. QED BY <2>1, <2>2, SetNext
<1>5. /\ t \in NodeFields /\ t.id = s.id /\ t.data = s.data /\ t.next = s.next
      /\ t.prev = before /\ t.hash_collission_next = s.hash_collission_next
      /\ t # NULL /\ s # NULL
  <2>1. s \in NodeFields /\ before \in Nodes \cup {NULL}
    BY <1>2, <1>3
  <2>2. t = [s EXCEPT !.prev = before]
    BY <1>3
  <2>. QED BY <2>1, <2>2, SetPrev
<1>6. PICK L, M, N : /\ L = [m.nodes EXCEPT ![before] = x] /\ M = [L EXCEPT ![after] = t]
                     /\ N = [M EXCEPT ![p[i]] = NULL]
  OBVIOUS
<1>7. L[after] = s
  BY <1>2, <1>3, <1>6
<1>8. u = [head |-> m.head, nodes |-> N, table |-> m.table]
  <2>1. u = [m EXCEPT !.nodes[before].next = after, !.nodes[after].prev = before,
                      !.nodes[p[i]] = NULL]
    BY <1>1, <1>2 DEF Unlinked
  <2>2. PICK k1, k2 : k1 = [m EXCEPT !.nodes = L] /\ k2 = [k1 EXCEPT !.nodes = M]
    OBVIOUS
  <2>3. k1.nodes = L /\ k2.nodes = M
    BY <1>2, <2>2
  <2>4. k1 = [m EXCEPT !.nodes[before].next = after]
    BY <1>2, <1>3, <1>6, <2>2
  <2>5. k2 = [k1 EXCEPT !.nodes[after].prev = before]
    BY <1>3, <1>6, <1>7, <2>2, <2>3
  <2>6. u = [k2 EXCEPT !.nodes[p[i]] = NULL]
    BY <2>1, <2>4, <2>5
  <2>. QED BY <1>2, <1>6, <2>2, <2>3, <2>6
<1>9. u.head = m.head /\ u.nodes = N /\ u.table = m.table
  BY <1>8
<1>10. /\ N \in [Nodes -> NodeFields \cup {NULL}]
       /\ N[p[i]] = NULL /\ N[before] = x /\ N[after] = t
       /\ \A n \in Nodes : n # p[i] /\ n # before /\ n # after => N[n] = m.nodes[n]
  <2>1. L \in [Nodes -> NodeFields \cup {NULL}] /\ L[before] = x
        /\ \A n \in Nodes : n # before => L[n] = m.nodes[n]
    BY <1>2, <1>4, <1>6
  <2>2. M \in [Nodes -> NodeFields \cup {NULL}] /\ M[after] = t
        /\ \A n \in Nodes : n # after => M[n] = L[n]
    BY <1>2, <1>5, <1>6, <2>1
  <2>3. N \in [Nodes -> NodeFields \cup {NULL}] /\ N[p[i]] = NULL
        /\ \A n \in Nodes : n # p[i] => N[n] = M[n]
    <3>1. p[i] \in Nodes
      BY <1>2
    <3>. QED BY <1>6, <2>2, <3>1
  <2>. QED BY <1>2, <2>1, <2>2, <2>3
<1>11. \A n \in Nodes : n # p[i] =>
         /\ N[n] = NULL <=> m.nodes[n] = NULL
         /\ N[n].id = m.nodes[n].id /\ N[n].data = m.nodes[n].data
         /\ n # before => N[n].next = m.nodes[n].next
         /\ N[n].hash_collission_next = m.nodes[n].hash_collission_next
         /\ n # after => N[n].prev = m.nodes[n].prev
  <2>1. ASSUME NEW n \in Nodes, n # p[i]
        PROVE  /\ N[n] = NULL <=> m.nodes[n] = NULL
               /\ N[n].id = m.nodes[n].id /\ N[n].data = m.nodes[n].data
               /\ n # before => N[n].next = m.nodes[n].next
               /\ N[n].hash_collission_next = m.nodes[n].hash_collission_next
               /\ n # after => N[n].prev = m.nodes[n].prev
    <3>1. CASE n = before
      BY <1>2, <1>3, <1>4, <1>10, <3>1
    <3>2. CASE n = after
      BY <1>2, <1>3, <1>5, <1>10, <3>2
    <3>3. CASE n # before /\ n # after
      BY <1>10, <2>1, <3>3
    <3>. QED BY <3>1, <3>2, <3>3
  <2>. QED BY <2>1
<1>12. ListTypes(u, size)
  <2>1. N[Sentinel] # NULL
    BY <1>2, <1>11
  <2>. QED BY <1>2, <1>8, <1>9, <1>10, <2>1 DEF ListTypes
<1>13. \A j \in 1..Len(p) : j # i /\ j # i - 1 => u.nodes[p[j]].next = m.nodes[p[j]].next
  BY <1>1, <1>2, <1>9, <1>11
<1>14. u.nodes[p[i - 1]].next = after /\ u.nodes[after].prev = p[i - 1]
  BY <1>1, <1>4, <1>5, <1>9, <1>10
<1>15. i # 1 /\ u.nodes[p[i]] = NULL
  BY <1>2, <1>9, <1>10
<1>. QED BY <1>1, <1>9, <1>11, <1>12, <1>13, <1>14, <1>15 DEF Drops

\* Taking a node out of the list with the links l or m is the same.
LEMMA SameRemoved ==
  ASSUME NEW l, NEW m, NEW u, NEW p, NEW i, NEW size, SameLinks(l, m), Removed(m, u, p, i, size)
  PROVE  Removed(l, u, p, i, size)
<1>1. Inside(m) = Inside(l) /\ \A n \in Inside(l) : n \in Nodes
  BY SameLinksFacts DEF Inside, Nodes
<1>. QED BY <1>1 DEF Removed, SameItems, SameLinks

LEMMA DequeueGood ==
  ASSUME NEW l, NEW p, NEW In, NEW size, Cuttable(l, p, In, 1, size)
  PROVE  Removed(l, ListDequeue(l), p, 1, size)
<1>1. PICK m : m = ListRemoveFromHashTable(l, l.nodes[p[1]].id)
  OBVIOUS
<1>2. Cuttable(m, p, Inside(m) \ {p[1]}, 1, size) /\ SameLinks(l, m)
  BY <1>1, CutHash
<1>3. l.head = p[1] /\ p[1] \in Nodes
  BY CutFacts
<1>4. PICK after : after = m.nodes[p[1]].next
  OBVIOUS
<1>5. after = l.nodes[p[1]].next
  BY <1>2, <1>3, <1>4 DEF SameLinks
<1>6. PICK u : u = Dequeued(m, p[1], after)
  OBVIOUS
<1>7. Drops(m, u, p, 1, size)
  BY <1>2, <1>4, <1>6, DequeueDrops
<1>8. Removed(m, u, p, 1, size)
  BY <1>2, <1>7, DropGood
<1>9. ListDequeue(l) = u
  BY <1>1, <1>3, <1>5, <1>6 DEF ListDequeue, Dequeued
<1>. QED BY <1>2, <1>8, <1>9, SameRemoved

\* ListRemoveNode takes out the node at any place of a list.
LEMMA RemoveNodeGood ==
  ASSUME NEW l, NEW p, NEW size, GoodList(l, p, size), size = hash_table_size,
         NEW i \in 1..Len(p)
  PROVE  Removed(l, ListRemoveNode(l, p[i]), p, i, size)
<1>1. Cuttable(l, p, Inside(l), i, size)
  BY DEF GoodList, Cuttable
<1>2. PICK m : m = ListRemoveFromHashTable(l, l.nodes[p[i]].id)
  OBVIOUS
<1>3. Cuttable(m, p, Inside(m) \ {p[i]}, i, size) /\ SameLinks(l, m)
  BY <1>1, <1>2, CutHash
<1>4. l.head = p[1] /\ Len(p) \in Nat /\ \A j, k \in 1..Len(p) : p[j] = p[k] => j = k
  BY <1>1, CutFacts
<1>5. CASE i = 1
  <2>1. ListRemoveNode(l, p[i]) = ListDequeue(m)
    BY <1>2, <1>4, <1>5 DEF ListRemoveNode
  <2>2. Removed(m, ListDequeue(m), p, i, size)
    BY <1>3, <1>5, DequeueGood
  <2>. QED BY <1>3, <2>1, <2>2, SameRemoved
<1>6. CASE i # 1
  <2>1. i > 1 /\ 1 \in 1..Len(p)
    BY <1>4, <1>6
  <2>2. p[i] # l.head
    BY <1>4, <1>6, <2>1
  <2>3. ListRemoveNode(l, p[i]) = Unlinked(m, p[i])
    BY <1>2, <2>2 DEF ListRemoveNode
  <2>4. Drops(m, Unlinked(m, p[i]), p, i, size)
    BY <1>3, <2>1, UnlinkDrops
  <2>5. Removed(m, Unlinked(m, p[i]), p, i, size)
    BY <1>3, <2>4, DropGood
  <2>. QED BY <1>3, <2>3, <2>5, SameRemoved
<1>. QED BY <1>5, <1>6

-----------------------------------------------------------------------------
(* Finding a node *)

\* The loop over all nodes finds the first one with the id.
LEMMA FindByIdFacts ==
  ASSUME NEW l, NEW p, Linked(l, p), NEW id
  PROVE  /\ ListFindNodeById(l, id) = NodeAt(p, FirstOf(IdAt(l, p, id)))
         /\ FirstOf(IdAt(l, p, id)) \in 0..Len(p)
         /\ FirstOf(IdAt(l, p, id)) = 0 => \A n \in Inside(l) : l.nodes[n].id # id
         /\ FirstOf(IdAt(l, p, id)) # 0 => l.nodes[p[FirstOf(IdAt(l, p, id))]].id = id
<1>1. Forward(l) = p
  BY ForwardFacts
<1>2. ListFindNodeById(l, id) = NodeAt(p, FirstOf(IdAt(l, p, id)))
  BY <1>1, SelectFacts DEF ListFindNodeById
<1>3. Len(p) \in Nat
  BY LinkedFacts
<1>4. PICK I, i : I = IdAt(l, p, id) /\ i = FirstOf(I)
  OBVIOUS
<1>5. I \in SUBSET (1..Len(p))
  BY <1>4 DEF IdAt
<1>6. i \in 0..Len(p) /\ (i = 0 <=> I = {}) /\ (i # 0 => i \in I)
  BY <1>3, <1>4, <1>5, FirstOfFacts
<1>7. ASSUME i = 0, NEW n \in Inside(l) PROVE l.nodes[n].id # id
  <2>1. PICK j \in 1..Len(p) : n = p[j]
    BY LinkedFacts
  <2>. QED BY <1>4, <1>6, <1>7, <2>1 DEF IdAt
<1>8. i # 0 => l.nodes[p[i]].id = id
  BY <1>4, <1>6 DEF IdAt
<1>. QED BY <1>2, <1>4, <1>6, <1>7, <1>8

\* And so does the chain of the id, in a list with a table.
LEMMA FindNodeFacts ==
  ASSUME NEW l, NEW p, NEW size, GoodList(l, p, size), size = hash_table_size, NEW id \in Nat
  PROVE  FindNode(l, id) = NodeAt(p, FirstOf(IdAt(l, p, id)))
<1>1. /\ ListTypes(l, size) /\ Linked(l, p)
      /\ Chained(l, Inside(l), size) /\ UniqueIds(l, Inside(l), size) /\ size \in Nat
  BY DEF GoodList, ListTypes
<1>2. CASE ~(size > 0)
  BY <1>1, <1>2, FindByIdFacts DEF FindNode, Hashed
<1>3. CASE size > 0
  <2>1. PICK b : b = id % size
    OBVIOUS
  <2>2. b \in 0..size - 1
    BY <1>1, <1>3, <2>1
  <2>3. PICK c : ChainIs(l, Inside(l), b, c, size)
    BY <1>1, <1>3, <2>2 DEF Chained
  <2>4. PICK i : i = FirstOf(IdAt(l, c, id))
    OBVIOUS
  <2>5. InTable(l, Inside(l), size)
    BY <1>1 DEF InTable
  <2>6. /\ i = 0 => \A n \in Inside(l) : l.nodes[n].id # id
        /\ i # 0 => /\ c[i] \in Inside(l) /\ l.nodes[c[i]].id = id
                    /\ \A n \in Inside(l) : l.nodes[n].id = id => n = c[i]
    BY <1>1, <1>3, <2>1, <2>3, <2>4, <2>5, ChainAt
  <2>7. FindNode(l, id) = NodeAt(c, i)
    <3>1. Chain(l, b) = c /\ Bucket(id) = b /\ Hashed
      BY <1>3, <2>1, <2>3, ChainFacts DEF Bucket, Hashed
    <3>2. FirstIn(Chain(l, b), LAMBDA n : l.nodes[n].id = id) = NodeAt(c, i)
      BY <2>4, <3>1, SelectFacts
    <3>. QED BY <3>1, <3>2 DEF FindNode, ListFindFromHashTable
  <2>8. PICK j : j = FirstOf(IdAt(l, p, id))
    OBVIOUS
  <2>9. /\ j \in 0..Len(p)
        /\ j = 0 => \A n \in Inside(l) : l.nodes[n].id # id
        /\ j # 0 => l.nodes[p[j]].id = id
    BY <1>1, <2>8, FindByIdFacts
  <2>10. j # 0 => p[j] \in Inside(l)
    <3>1. Len(p) \in Nat
      BY <1>1, LinkedFacts
    <3>2. j # 0 => j \in 1..Len(p)
      BY <2>9, <3>1
    <3>. QED BY <1>1, <3>2, LinkedFacts
  <2>11. NodeAt(c, i) = NodeAt(p, j)
    BY <2>6, <2>9, <2>10 DEF NodeAt
  <2>. QED BY <2>7, <2>8, <2>11
<1>. QED BY <1>2, <1>3

\* The first node with an id that is not greater.
FirstLess(l, id) == FirstIn(Forward(l), LAMBDA n : l.nodes[n].id <= id)

\* Looking again for the first node with an id that is not greater finds it.
LEMMA FindFirstLessFacts ==
  ASSUME NEW l, NEW p, NEW size, GoodList(l, p, size), size = hash_table_size, NEW id,
         NEW i, i = FirstOf(LessAt(l, p, id))
  PROVE  /\ i \in 0..Len(p)
         /\ FirstLess(l, id) = NodeAt(p, i)
         /\ i # 0 => p[i] # NULL /\ FindNode(l, l.nodes[p[i]].id) = p[i]
<1>1. ListTypes(l, size) /\ Linked(l, p)
  BY DEF GoodList
<1>2. FirstLess(l, id) = NodeAt(p, i)
  BY <1>1, ForwardFacts, SelectFacts DEF FirstLess
<1>3. Len(p) \in Nat
  BY <1>1, LinkedFacts
<1>4. i \in 0..Len(p) /\ (i # 0 => i \in LessAt(l, p, id) /\ \A k \in LessAt(l, p, id) : i <= k)
  <2>1. LessAt(l, p, id) \in SUBSET (1..Len(p))
    BY DEF LessAt
  <2>. QED BY <1>3, <2>1, FirstOfFacts
<1>5. ASSUME i # 0 PROVE p[i] # NULL /\ l.nodes[p[i]].id \in Nat /\ i \in 1..Len(p)
  <2>1. i \in 1..Len(p)
    BY <1>3, <1>4, <1>5
  <2>2. p[i] \in Inside(l)
    BY <1>1, <2>1, LinkedFacts
  <2>3. p[i] \in Nodes /\ NULL \notin Nodes /\ l.nodes[p[i]] \in NodeFields
    BY <1>1, <2>2, TypeFacts
  <2>. QED BY <2>1, <2>3, FieldFacts
<1>6. ASSUME i # 0 PROVE FindNode(l, l.nodes[p[i]].id) = p[i]
  <2>1. PICK a, I, j : a = l.nodes[p[i]].id /\ I = IdAt(l, p, a) /\ j = FirstOf(I)
    OBVIOUS
  <2>2. FindNode(l, a) = NodeAt(p, j)
    BY <1>5, <1>6, <2>1, FindNodeFacts
  <2>3. I \in SUBSET (1..Len(p)) /\ i \in I
    BY <1>5, <1>6, <2>1 DEF IdAt
  <2>4. j \in I /\ j <= i
    BY <1>3, <2>1, <2>3, FirstOfFacts
  <2>5. j \in LessAt(l, p, id)
    BY <1>4, <1>6, <2>1, <2>4 DEF IdAt, LessAt
  <2>6. j = i
    BY <1>3, <1>4, <1>6, <2>3, <2>4, <2>5
  <2>. QED BY <1>6, <2>1, <2>2, <2>6 DEF NodeAt
<1>. QED BY <1>2, <1>4, <1>5, <1>6

-----------------------------------------------------------------------------
(* The items of a list *)

ItemOf(l, n) == [id |-> l.nodes[n].id, data |-> l.nodes[n].data]
ItemsOf(l, p) == [i \in 1..Len(p) |-> ItemOf(l, p[i])]
ItemType == [id : Nat, data : Data \cup {NULL}]

LEMMA ItemOfFacts ==
  ASSUME NEW l, NEW n
  PROVE  ItemOf(l, n).id = l.nodes[n].id /\ ItemOf(l, n).data = l.nodes[n].data
BY DEF ItemOf

LEMMA ItemsFacts ==
  ASSUME NEW l, NEW p, NEW size, GoodList(l, p, size)
  PROVE  /\ ItemsOf(l, p) \in Seq(ItemType) /\ Len(ItemsOf(l, p)) = Len(p) /\ Len(p) \in Nat
         /\ \A i \in 1..Len(p) : ItemsOf(l, p)[i] = ItemOf(l, p[i])
<1>1. ListTypes(l, size) /\ Linked(l, p)
  BY DEF GoodList
<1>2. Len(p) \in Nat /\ \A i \in 1..Len(p) : p[i] \in Inside(l)
  BY <1>1, LinkedFacts
<1>3. ASSUME NEW i \in 1..Len(p) PROVE ItemOf(l, p[i]) \in ItemType
  <2>1. l.nodes[p[i]] \in NodeFields
    BY <1>1, <1>2, TypeFacts
  <2>. QED BY <2>1, FieldFacts DEF ItemOf, ItemType
<1>4. ItemsOf(l, p) \in [1..Len(p) -> ItemType]
  BY <1>3 DEF ItemsOf
<1>5. ItemsOf(l, p) \in Seq(ItemType)
  BY <1>2, <1>4, SeqDef
<1>6. Len(ItemsOf(l, p)) = Len(p)
  BY <1>2, <1>4, <1>5, LenProperties
<1>. QED BY <1>2, <1>5, <1>6 DEF ItemsOf

\* The items of the nodes that two lists have in common.
LEMMA SameItemOf ==
  ASSUME NEW l, NEW m, NEW In, SameItems(l, m, In)
  PROVE  \A n \in In : ItemOf(m, n) = ItemOf(l, n)
BY DEF SameItems, ItemOf

LEMMA PushItems ==
  ASSUME NEW l, NEW p, NEW ln, NEW id, NEW data, NEW size, Fresh(l, p, ln, id, data, size),
         NEW m, Added(l, m, <<ln>> \o p, ln, id, data, size)
  PROVE  ItemsOf(m, <<ln>> \o p) = <<[id |-> id, data |-> data]>> \o ItemsOf(l, p)
<1>1. PICK q : q = <<ln>> \o p
  OBVIOUS
<1>2. GoodList(l, p, size) /\ ln \in Node /\ Linked(l, p) /\ id \in Nat /\ data \in Data
  BY ListAssumption DEF Fresh, GoodList
<1>3. /\ GoodList(m, q, size) /\ SameItems(l, m, Inside(l))
      /\ ItemOf(m, ln) = [id |-> id, data |-> data]
  BY <1>1 DEF Added, ItemOf
<1>4. PICK s, t, e : s = ItemsOf(l, p) /\ t = ItemsOf(m, q) /\ e = [id |-> id, data |-> data]
  OBVIOUS
<1>5. /\ s \in Seq(ItemType) /\ Len(s) = Len(p) /\ Len(p) \in Nat
      /\ \A i \in 1..Len(p) : s[i] = ItemOf(l, p[i])
  BY <1>2, <1>4, ItemsFacts
<1>6. /\ t \in Seq(ItemType) /\ Len(t) = Len(q)
      /\ \A i \in 1..Len(q) : t[i] = ItemOf(m, q[i])
  BY <1>3, <1>4, ItemsFacts
<1>7. /\ p \in Seq(Node) /\ Len(q) = Len(p) + 1 /\ q[1] = ln
      /\ \A i \in 1..Len(p) : q[i + 1] = p[i] /\ p[i] \in Inside(l)
  <2>1. p \in Seq(Node) /\ \A i \in 1..Len(p) : p[i] \in Inside(l)
    BY <1>2, LinkedFacts
  <2>. QED BY <1>1, <1>2, <2>1, PushedFacts
<1>8. PICK r : r = <<e>> \o s
  OBVIOUS
<1>9. /\ r \in Seq(ItemType) /\ Len(r) = Len(s) + 1 /\ r[1] = e
      /\ \A i \in 1..Len(s) : r[i + 1] = s[i]
  <2>1. e \in ItemType
    BY <1>2, <1>4 DEF ItemType
  <2>. QED BY <1>5, <1>8, <2>1, PushedFacts
<1>10. ASSUME NEW i \in 1..Len(t) PROVE t[i] = r[i]
  <2>1. CASE i = 1
    BY <1>3, <1>4, <1>5, <1>6, <1>7, <1>9, <2>1
  <2>2. CASE i # 1
    <3>1. i - 1 \in 1..Len(p) /\ (i - 1) + 1 = i
      BY <1>5, <1>6, <1>7, <2>2
    <3>2. q[i] = p[i - 1] /\ r[i] = s[i - 1] /\ p[i - 1] \in Inside(l)
      BY <1>5, <1>7, <1>9, <3>1
    <3>3. ItemOf(m, p[i - 1]) = ItemOf(l, p[i - 1])
      BY <1>3, <3>2, SameItemOf
    <3>. QED BY <1>5, <1>6, <3>1, <3>2, <3>3
  <2>. QED BY <2>1, <2>2
<1>11. t = r
  <2>1. Len(t) = Len(r)
    BY <1>5, <1>6, <1>7, <1>9
  <2>. QED BY <1>6, <1>9, <1>10, <2>1, SeqEqual
<1>. QED BY <1>1, <1>4, <1>8, <1>11

LEMMA AppendItems ==
  ASSUME NEW l, NEW p, NEW ln, NEW id, NEW data, NEW size, Fresh(l, p, ln, id, data, size),
         NEW m, Added(l, m, Append(p, ln), ln, id, data, size)
  PROVE  ItemsOf(m, Append(p, ln)) = Append(ItemsOf(l, p), [id |-> id, data |-> data])
<1>1. PICK q : q = Append(p, ln)
  OBVIOUS
<1>2. GoodList(l, p, size) /\ ln \in Node /\ Linked(l, p) /\ id \in Nat /\ data \in Data
  BY ListAssumption DEF Fresh, GoodList
<1>3. /\ GoodList(m, q, size) /\ SameItems(l, m, Inside(l))
      /\ ItemOf(m, ln) = [id |-> id, data |-> data]
  BY <1>1 DEF Added, ItemOf
<1>4. PICK s, t, e : s = ItemsOf(l, p) /\ t = ItemsOf(m, q) /\ e = [id |-> id, data |-> data]
  OBVIOUS
<1>5. /\ s \in Seq(ItemType) /\ Len(s) = Len(p) /\ Len(p) \in Nat
      /\ \A i \in 1..Len(p) : s[i] = ItemOf(l, p[i])
  BY <1>2, <1>4, ItemsFacts
<1>6. /\ t \in Seq(ItemType) /\ Len(t) = Len(q)
      /\ \A i \in 1..Len(q) : t[i] = ItemOf(m, q[i])
  BY <1>3, <1>4, ItemsFacts
<1>7. /\ p \in Seq(Node) /\ Len(q) = Len(p) + 1 /\ q[Len(p) + 1] = ln
      /\ \A i \in 1..Len(p) : q[i] = p[i] /\ p[i] \in Inside(l)
  <2>1. p \in Seq(Node) /\ \A i \in 1..Len(p) : p[i] \in Inside(l)
    BY <1>2, LinkedFacts
  <2>. QED BY <1>1, <1>2, <2>1, AppendProperties
<1>8. PICK r : r = Append(s, e)
  OBVIOUS
<1>9. /\ r \in Seq(ItemType) /\ Len(r) = Len(s) + 1 /\ r[Len(s) + 1] = e
      /\ \A i \in 1..Len(s) : r[i] = s[i]
  <2>1. e \in ItemType
    BY <1>2, <1>4 DEF ItemType
  <2>. QED BY <1>5, <1>8, <2>1, AppendProperties
<1>10. ASSUME NEW i \in 1..Len(t) PROVE t[i] = r[i]
  <2>1. CASE i = Len(p) + 1
    BY <1>3, <1>4, <1>5, <1>6, <1>7, <1>9, <2>1
  <2>2. CASE i # Len(p) + 1
    <3>1. i \in 1..Len(p)
      BY <1>5, <1>6, <1>7, <2>2
    <3>2. q[i] = p[i] /\ r[i] = s[i] /\ p[i] \in Inside(l)
      BY <1>5, <1>7, <1>9, <3>1
    <3>3. ItemOf(m, p[i]) = ItemOf(l, p[i])
      BY <1>3, <3>2, SameItemOf
    <3>. QED BY <1>5, <1>6, <3>1, <3>2, <3>3
  <2>. QED BY <2>1, <2>2
<1>11. t = r
  <2>1. Len(t) = Len(r)
    BY <1>5, <1>6, <1>7, <1>9
  <2>. QED BY <1>6, <1>9, <1>10, <2>1, SeqEqual
<1>. QED BY <1>1, <1>4, <1>8, <1>11

LEMMA RemovedItems ==
  ASSUME NEW l, NEW p, NEW i, NEW size, GoodList(l, p, size), i \in 1..Len(p),
         NEW u, Removed(l, u, p, i, size)
  PROVE  ItemsOf(u, RemoveAt(p, i)) = RemoveAt(ItemsOf(l, p), i)
<1>1. PICK q : q = RemoveAt(p, i)
  OBVIOUS
<1>2. Linked(l, p) /\ GoodList(u, q, size) /\ SameItems(l, u, Inside(l) \ {p[i]})
  BY <1>1 DEF Removed, GoodList
<1>3. PICK s, t : s = ItemsOf(l, p) /\ t = ItemsOf(u, q)
  OBVIOUS
<1>4. /\ s \in Seq(ItemType) /\ Len(s) = Len(p) /\ Len(p) \in Nat
      /\ \A j \in 1..Len(p) : s[j] = ItemOf(l, p[j])
  BY <1>3, ItemsFacts
<1>5. /\ t \in Seq(ItemType) /\ Len(t) = Len(q)
      /\ \A j \in 1..Len(q) : t[j] = ItemOf(u, q[j])
  BY <1>2, <1>3, ItemsFacts
<1>6. /\ p \in Seq(Node) /\ IsInjective(p)
      /\ \A j \in 1..Len(p) : p[j] \in Inside(l)
  BY <1>2, LinkedFacts
<1>7. Len(q) = Len(p) - 1 /\ \A j \in 1..Len(q) : q[j] = IF j < i THEN p[j] ELSE p[j + 1]
  BY <1>1, <1>6, RemoveAtFacts
<1>8. PICK r : r = RemoveAt(s, i)
  OBVIOUS
<1>9. /\ r \in Seq(ItemType) /\ Len(r) = Len(s) - 1
      /\ \A j \in 1..Len(r) : r[j] = IF j < i THEN s[j] ELSE s[j + 1]
  <2>1. i \in 1..Len(s)
    BY <1>4
  <2>2. s \in Seq(ItemType)
    BY <1>4
  <2>. QED BY <1>8, <2>1, <2>2, RemoveAtFacts
<1>10. ASSUME NEW j \in 1..Len(t) PROVE t[j] = r[j]
  <2>1. PICK k : k = IF j < i THEN j ELSE j + 1
    OBVIOUS
  <2>2. k \in 1..Len(p) /\ k # i
    BY <1>4, <1>5, <1>7, <2>1
  <2>3. q[j] = p[k] /\ r[j] = s[k]
    BY <1>4, <1>5, <1>7, <1>9, <2>1
  <2>4. p[k] \in Inside(l) \ {p[i]}
    BY <1>6, <2>2, InjectiveFacts
  <2>5. ItemOf(u, p[k]) = ItemOf(l, p[k])
    BY <1>2, <2>4, SameItemOf
  <2>. QED BY <1>4, <1>5, <2>2, <2>3, <2>5
<1>11. t = r
  <2>1. Len(t) = Len(r)
    BY <1>4, <1>5, <1>7, <1>9
  <2>. QED BY <1>5, <1>9, <1>10, <2>1, SeqEqual
<1>. QED BY <1>1, <1>3, <1>8, <1>11

\* The first of a sequence taken out.
LEMMA WithoutFirst ==
  ASSUME NEW S, NEW s \in Seq(S), s # <<>>
  PROVE  RemoveAt(s, 1) = Tail(s) /\ Head(s) = s[1] /\ 1 \in 1..Len(s)
<1>1. Len(s) \in Nat /\ 1 \in 1..Len(s)
  <2>1. Len(s) \in Nat /\ Len(s) # 0
    BY EmptySeq
  <2>. QED BY <2>1
<1>2. PICK r : r = RemoveAt(s, 1)
  OBVIOUS
<1>3. PICK t : t = Tail(s)
  OBVIOUS
<1>4. /\ r \in Seq(S) /\ Len(r) = Len(s) - 1
      /\ \A j \in 1..Len(r) : r[j] = IF j < 1 THEN s[j] ELSE s[j + 1]
  BY <1>1, <1>2, RemoveAtFacts
<1>5. /\ t \in Seq(S) /\ Len(t) = Len(s) - 1
      /\ \A j \in 1..Len(t) : t[j] = s[j + 1]
  BY <1>3, HeadTailProperties
<1>6. \A j \in 1..Len(r) : r[j] = t[j]
  BY <1>4, <1>5
<1>7. r = t
  BY <1>4, <1>5, <1>6, SeqEqual
<1>8. Head(s) = s[1]
  OBVIOUS
<1>9. RemoveAt(s, 1) = Tail(s)
  BY <1>2, <1>3, <1>7
<1>10. QED
  BY <1>1, <1>8, <1>9

-----------------------------------------------------------------------------
(* What the links say *)

\* The links of a good list agree.
LEMMA GoodAgrees ==
  ASSUME NEW p, GoodList(List, p, hash_table_size)
  PROVE  LinksAgree
<1>1. PICK l : l = List
  OBVIOUS
<1>2. /\ ListTypes(l, hash_table_size) /\ Linked(l, p)
      /\ Chained(l, Inside(l), hash_table_size)
  BY <1>1 DEF GoodList
<1>3. l.head = head /\ l.nodes = nodes /\ l.table = hash_table
  BY <1>1 DEF List
<1>4. /\ p \in Seq(Node) /\ Len(p) \in Nat
      /\ (p = <<>> <=> Len(p) = 0)
      /\ Range(p) = Inside(l)
      /\ \A i \in 2..Len(p) : nodes[p[i]].prev = p[i - 1]
      /\ p # <<>> => nodes[Sentinel].prev = p[Len(p)]
  BY <1>2, <1>3, LinkedFacts DEF Linked
<1>5. Forward(List) = p
  BY <1>1, <1>2, ForwardFacts
<1>6. Last(<<Sentinel>> \o p) = nodes[Sentinel].prev \/ p = <<>>
  <2>. SUFFICES ASSUME p # <<>> PROVE Last(<<Sentinel>> \o p) = nodes[Sentinel].prev
    OBVIOUS
  <2>1. PICK q : q = <<Sentinel>> \o p
    OBVIOUS
  <2>2. p \in Seq(Nodes) /\ Sentinel \in Nodes
    <3>1. Node \subseteq Nodes /\ Sentinel \in Nodes
      BY DEF Nodes
    <3>. QED BY <1>4, <3>1, SeqMonotonic
  <2>3. Len(q) = Len(p) + 1 /\ \A i \in 1..Len(p) : q[i + 1] = p[i]
    BY <2>1, <2>2, PushedFacts
  <2>4. Len(p) \in 1..Len(p)
    BY <1>4
  <2>. QED BY <1>4, <2>1, <2>3, <2>4 DEF Last
<1>7. Inside(l) = {n \in Node : nodes[n] # NULL}
  BY <1>3 DEF Inside
<1>8. ASSUME hash_table_size > 0, NEW b \in 0..hash_table_size - 1
      PROVE  /\ Range(Chain(List, b)) = InBucket(l, Inside(l), b, hash_table_size)
             /\ \A n \in Range(Chain(List, b)) :
                  Cardinality({i \in 1..Len(Chain(List, b)) : Chain(List, b)[i] = n}) = 1
  <2>1. PICK c : ChainIs(l, Inside(l), b, c, hash_table_size)
    BY <1>2, <1>8 DEF Chained
  <2>2. Chain(List, b) = c
    BY <1>1, <2>1, ChainFacts
  <2>3. c \in Seq(Node) /\ IsInjective(c) /\ Range(c) = InBucket(l, Inside(l), b, hash_table_size)
    BY <2>1 DEF ChainIs, Leads
  <2>4. ASSUME NEW n \in Range(c) PROVE Cardinality({i \in 1..Len(c) : c[i] = n}) = 1
    <3>1. PICK k \in 1..Len(c) : n = c[k]
      BY <2>3, PathFacts
    <3>2. {i \in 1..Len(c) : c[i] = n} = {k}
      BY <2>3, <3>1, InjectiveFacts
    <3>. QED BY <3>2, FS_Singleton
  <2>. QED BY <2>2, <2>3, <2>4
<1>9. ASSUME Hashed, NEW n \in Inside(l)
      PROVE  Cardinality({i \in 1..Len(Chain(List, Bucket(nodes[n].id))) :
                            Chain(List, Bucket(nodes[n].id))[i] = n}) = 1
  <2>1. hash_table_size > 0
    BY <1>9 DEF Hashed
  <2>2. PICK b : b = Bucket(nodes[n].id)
    OBVIOUS
  <2>3. b \in 0..hash_table_size - 1 /\ b = l.nodes[n].id % hash_table_size
    BY <1>2, <1>3, <1>9, <2>1, <2>2, BucketFacts DEF Bucket
  <2>4. n \in InBucket(l, Inside(l), b, hash_table_size)
    BY <1>9, <2>3 DEF InBucket
  <2>. QED BY <1>8, <2>1, <2>2, <2>3, <2>4
<1>10. ASSUME Hashed, NEW b \in DOMAIN hash_table PROVE Range(Chain(List, b)) \subseteq Inside(l)
  <2>1. hash_table_size > 0 /\ b \in 0..hash_table_size - 1
    BY <1>2, <1>3, <1>10, TypeFacts DEF Hashed
  <2>. QED BY <1>8, <2>1 DEF InBucket
<1>. QED BY <1>4, <1>5, <1>6, <1>7, <1>9, <1>10 DEF LinksAgree

\* The items of a good list.
LEMMA GoodItems ==
  ASSUME NEW p, GoodList(List, p, hash_table_size)
  PROVE  Items = ItemsOf(List, p)
<1>1. Linked(List, p) /\ List.nodes = nodes
  BY DEF GoodList, List
<1>2. Forward(List) = p
  BY <1>1, ForwardFacts
<1>. QED BY <1>1, <1>2 DEF Items, ItemsOf, ItemOf

-----------------------------------------------------------------------------
(* The calls *)

ListInv == \E p : GoodList(List, p, hash_table_size)

\* What a call leaves behind.
LEMMA CallLeaves ==
  ASSUME NEW op, NEW id, NEW data, NEW m, NEW answer, NEW q, GoodList(m, q, hash_table_size),
         Calls(op, id, data, m, answer)
  PROVE  /\ GoodList(List, q, hash_table_size)' /\ ListInv'
         /\ Items' = ItemsOf(m, q)
         /\ call' = [op |-> op, id |-> id, data |-> data] /\ result' = answer
<1>1. m = [head |-> m.head, nodes |-> m.nodes, table |-> m.table]
  BY TypeFacts DEF GoodList
<1>2. List' = m /\ hash_table_size' = hash_table_size
  BY <1>1 DEF Calls, List
<1>3. GoodList(List, q, hash_table_size)'
  BY <1>2
<1>4. Items' = ItemsOf(m, q)
  <2>1. Forward(List') = q
    BY <1>2, ForwardFacts DEF GoodList
  <2>2. nodes' = m.nodes
    BY DEF Calls
  <2>. QED BY <2>1, <2>2 DEF Items, ItemsOf, ItemOf
<1>. QED BY <1>2, <1>3, <1>4 DEF Calls, ListInv

\* Where the items have an id, and where they have one that is not greater.
LEMMA SelectItems ==
  ASSUME NEW l, NEW p, NEW size, GoodList(l, p, size), NEW id
  PROVE  /\ Sequence!SelectInSeq(ItemsOf(l, p), LAMBDA e : e.id = id) = FirstOf(IdAt(l, p, id))
         /\ Sequence!SelectInSeq(ItemsOf(l, p), LAMBDA e : e.id <= id) = FirstOf(LessAt(l, p, id))
<1>1. PICK s : s = ItemsOf(l, p)
  OBVIOUS
<1>2. Len(s) = Len(p) /\ \A i \in 1..Len(p) : s[i].id = l.nodes[p[i]].id
  <2>1. Len(s) = Len(p) /\ \A i \in 1..Len(p) : s[i] = ItemOf(l, p[i])
    BY <1>1, ItemsFacts
  <2>. QED BY <2>1, ItemOfFacts
<1>3. {i \in 1..Len(s) : s[i].id = id} = IdAt(l, p, id)
  BY <1>2 DEF IdAt
<1>4. {i \in 1..Len(s) : s[i].id <= id} = LessAt(l, p, id)
  BY <1>2 DEF LessAt
<1>5. \A I : FirstOf(I) = IF I # {} THEN Sequence!Min(I) ELSE 0
  BY DEF FirstOf, Min, Sequence!Min
<1>6. Sequence!SelectInSeq(s, LAMBDA e : e.id = id) = FirstOf({i \in 1..Len(s) : s[i].id = id})
  BY <1>5 DEF Sequence!SelectInSeq
<1>7. Sequence!SelectInSeq(s, LAMBDA e : e.id <= id) = FirstOf({i \in 1..Len(s) : s[i].id <= id})
  BY <1>5 DEF Sequence!SelectInSeq
<1>. QED BY <1>1, <1>3, <1>4, <1>6, <1>7

\* The list is good along the path p before a call.
Along(p) == GoodList(List, p, hash_table_size)

LEMMA AddsStep ==
  ASSUME NEW p, Along(p), NEW ln \in {n \in Node : nodes[n] = NULL}, NEW id \in Ids,
         NEW data \in Data, Hashed => ListFindNodeById(List, id) = NULL
  PROVE  Fresh(List, p, ln, id, data, hash_table_size)
<1>1. GoodList(List, p, hash_table_size) /\ Linked(List, p)
  BY DEF Along, GoodList
<1>2. List.nodes = nodes
  BY DEF List
<1>3. ASSUME hash_table_size > 0, NEW n \in Inside(List) PROVE List.nodes[n].id # id
  <2>1. PICK i : i = FirstOf(IdAt(List, p, id))
    OBVIOUS
  <2>2. /\ NodeAt(p, i) = NULL /\ i \in 0..Len(p)
        /\ i = 0 => \A k \in Inside(List) : List.nodes[k].id # id
    BY <1>1, <1>3, <2>1, FindByIdFacts DEF Hashed
  <2>3. i = 0
    <3>1. Len(p) \in Nat /\ \A j \in 1..Len(p) : p[j] \in Node
      BY <1>1, LinkedFacts
    <3>2. NULL \notin Node
      BY ListAssumption
    <3>. QED BY <2>2, <3>1, <3>2 DEF NodeAt
  <2>. QED BY <1>3, <2>2, <2>3
<1>. QED BY <1>1, <1>2, <1>3 DEF Fresh

LEMMA PushStep ==
  ASSUME NEW p, Along(p), CallPush
  PROVE  ListInv' /\ Sequence!SeqNext
<1>1. PICK ln \in {n \in Node : nodes[n] = NULL}, id \in Ids, data \in Data :
        /\ Hashed => ListFindNodeById(List, id) = NULL
        /\ Calls("ListPush", id, data, ListPush(List, ln, id, data), result)
  BY DEF CallPush, Adds
<1>2. Fresh(List, p, ln, id, data, hash_table_size)
  BY <1>1, AddsStep
<1>3. PICK m, q : m = ListPush(List, ln, id, data) /\ q = <<ln>> \o p
  OBVIOUS
<1>4. Added(List, m, q, ln, id, data, hash_table_size)
  BY <1>2, <1>3, PushAdds
<1>5. GoodList(m, q, hash_table_size) /\ Calls("ListPush", id, data, m, result)
  BY <1>1, <1>3, <1>4 DEF Added
<1>6. /\ ListInv' /\ Items' = ItemsOf(m, q)
      /\ call' = [op |-> "ListPush", id |-> id, data |-> data] /\ result' = result
  BY <1>5, CallLeaves
<1>7. Items' = <<[id |-> id, data |-> data]>> \o Items
  <2>1. ItemsOf(m, q) = <<[id |-> id, data |-> data]>> \o ItemsOf(List, p)
    BY <1>2, <1>3, <1>4, PushItems
  <2>2. Items = ItemsOf(List, p)
    BY GoodItems DEF Along
  <2>. QED BY <1>6, <2>1, <2>2
<1>8. Sequence!Push(id, data)
  BY <1>6, <1>7 DEF Sequence!Push, Sequence!Called, Sequence!Item
<1>. QED BY <1>6, <1>8 DEF Sequence!SeqNext

LEMMA AppendStep ==
  ASSUME NEW p, Along(p), CallAppend
  PROVE  ListInv' /\ Sequence!SeqNext
<1>1. PICK ln \in {n \in Node : nodes[n] = NULL}, id \in Ids, data \in Data :
        /\ Hashed => ListFindNodeById(List, id) = NULL
        /\ Calls("ListAppend", id, data, ListAppend(List, ln, id, data), result)
  BY DEF CallAppend, Adds
<1>2. Fresh(List, p, ln, id, data, hash_table_size)
  BY <1>1, AddsStep
<1>3. PICK m, q : m = ListAppend(List, ln, id, data) /\ q = Append(p, ln)
  OBVIOUS
<1>4. Added(List, m, q, ln, id, data, hash_table_size)
  BY <1>2, <1>3, AppendAdds
<1>5. GoodList(m, q, hash_table_size) /\ Calls("ListAppend", id, data, m, result)
  BY <1>1, <1>3, <1>4 DEF Added
<1>6. /\ ListInv' /\ Items' = ItemsOf(m, q)
      /\ call' = [op |-> "ListAppend", id |-> id, data |-> data] /\ result' = result
  BY <1>5, CallLeaves
<1>7. Items' = Append(Items, [id |-> id, data |-> data])
  <2>1. ItemsOf(m, q) = Append(ItemsOf(List, p), [id |-> id, data |-> data])
    BY <1>2, <1>3, <1>4, AppendItems
  <2>2. Items = ItemsOf(List, p)
    BY GoodItems DEF Along
  <2>. QED BY <1>6, <2>1, <2>2
<1>8. Sequence!Appends(id, data)
  BY <1>6, <1>7 DEF Sequence!Appends, Sequence!Called, Sequence!Item
<1>. QED BY <1>6, <1>8 DEF Sequence!SeqNext

\* What a call that leaves the list alone does.
LEMMA LooksStep ==
  ASSUME NEW p, Along(p), NEW op, NEW id, NEW data, NEW answer,
         Calls(op, id, data, List, answer)
  PROVE  /\ ListInv' /\ Items' = Items
         /\ call' = [op |-> op, id |-> id, data |-> data] /\ result' = answer
BY CallLeaves, GoodItems DEF Along

\* The node at a place, with its data.
LEMMA AtFacts ==
  ASSUME NEW p, Along(p), NEW i \in 0..Len(p)
  PROVE  /\ NodeAt(p, i) = NULL <=> i = 0
         /\ DataOf(NodeAt(p, i)) = IF i = 0 THEN NULL ELSE Items[i].data
<1>1. GoodList(List, p, hash_table_size) /\ Linked(List, p) /\ List.nodes = nodes
  BY DEF Along, GoodList, List
<1>2. Len(p) \in Nat /\ \A j \in 1..Len(p) : p[j] \in Node
  BY <1>1, LinkedFacts
<1>3. NULL \notin Node
  BY ListAssumption
<1>4. i # 0 => i \in 1..Len(p) /\ p[i] # NULL
  BY <1>2, <1>3
<1>5. i # 0 => Items[i].data = nodes[p[i]].data
  <2>1. i # 0 => Items[i] = ItemOf(List, p[i])
    BY <1>1, <1>4, GoodItems, ItemsFacts
  <2>. QED BY <1>1, <1>4, <2>1, ItemOfFacts
<1>. QED BY <1>4, <1>5 DEF NodeAt, DataOf

\* A call that takes out the node at a place, or none.
LEMMA TakesStep ==
  ASSUME NEW p, Along(p), NEW i \in 0..Len(p), NEW op, NEW id, NEW m,
         m = IF i = 0 THEN List ELSE ListRemoveNode(List, p[i]),
         Calls(op, id, NULL, m, DataOf(NodeAt(p, i)))
  PROVE  /\ ListInv' /\ Sequence!TakesOut(i)
         /\ call' = [op |-> op, id |-> id, data |-> NULL]
<1>1. GoodList(List, p, hash_table_size) /\ Len(p) \in Nat
  <2>1. GoodList(List, p, hash_table_size) /\ Linked(List, p)
    BY DEF Along, GoodList
  <2>. QED BY <2>1, LinkedFacts
<1>2. Items = ItemsOf(List, p)
  BY <1>1, GoodItems
<1>3. DataOf(NodeAt(p, i)) = IF i = 0 THEN NULL ELSE Items[i].data
  BY AtFacts
<1>4. CASE i = 0
  <2>1. /\ ListInv' /\ Items' = Items /\ result' = NULL
        /\ call' = [op |-> op, id |-> id, data |-> NULL]
    BY <1>3, <1>4, LooksStep
  <2>. QED BY <1>4, <2>1 DEF Sequence!TakesOut
<1>5. CASE i # 0
  <2>1. i \in 1..Len(p) /\ m = ListRemoveNode(List, p[i])
    BY <1>1, <1>5
  <2>2. PICK q : q = RemoveAt(p, i)
    OBVIOUS
  <2>3. Removed(List, m, p, i, hash_table_size)
    BY <1>1, <2>1, RemoveNodeGood
  <2>4. GoodList(m, q, hash_table_size) /\ ItemsOf(m, q) = RemoveAt(ItemsOf(List, p), i)
    BY <1>1, <2>1, <2>2, <2>3, RemovedItems DEF Removed
  <2>5. /\ ListInv' /\ Items' = ItemsOf(m, q) /\ result' = Items[i].data
        /\ call' = [op |-> op, id |-> id, data |-> NULL]
    BY <1>3, <1>5, <2>4, CallLeaves
  <2>6. Items' = Sequence!RemoveAt(Items, i)
    BY <1>2, <2>4, <2>5 DEF RemoveAt, Sequence!RemoveAt
  <2>. QED BY <1>5, <2>5, <2>6 DEF Sequence!TakesOut
<1>. QED BY <1>4, <1>5

LEMMA DequeueStep ==
  ASSUME NEW p, Along(p), CallDequeue
  PROVE  ListInv' /\ Sequence!SeqNext
<1>1. GoodList(List, p, hash_table_size) /\ Linked(List, p) /\ List.head = head
  BY DEF Along, GoodList, List
<1>2. /\ Len(p) \in Nat /\ (p = <<>> <=> Len(p) = 0)
      /\ head = IF p = <<>> THEN Sentinel ELSE p[1]
      /\ \A i \in 1..Len(p) : p[i] \in Node
  BY <1>1, LinkedFacts
<1>3. /\ Items = ItemsOf(List, p) /\ Items \in Seq(ItemType) /\ Len(Items) = Len(p)
      /\ \A i \in 1..Len(p) : Items[i] = ItemOf(List, p[i])
  BY <1>1, GoodItems, ItemsFacts
<1>4. CASE p = <<>>
  <2>1. ListEmpty(List) /\ Items = <<>>
    BY <1>1, <1>2, <1>3, <1>4, EmptySeq DEF ListEmpty
  <2>2. Calls("ListDequeue", 0, NULL, List, NULL)
    BY <2>1 DEF CallDequeue
  <2>3. /\ ListInv' /\ Items' = Items /\ result' = NULL
        /\ call' = [op |-> "ListDequeue", id |-> 0, data |-> NULL]
    BY <2>2, LooksStep
  <2>4. Sequence!Dequeue
    BY <2>1, <2>3 DEF Sequence!Dequeue, Sequence!Called
  <2>. QED BY <2>3, <2>4 DEF Sequence!SeqNext
<1>5. CASE p # <<>>
  <2>1. 1 \in 1..Len(p) /\ head = p[1] /\ head \in Node
    BY <1>2, <1>5
  <2>2. ~ListEmpty(List)
    BY <1>1, <2>1, ListAssumption DEF ListEmpty
  <2>3. PICK m, q : m = ListDequeue(List) /\ q = RemoveAt(p, 1)
    OBVIOUS
  <2>4. Calls("ListDequeue", 0, NULL, m, nodes[head].data)
    BY <2>2, <2>3 DEF CallDequeue
  <2>5. Cuttable(List, p, Inside(List), 1, hash_table_size)
    BY <1>1, <2>1 DEF GoodList, Cuttable
  <2>6. Removed(List, m, p, 1, hash_table_size)
    BY <2>3, <2>5, DequeueGood
  <2>7. GoodList(m, q, hash_table_size) /\ ItemsOf(m, q) = RemoveAt(Items, 1)
    BY <1>1, <1>3, <2>1, <2>3, <2>6, RemovedItems DEF Removed
  <2>8. /\ ListInv' /\ Items' = RemoveAt(Items, 1) /\ result' = nodes[head].data
        /\ call' = [op |-> "ListDequeue", id |-> 0, data |-> NULL]
    BY <2>4, <2>7, CallLeaves
  <2>9. Items # <<>>
    BY <1>2, <1>3, <1>5, EmptySeq
  <2>10. RemoveAt(Items, 1) = Tail(Items) /\ Head(Items) = Items[1]
    BY <1>3, <2>9, WithoutFirst
  <2>11. Items[1].data = nodes[head].data
    <3>1. Items[1] = ItemOf(List, head) /\ List.nodes = nodes
      BY <1>3, <2>1 DEF List
    <3>. QED BY <3>1, ItemOfFacts
  <2>12. Sequence!Dequeue
    BY <2>8, <2>9, <2>10, <2>11 DEF Sequence!Dequeue, Sequence!Called
  <2>. QED BY <2>8, <2>12 DEF Sequence!SeqNext
<1>. QED BY <1>4, <1>5

\* Where a call finds an id, in the nodes and in the items.
LEMMA FindStep ==
  ASSUME NEW p, Along(p), NEW id \in Ids, NEW i, i = FirstOf(IdAt(List, p, id))
  PROVE  /\ i \in 0..Len(p) /\ FindNode(List, id) = NodeAt(p, i)
         /\ i = Sequence!SelectInSeq(Items, LAMBDA e : e.id = id)
<1>1. GoodList(List, p, hash_table_size) /\ Linked(List, p) /\ id \in Nat
  BY ListAssumption DEF Along, GoodList
<1>2. Items = ItemsOf(List, p)
  BY <1>1, GoodItems
<1>3. i \in 0..Len(p) /\ FindNode(List, id) = NodeAt(p, i)
  BY <1>1, FindByIdFacts, FindNodeFacts
<1>. QED BY <1>1, <1>2, <1>3, SelectItems

LEMMA FindByIdStep ==
  ASSUME NEW p, Along(p), CallFindById
  PROVE  ListInv' /\ Sequence!SeqNext
<1>1. PICK id \in Ids : Calls("ListFindById", id, NULL, List, DataOf(FindNode(List, id)))
  BY DEF CallFindById
<1>2. PICK i : i = FirstOf(IdAt(List, p, id))
  OBVIOUS
<1>3. /\ i \in 0..Len(p) /\ FindNode(List, id) = NodeAt(p, i)
      /\ i = Sequence!SelectInSeq(Items, LAMBDA e : e.id = id)
  BY <1>2, FindStep
<1>4. /\ ListInv' /\ Items' = Items /\ result' = DataOf(NodeAt(p, i))
      /\ call' = [op |-> "ListFindById", id |-> id, data |-> NULL]
  BY <1>1, <1>3, LooksStep
<1>5. DataOf(NodeAt(p, i)) = IF i = 0 THEN NULL ELSE Items[i].data
  BY <1>3, AtFacts
<1>6. Sequence!FindById(id)
  BY <1>3, <1>4, <1>5 DEF Sequence!FindById, Sequence!Called
<1>. QED BY <1>4, <1>6 DEF Sequence!SeqNext

LEMMA RemoveByIdStep ==
  ASSUME NEW p, Along(p), CallRemoveById
  PROVE  ListInv' /\ Sequence!SeqNext
<1>1. PICK id \in Ids : Removes("ListRemoveById", id, FindNode(List, id))
  BY DEF CallRemoveById
<1>2. PICK i : i = FirstOf(IdAt(List, p, id))
  OBVIOUS
<1>3. /\ i \in 0..Len(p) /\ FindNode(List, id) = NodeAt(p, i)
      /\ i = Sequence!SelectInSeq(Items, LAMBDA e : e.id = id)
  BY <1>2, FindStep
<1>4. PICK m : m = IF i = 0 THEN List ELSE ListRemoveNode(List, p[i])
  OBVIOUS
<1>5. Calls("ListRemoveById", id, NULL, m, DataOf(NodeAt(p, i)))
  <2>1. NodeAt(p, i) = NULL <=> i = 0
    BY <1>3, AtFacts
  <2>2. i # 0 => NodeAt(p, i) = p[i]
    BY DEF NodeAt
  <2>. QED BY <1>1, <1>3, <1>4, <2>1, <2>2 DEF Removes
<1>6. /\ ListInv' /\ Sequence!TakesOut(i)
      /\ call' = [op |-> "ListRemoveById", id |-> id, data |-> NULL]
  BY <1>3, <1>4, <1>5, TakesStep
<1>7. Sequence!RemoveById(id)
  BY <1>3, <1>6 DEF Sequence!RemoveById, Sequence!Called
<1>. QED BY <1>6, <1>7 DEF Sequence!SeqNext

LEMMA FindFirstLessStep ==
  ASSUME NEW p, Along(p), CallFindFirstLess
  PROVE  ListInv' /\ Sequence!SeqNext
<1>1. PICK id \in Ids :
        LET first == FirstIn(Forward(List), LAMBDA n : nodes[n].id <= id)
            again == IF first = NULL THEN NULL ELSE FindNode(List, nodes[first].id)
        IN Calls("ListFindFirstLessThanIdAndRemove", id, NULL,
                 IF again = NULL THEN List ELSE ListRemoveNode(List, again), DataOf(first))
  BY DEF CallFindFirstLess
<1>2. GoodList(List, p, hash_table_size) /\ List.nodes = nodes
  BY DEF Along, List
<1>3. PICK i : i = FirstOf(LessAt(List, p, id))
  OBVIOUS
<1>4. /\ i \in 0..Len(p)
      /\ FirstLess(List, id) = NodeAt(p, i)
      /\ i # 0 => p[i] # NULL /\ FindNode(List, List.nodes[p[i]].id) = p[i]
  BY <1>2, <1>3, FindFirstLessFacts
<1>5. PICK first, again : /\ first = NodeAt(p, i)
                          /\ again = IF first = NULL THEN NULL ELSE FindNode(List, nodes[first].id)
  OBVIOUS
<1>6. FirstIn(Forward(List), LAMBDA n : nodes[n].id <= id) = first
  BY <1>2, <1>4, <1>5 DEF FirstLess, FirstIn, SelectInSeq
<1>7. Calls("ListFindFirstLessThanIdAndRemove", id, NULL,
            IF again = NULL THEN List ELSE ListRemoveNode(List, again), DataOf(first))
  BY <1>1, <1>5, <1>6
<1>8. (i = 0 => first = NULL /\ again = NULL)
      /\ (i # 0 => first = p[i] /\ again = p[i] /\ again # NULL)
  BY <1>2, <1>4, <1>5 DEF NodeAt
<1>9. PICK m : m = IF i = 0 THEN List ELSE ListRemoveNode(List, p[i])
  OBVIOUS
<1>10. Calls("ListFindFirstLessThanIdAndRemove", id, NULL, m, DataOf(NodeAt(p, i)))
  BY <1>5, <1>7, <1>8, <1>9
<1>11. /\ ListInv' /\ Sequence!TakesOut(i)
       /\ call' = [op |-> "ListFindFirstLessThanIdAndRemove", id |-> id, data |-> NULL]
  BY <1>4, <1>9, <1>10, TakesStep
<1>12. i = Sequence!SelectInSeq(Items, LAMBDA e : e.id <= id)
  BY <1>2, <1>3, GoodItems, SelectItems
<1>13. Sequence!FindFirstLessThanIdAndRemove(id)
  BY <1>11, <1>12 DEF Sequence!FindFirstLessThanIdAndRemove, Sequence!Called
<1>. QED BY <1>11, <1>13 DEF Sequence!SeqNext

\* ListPeak reads the data of the sentinel of an empty list.
LEMMA PeakStep ==
  ASSUME NEW p, Along(p), CallPeak
  PROVE  ListInv' /\ Sequence!SeqNext
<1>1. /\ GoodList(List, p, hash_table_size) /\ Linked(List, p)
      /\ List.head = head /\ List.nodes = nodes /\ nodes[Sentinel].data = NULL
  BY DEF Along, GoodList, List
<1>2. /\ Len(p) \in Nat /\ (p = <<>> <=> Len(p) = 0)
      /\ head = IF p = <<>> THEN Sentinel ELSE p[1]
  BY <1>1, LinkedFacts
<1>3. /\ Items \in Seq(ItemType) /\ Len(Items) = Len(p)
      /\ \A i \in 1..Len(p) : Items[i] = ItemOf(List, p[i])
  BY <1>1, GoodItems, ItemsFacts
<1>4. /\ ListInv' /\ Items' = Items /\ result' = nodes[head].data
      /\ call' = [op |-> "ListPeak", id |-> 0, data |-> NULL]
  <2>1. Calls("ListPeak", 0, NULL, List, nodes[head].data)
    BY DEF CallPeak
  <2>. QED BY <2>1, LooksStep
<1>5. nodes[head].data = IF Items = <<>> THEN NULL ELSE Head(Items).data
  <2>1. CASE p = <<>>
    BY <1>1, <1>2, <1>3, <2>1, EmptySeq
  <2>2. CASE p # <<>>
    <3>1. 1 \in 1..Len(p) /\ Items # <<>>
      BY <1>2, <1>3, <2>2, EmptySeq
    <3>2. Head(Items) = Items[1]
      BY <1>3, <3>1, WithoutFirst
    <3>3. Items[1] = ItemOf(List, head)
      BY <1>2, <1>3, <2>2, <3>1
    <3>. QED BY <1>1, <3>1, <3>2, <3>3, ItemOfFacts
  <2>. QED BY <2>1, <2>2
<1>6. Sequence!Peak
  BY <1>4, <1>5 DEF Sequence!Peak, Sequence!Called
<1>. QED BY <1>4, <1>6 DEF Sequence!SeqNext

-----------------------------------------------------------------------------
(* The list, always *)

LEMMA ListInitGood ==
  ASSUME ListInit
  PROVE  ListInv /\ Sequence!SeqInit
<1>1. hash_table_size \in Nat
  BY ListAssumption DEF ListInit
<1>2. /\ head = Sentinel
      /\ nodes = [n \in Nodes |-> IF n = Sentinel THEN NewNode(0, NULL) ELSE NULL]
      /\ hash_table = [b \in 0..hash_table_size - 1 |-> NULL]
  BY DEF ListInit, Nodes
<1>3. NewNode(0, NULL) \in NodeFields /\ NewNode(0, NULL).data = NULL /\ NewNode(0, NULL) # NULL
  <2>1. NewNode(0, NULL) \in NodeFields
    BY MakeFields DEF NewNode
  <2>. QED BY <2>1, FieldFacts DEF NewNode
<1>4. PICK l : l = List
  OBVIOUS
<1>5. l = [head |-> head, nodes |-> nodes, table |-> hash_table]
  BY <1>4 DEF List
<1>6. Sentinel \in Nodes /\ \A n \in Node : n \in Nodes /\ n # Sentinel
  BY ListAssumption DEF Nodes
<1>7. ListTypes(l, hash_table_size)
  BY <1>1, <1>2, <1>3, <1>5, <1>6 DEF ListTypes
<1>8. Inside(l) = {}
  BY <1>2, <1>5, <1>6 DEF Inside
<1>9. /\ Len(<<>>) = 0 /\ Range(<<>>) = {}
      /\ \A ends, next : Leads(<<>>, ends, next, ends)
  <2>1. <<>> \in Seq(Node) /\ Len(<<>>) = 0
    BY EmptySeq
  <2>2. DOMAIN <<>> = {}
    OBVIOUS
  <2>3. Range(<<>>) = {} /\ IsInjective(<<>>)
    BY <2>2 DEF Range, IsInjective
  <2>. QED BY <2>1, <2>3 DEF Leads
<1>10. Linked(l, <<>>)
  <2>1. l.head = Sentinel
    BY <1>2, <1>5
  <2>2. Leads(<<>>, l.head, NextOf(l), Sentinel)
    BY <1>9, <2>1
  <2>. QED BY <1>8, <1>9, <2>2 DEF Linked
<1>11. Chained(l, Inside(l), hash_table_size)
  <2>. SUFFICES ASSUME NEW b \in 0..hash_table_size - 1
                PROVE  ChainIs(l, Inside(l), b, <<>>, hash_table_size)
    BY DEF Chained
  <2>1. l.table[b] = NULL
    BY <1>2, <1>5
  <2>2. Leads(<<>>, l.table[b], CollissionOf(l), NULL)
    BY <1>9, <2>1
  <2>. QED BY <1>8, <1>9, <2>2 DEF ChainIs, InBucket
<1>12. GoodList(List, <<>>, hash_table_size)
  BY <1>2, <1>3, <1>4, <1>5, <1>6, <1>7, <1>8, <1>10, <1>11 DEF GoodList, UniqueIds
<1>13. Items = <<>>
  <2>1. Items = ItemsOf(List, <<>>)
    BY <1>12, GoodItems
  <2>2. Items \in Seq(ItemType) /\ Len(Items) = 0
    BY <1>9, <1>12, <2>1, ItemsFacts
  <2>. QED BY <2>2, EmptySeq
<1>. QED BY <1>12, <1>13 DEF ListInv, ListInit, Sequence!SeqInit

LEMMA ListNextGood ==
  ASSUME ListInv, [ListNext]_listVars
  PROVE  ListInv' /\ [Sequence!SeqNext]_(Sequence!seqVars)
<1>1. PICK p : Along(p)
  BY DEF ListInv, Along
<1>2. CASE ListNext
  BY <1>1, <1>2, PushStep, AppendStep, DequeueStep, FindByIdStep, RemoveByIdStep,
     FindFirstLessStep, PeakStep DEF ListNext
<1>3. CASE UNCHANGED listVars
  <2>1. List' = List /\ UNCHANGED <<hash_table_size, nodes, call, result>>
    BY <1>3 DEF listVars, List
  <2>2. ListInv'
    BY <1>1, <2>1 DEF ListInv, Along
  <2>3. Items' = Items
    BY <2>1 DEF Items
  <2>. QED BY <2>1, <2>2, <2>3 DEF Sequence!seqVars
<1>. QED BY <1>2, <1>3

\* Whatever is called in whatever order, the links of a list of List.c agree: forwards,
\* backwards, at the sentinel and in the table, and what ListRemoveNode frees is in none of
\* them.
THEOREM LinksAgreeAlways == ListSpec => []LinksAgree
<1>1. ListInit => ListInv
  BY ListInitGood
<1>2. ListInv /\ [ListNext]_listVars => ListInv'
  BY ListNextGood
<1>3. ListInv => LinksAgree
  BY GoodAgrees DEF ListInv
<1>. QED BY <1>1, <1>2, <1>3, PTL DEF ListSpec

\* The lists of List.c are sequences of items: each call of List.h changes the sequence and
\* answers as it does for the sequence, with a table or without.
THEOREM ListImplementsSequence == ListSpec => ListIsSequence
<1>1. ListInit => ListInv /\ Sequence!SeqInit
  BY ListInitGood
<1>2. ListInv /\ [ListNext]_listVars => ListInv'
  BY ListNextGood
<1>3. ListInv /\ [ListNext]_listVars => [Sequence!SeqNext]_(Sequence!seqVars)
  BY ListNextGood
<1>. QED BY <1>1, <1>2, <1>3, PTL DEF ListSpec, ListIsSequence, Sequence!SeqSpec
==============================================================================
