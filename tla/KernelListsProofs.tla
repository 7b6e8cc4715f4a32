------------------------- MODULE KernelListsProofs -------------------------
(***************************************************************************)
(* Facts about the list operators of KernelLists.                          *)
(***************************************************************************)
EXTENDS KernelLists, SequenceTheorems, FiniteSetTheorems, TLAPS

\* ListAppend adds one element at the end.
LEMMA AppendFacts ==
  ASSUME NEW S, NEW q \in Seq(S), NEW x \in S
  PROVE  /\ Append(q, x) \in Seq(S)
         /\ Append(q, x) # <<>>
         /\ Range(Append(q, x)) = Range(q) \cup {x}
         /\ NoDuplicates(q) /\ x \notin Range(q) => NoDuplicates(Append(q, x))
<1>1. /\ Append(q, x) \in Seq(S)
      /\ DOMAIN Append(q, x) = 1..Len(q) + 1
      /\ \A i \in 1..Len(q) : Append(q, x)[i] = q[i]
      /\ Append(q, x)[Len(q) + 1] = x
      /\ DOMAIN q = 1..Len(q)
      /\ Len(q) \in Nat
  OBVIOUS
<1>2. Range(Append(q, x)) = Range(q) \cup {x}
  <2>1. ASSUME NEW y \in Range(Append(q, x)) PROVE y \in Range(q) \cup {x}
    BY <1>1, <2>1 DEF Range
  <2>2. ASSUME NEW y \in Range(q) PROVE y \in Range(Append(q, x))
    <3>1. PICK i \in 1..Len(q) : y = q[i]
      BY <1>1, <2>2 DEF Range
    <3>2. i \in 1..Len(q) + 1 /\ Append(q, x)[i] = y
      BY <1>1, <3>1
    <3>. QED BY <1>1, <3>2 DEF Range
  <2>3. x \in Range(Append(q, x))
    BY <1>1, Len(q) + 1 \in 1..Len(q) + 1 DEF Range
  <2>. QED BY <2>1, <2>2, <2>3
<1>3. NoDuplicates(q) /\ x \notin Range(q) => NoDuplicates(Append(q, x))
  BY DEF NoDuplicates, Range
<1>. QED BY <1>1, <1>2, <1>3

\* ListDequeue takes the head off; the other elements stay.
LEMMA HeadTailFacts ==
  ASSUME NEW S, NEW q \in Seq(S), q # <<>>
  PROVE  /\ Head(q) \in S
         /\ Tail(q) \in Seq(S)
         /\ Head(q) \in Range(q)
         /\ Range(q) = Range(Tail(q)) \cup {Head(q)}
         /\ NoDuplicates(q) => NoDuplicates(Tail(q)) /\ Head(q) \notin Range(Tail(q))
<1>1. Head(q) \in S /\ Tail(q) \in Seq(S)
  OBVIOUS
<1>2. Head(q) \in Range(q)
  BY DEF Range
<1>3. Range(q) = Range(Tail(q)) \cup {Head(q)}
  <2>1. /\ Len(q) \in Nat \ {0}
        /\ DOMAIN q = 1..Len(q)
        /\ DOMAIN Tail(q) = 1..Len(q) - 1
        /\ Head(q) = q[1]
        /\ \A i \in 1..Len(q) - 1 : Tail(q)[i] = q[i + 1]
    OBVIOUS
  <2>2. ASSUME NEW y \in Range(q), y # Head(q) PROVE y \in Range(Tail(q))
    <3>1. PICK i \in 1..Len(q) : y = q[i]
      BY <2>1 DEF Range
    <3>2. i - 1 \in 1..Len(q) - 1 /\ Tail(q)[i - 1] = y
      BY <2>1, <2>2, <3>1
    <3>. QED BY <2>1, <3>2 DEF Range
  <2>3. ASSUME NEW y \in Range(Tail(q)) PROVE y \in Range(q)
    <3>1. PICK i \in 1..Len(q) - 1 : y = Tail(q)[i]
      BY <2>1 DEF Range
    <3>2. i + 1 \in 1..Len(q) /\ q[i + 1] = y
      BY <2>1, <3>1
    <3>. QED BY <2>1, <3>2 DEF Range
  <2>. QED BY <1>2, <2>2, <2>3
<1>4. NoDuplicates(q) => NoDuplicates(Tail(q)) /\ Head(q) \notin Range(Tail(q))
  BY DEF NoDuplicates, Range
<1>. QED BY <1>1, <1>2, <1>3, <1>4

LEMMA ConcatFacts ==
  ASSUME NEW S, NEW q \in Seq(S), NEW r \in Seq(S)
  PROVE  /\ q \o r \in Seq(S)
         /\ Range(q \o r) = Range(q) \cup Range(r)
         /\ NoDuplicates(q) /\ NoDuplicates(r) /\ Range(q) \cap Range(r) = {}
              => NoDuplicates(q \o r)
<1>1. q \o r \in Seq(S)
  OBVIOUS
<1>2. Range(q \o r) = Range(q) \cup Range(r)
  BY RangeConcatenation
<1>3. NoDuplicates(q) /\ NoDuplicates(r) /\ Range(q) \cap Range(r) = {}
        => NoDuplicates(q \o r)
  BY DEF NoDuplicates, Range
<1>. QED BY <1>1, <1>2, <1>3

LEMMA EmptyFacts ==
  /\ Range(<<>>) = {}
  /\ NoDuplicates(<<>>)
  /\ \A S : <<>> \in Seq(S)
  /\ \A S : \A q \in Seq(S) : Range(q) \subseteq S
  /\ \A S : \A q \in Seq(S) : Range(q) = {} <=> q = <<>>
BY DEF Range, NoDuplicates

\* A sublist has the elements at its positions, each as often as there.
LEMMA SublistFacts ==
  ASSUME NEW S, NEW q \in Seq(S), NEW P \in SUBSET DOMAIN q, NEW s \in SublistAt(q, P)
  PROVE  /\ s \in Seq(S)
         /\ Range(s) = {q[i] : i \in P}
         /\ NoDuplicates(q) => NoDuplicates(s)
<1>. PICK f \in InOrder(P) : s = [i \in DOMAIN f |-> q[f[i]]]
  BY DEF SublistAt
<1>1. IsFiniteSet(P) /\ Cardinality(P) \in Nat
  <2>1. Len(q) \in Nat /\ DOMAIN q = 1..Len(q) /\ 1 \in Int
    OBVIOUS
  <2>2. IsFiniteSet(1..Len(q))
    BY <2>1, FS_Interval
  <2>3. IsFiniteSet(P)
    BY <2>1, <2>2, FS_Subset
  <2>. QED BY <2>3, FS_CardinalityType
<1>. DEFINE n == Cardinality(P)
<1>2. /\ f \in [1..n -> P]
      /\ Range(f) = P
      /\ \A i, j \in 1..n : i < j => f[i] < f[j]
  BY DEF InOrder
<1>3. s \in Seq(S)
  <2>1. \A i \in 1..n : q[f[i]] \in S
    BY <1>2
  <2>2. s = [i \in 1..n |-> q[f[i]]]
    BY <1>2
  <2>. QED BY <1>1, <2>1, <2>2, IsASeq
<1>4. Range(s) = {q[i] : i \in P}
  BY <1>2 DEF Range
<1>5. NoDuplicates(q) => NoDuplicates(s)
  <2>. SUFFICES ASSUME NoDuplicates(q), NEW i \in 1..n, NEW j \in 1..n, i # j
                PROVE  s[i] # s[j]
    BY <1>2 DEF NoDuplicates
  <2>1. f[i] # f[j] /\ f[i] \in DOMAIN q /\ f[j] \in DOMAIN q
    BY <1>1, <1>2
  <2>. QED BY <1>2, <2>1 DEF NoDuplicates
<1>. QED BY <1>3, <1>4, <1>5

\* Two sublists at complementary positions share out the elements of the list.
LEMMA SplitFacts ==
  ASSUME NEW S, NEW q \in Seq(S), NoDuplicates(q), NEW P \in SUBSET DOMAIN q,
         NEW s \in SublistAt(q, P), NEW t \in SublistAt(q, DOMAIN q \ P)
  PROVE  /\ s \in Seq(S) /\ NoDuplicates(s)
         /\ t \in Seq(S) /\ NoDuplicates(t)
         /\ Range(s) \cup Range(t) = Range(q)
         /\ Range(s) \cap Range(t) = {}
<1>1. s \in Seq(S) /\ NoDuplicates(s) /\ Range(s) = {q[i] : i \in P}
  BY SublistFacts
<1>2. DOMAIN q \ P \in SUBSET DOMAIN q
  OBVIOUS
<1>3. t \in Seq(S) /\ NoDuplicates(t) /\ Range(t) = {q[i] : i \in DOMAIN q \ P}
  BY <1>2, SublistFacts
<1>4. Range(s) \cup Range(t) = Range(q)
  BY <1>1, <1>3 DEF Range
<1>5. Range(s) \cap Range(t) = {}
  <2>. SUFFICES ASSUME NEW i \in P, NEW j \in DOMAIN q \ P, q[i] = q[j] PROVE FALSE
    BY <1>1, <1>3
  <2>. QED BY DEF NoDuplicates
<1>. QED BY <1>1, <1>3, <1>4, <1>5

\* ListRemoveById takes one element out and leaves the others.
LEMMA WithoutIdFacts ==
  ASSUME NEW S, NEW q \in Seq(S), NEW x, NEW s \in WithoutId(q, x)
  PROVE  /\ s \in Seq(S)
         /\ Range(s) = Range(q) \ {x}
         /\ NoDuplicates(q) => NoDuplicates(s)
<1>. DEFINE P == {i \in DOMAIN q : q[i] # x}
<1>1. P \in SUBSET DOMAIN q /\ s \in SublistAt(q, P)
  BY DEF WithoutId
<1>2. /\ s \in Seq(S)
      /\ Range(s) = {q[i] : i \in P}
      /\ NoDuplicates(q) => NoDuplicates(s)
  BY <1>1, SublistFacts
<1>. QED BY <1>2 DEF Range

=============================================================================
