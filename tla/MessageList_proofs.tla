-------------------------- MODULE MessageList_proofs --------------------------
(***************************************************************************)
(* Proofs about the message lists on the heap, for any sets of peers and   *)
(* texts and any finite heap.                                              *)
(*                                                                         *)
(* None of the properties is inductive: that the tail insert_new_message   *)
(* writes to is live follows from the shape of the whole list, and that    *)
(* delete_message frees no node of another list from the shape of all of   *)
(* them.  ListInv says what that shape is (Chain for a list, Shape for the *)
(* table with its lists).  The first part relates it to ListFrom, which    *)
(* follows the pointers; the second says what each operation on the heap   *)
(* makes of a list, the third of a table; the rest needs no pointers.      *)
(***************************************************************************)
EXTENDS MessageList, FiniteSetTheorems, SequenceTheorems, WellFoundedInduction,
        NaturalsInduction, TLAPS

Fields == [live : BOOLEAN, content : Texts \cup {NULL},
           next : Nodes \cup {NULL}, prev : Nodes \cup {NULL}]

\* L is the list that starts at n in the heap h: live nodes with a message,
\* tied both ways, none of them twice, and NULL behind the last.
Chain(h, n, L) ==
    /\ L \in Seq(Nodes) /\ L # <<>> /\ L[1] = n
    /\ \A k \in 1..Len(L) : h[L[k]].live /\ h[L[k]].content \in Texts
    /\ \A k \in 1..Len(L) : h[L[k]].next = IF k = Len(L) THEN NULL ELSE L[k + 1]
    /\ \A k \in 2..Len(L) : h[L[k]].prev = L[k - 1]
    /\ \A j, k \in 1..Len(L) : L[j] = L[k] => j = k
-----------------------------------------------------------------------------
(* What ListFrom finds.                                                      *)

\* A list has at most as many nodes as there are.
LEMMA ChainLength ==
  ASSUME NEW h, NEW n, NEW L, Chain(h, n, L)
  PROVE  Len(L) \in Nat /\ Len(L) >= 1 /\ Len(L) <= Cardinality(Nodes) /\ Cardinality(Nodes) \in Nat
<1>1. Len(L) \in Nat /\ Len(L) >= 1
  BY EmptySeq, LenProperties DEF Chain
<1>2. L \in Injection(1..Len(L), Nodes)
  BY DEF Chain, Injection, IsInjective
<1>3. Cardinality(1..Len(L)) <= Cardinality(Nodes)
  BY <1>2, FS_Injection, HeapAssumption
<1>4. Cardinality(1..Len(L)) = Len(L)
  BY <1>1, FS_Interval
<1> QED BY <1>1, <1>3, <1>4, FS_CardinalityType, HeapAssumption

\* The pointers that ListFrom follows.
Steps(h, n, at) ==
    at = [k \in 1..Cardinality(Nodes) |->
             IF k = 1 THEN n
             ELSE IF at[k - 1] = NULL THEN NULL ELSE h[at[k - 1]].next]

LEMMA StepsAreUnique ==
  ASSUME NEW h, NEW n, NEW a, NEW b, Steps(h, n, a), Steps(h, n, b), Cardinality(Nodes) \in Nat
  PROVE  a = b
<1> DEFINE D == {k \in 1..Cardinality(Nodes) : a[k] # b[k]}
           R == {p \in Nat \X Nat : p[1] < p[2]}
<1>1. IsWellFoundedOn(R, Nat)
  BY NatLessThanWellFounded DEF OpToRel
<1>2. SUFFICES ASSUME D # {} PROVE FALSE
  <2>1. \A k \in 1..Cardinality(Nodes) : a[k] = b[k]
    BY <1>2
  <2>2. a = [k \in 1..Cardinality(Nodes) |-> a[k]] /\ b = [k \in 1..Cardinality(Nodes) |-> b[k]]
    BY DEF Steps
  <2> QED BY <2>1, <2>2
<1>3. D \subseteq Nat
  OBVIOUS
<1> HIDE DEF D
<1>4. PICK k \in D : \A m \in D : <<m, k>> \notin R
  BY <1>1, <1>2, <1>3, WFMin
<1>5. k \in 1..Cardinality(Nodes) /\ a[k] # b[k]
  BY DEF D
<1>6. k # 1
  BY <1>5 DEF Steps
<1>7. k - 1 \in 1..Cardinality(Nodes) /\ <<k - 1, k>> \in R
  BY <1>5, <1>6
<1>8. a[k - 1] = b[k - 1]
  BY <1>4, <1>7 DEF D
<1>9. /\ a[k] = IF a[k - 1] = NULL THEN NULL ELSE h[a[k - 1]].next
      /\ b[k] = IF b[k - 1] = NULL THEN NULL ELSE h[b[k - 1]].next
  BY <1>5, <1>6 DEF Steps
<1> QED BY <1>5, <1>8, <1>9

Walk(h, n) == CHOOSE at : Steps(h, n, at)

LEMMA ListIsWalk ==
  ASSUME NEW h, NEW n
  PROVE  ListFrom(h, n) = [k \in {j \in 1..Cardinality(Nodes) : Walk(h, n)[j] # NULL}
                            |-> Walk(h, n)[k]]
  BY DEF ListFrom, Steps, Walk

\* ListFrom finds the list that starts at n, if there is one.
LEMMA ChainIsList ==
  ASSUME NEW h, NEW n, NEW L, Chain(h, n, L)
  PROVE  ListFrom(h, n) = L
<1> DEFINE C == Cardinality(Nodes)
           b == [k \in 1..C |-> IF k <= Len(L) THEN L[k] ELSE NULL]
<1>1. Len(L) \in Nat /\ Len(L) >= 1 /\ Len(L) <= C /\ C \in Nat
  BY ChainLength
<1>2. \A k \in 1..Len(L) : L[k] \in Nodes /\ L[k] # NULL
  BY NullAssumption DEF Chain
<1>3. Steps(h, n, b)
  <2>1. ASSUME NEW k \in 1..C
        PROVE  b[k] = IF k = 1 THEN n ELSE IF b[k - 1] = NULL THEN NULL ELSE h[b[k - 1]].next
    <3>1. CASE k = 1
      BY <3>1, <1>1 DEF Chain
    <3>2. CASE k # 1 /\ k - 1 <= Len(L)
      <4>1. k - 1 \in 1..Len(L) /\ k - 1 \in 1..C
        BY <3>2, <1>1
      <4>2. b[k - 1] = L[k - 1] /\ L[k - 1] # NULL
        BY <4>1, <1>2
      <4>3. h[L[k - 1]].next = IF k - 1 = Len(L) THEN NULL ELSE L[k - 1 + 1]
        BY <4>1 DEF Chain
      <4>4. k - 1 + 1 = k /\ (k - 1 # Len(L) => k <= Len(L)) /\ (k - 1 = Len(L) => ~(k <= Len(L)))
        BY <3>2, <1>1
      <4> QED BY <3>2, <4>2, <4>3, <4>4
    <3>3. CASE k # 1 /\ ~(k - 1 <= Len(L))
      <4>1. k - 1 \in 1..C /\ ~(k <= Len(L))
        BY <3>3, <1>1
      <4> QED BY <3>3, <4>1
    <3> QED BY <3>1, <3>2, <3>3
  <2>2. b = [k \in 1..C |-> IF k = 1 THEN n ELSE IF b[k - 1] = NULL THEN NULL ELSE h[b[k - 1]].next]
    BY <2>1
  <2> HIDE DEF b
  <2> QED BY <2>2 DEF Steps
<1> HIDE DEF b
<1>4. Steps(h, n, Walk(h, n))
  BY <1>3 DEF Walk
<1>5. Walk(h, n) = b
  BY <1>1, <1>3, <1>4, StepsAreUnique
<1>6. ListFrom(h, n) = [k \in {j \in 1..C : b[j] # NULL} |-> b[k]]
  BY <1>5, ListIsWalk
<1>7. \A k \in 1..C : b[k] = IF k <= Len(L) THEN L[k] ELSE NULL
  BY DEF b
<1>8. {j \in 1..C : b[j] # NULL} = 1..Len(L)
  BY <1>1, <1>2, <1>7
<1>9. ListFrom(h, n) = [k \in 1..Len(L) |-> L[k]]
  BY <1>1, <1>6, <1>7, <1>8
<1> QED BY <1>9 DEF Chain
-----------------------------------------------------------------------------
(* What the operations on the heap make of a list.                           *)

\* A list that no assignment touches is a list still.
LEMMA ChainStays ==
  ASSUME NEW h, NEW n, NEW L, Chain(h, n, L), NEW g,
         \A k \in 1..Len(L) : g[L[k]] = h[L[k]]
  PROVE  Chain(g, n, L)
<1>1. 2..Len(L) \subseteq 1..Len(L)
  BY LenProperties DEF Chain
<1> QED BY <1>1 DEF Chain

LEMMA TwoOrMore ==
  ASSUME NEW k \in Nat, k >= 1, k # 1
  PROVE  2 \in 1..k
  OBVIOUS

\* The head is the only node when it has no successor.
LEMMA ChainEnds ==
  ASSUME NEW h, NEW n, NEW L, Chain(h, n, L)
  PROVE  h[n].next = NULL <=> Len(L) = 1
<1>1. Len(L) \in Nat /\ Len(L) >= 1 /\ 1 \in 1..Len(L) /\ L[1] = n /\ L \in Seq(Nodes)
  BY ChainLength DEF Chain
<1>2. h[n].next = IF 1 = Len(L) THEN NULL ELSE L[1 + 1]
  BY <1>1 DEF Chain
<1>3. CASE Len(L) # 1
  <2>1. 1 + 1 = 2 /\ 2 \in 1..Len(L)
    <3>1. 2 \in 1..Len(L)
      BY <1>1, <1>3, TwoOrMore, Zenon
    <3>2. 1 + 1 = 2
      OBVIOUS
    <3> QED BY <3>1, <3>2
  <2>2. L[1 + 1] # NULL
    BY <1>1, <2>1, NullAssumption
  <2> QED BY <1>2, <1>3, <2>2
<1> QED BY <1>2, <1>3

\* new_message writes one node.
Alone(t) == [live |-> TRUE, content |-> t, next |-> NULL, prev |-> NULL]

LEMMA AloneFields ==
  ASSUME NEW t \in Texts
  PROVE  /\ Alone(t) \in Fields
         /\ Alone(t).live /\ Alone(t).content = t /\ Alone(t).next = NULL
BY DEF Alone, Fields

LEMMA NewNode ==
  ASSUME NEW h \in [Nodes -> Fields], NEW n \in Nodes, NEW t \in Texts
  PROVE  /\ NewMessage(h, n, t) \in [Nodes -> Fields]
         /\ \A m \in Nodes : NewMessage(h, n, t)[m] = IF m = n THEN Alone(t) ELSE h[m]
<1>1. NewMessage(h, n, t) = [h EXCEPT ![n] = Alone(t)]
  BY DEF NewMessage, Alone
<1> QED BY <1>1, AloneFields

LEMMA NewNodeType ==
  ASSUME NEW h \in [Nodes -> Fields], NEW n \in Nodes, NEW t \in Texts
  PROVE  NewMessage(h, n, t) \in [Nodes -> Fields]
BY NewNode, Zenon

LEMMA OtherNodes ==
  ASSUME NEW h \in [Nodes -> Fields], NEW n \in Nodes, NEW t \in Texts,
         NEW m \in Nodes, m # n
  PROVE  NewMessage(h, n, t)[m] = h[m]
BY NewNode

\* new_message: a node that is nobody's successor yet is a list of its own.
LEMMA ChainStarts ==
  ASSUME NEW h \in [Nodes -> Fields], NEW n \in Nodes, NEW t \in Texts
  PROVE  Chain(NewMessage(h, n, t), n, <<n>>)
<1>1. <<n>> \in Seq(Nodes) /\ <<n>> # <<>> /\ Len(<<n>>) = 1 /\ <<n>>[1] = n
      /\ 1..Len(<<n>>) = {1} /\ 2..Len(<<n>>) = {}
  OBVIOUS
<1> DEFINE g == NewMessage(h, n, t)
           L == <<n>>
<1>2. g[n].live /\ g[n].content \in Texts /\ g[n].next = NULL
  BY NewNode, AloneFields
<1> HIDE DEF g, L
<1>3. Chain(g, n, L)
  BY <1>1, <1>2 DEF Chain, L
<1> QED BY <1>3 DEF g, L

\* insert_new_message writes two nodes: the new one and the tail.
LEMMA LinkedHeap ==
  ASSUME NEW h \in [Nodes -> Fields], NEW tail \in Nodes, NEW n \in Nodes, tail # n,
         NEW t \in Texts, NEW g, g = Linked(NewMessage(h, n, t), tail, n)
  PROVE  /\ g \in [Nodes -> Fields]
         /\ \A x \in Nodes : x # n /\ x # tail => g[x] = h[x]
         /\ g[tail].live = h[tail].live /\ g[tail].content = h[tail].content
         /\ g[tail].next = n /\ g[tail].prev = h[tail].prev
         /\ g[n].live /\ g[n].content = t /\ g[n].next = NULL /\ g[n].prev = tail
  BY DEF Fields, Linked, NewMessage

\* insert_new_message: the new node becomes the tail.
LEMMA ChainGrows ==
  ASSUME NEW h \in [Nodes -> Fields], NEW m, NEW L, Chain(h, m, L),
         NEW n \in Nodes, NEW t \in Texts, ~h[n].live, NEW g,
         g = Linked(NewMessage(h, n, t), L[Len(L)], n)
  PROVE  /\ g \in [Nodes -> Fields]
         /\ \A x \in Nodes : x # n /\ x # L[Len(L)] => g[x] = h[x]
         /\ \A x \in Nodes : g[x].live <=> h[x].live \/ x = n
         /\ \A k \in 1..Len(L) : g[L[k]].content = h[L[k]].content
         /\ g[n].content = t
         /\ Chain(g, m, Append(L, n))
<1>t. PICK tail : tail = L[Len(L)]
  OBVIOUS
<1>1. /\ Len(L) \in Nat /\ Len(L) >= 1 /\ L \in Seq(Nodes)
      /\ \A k \in 1..Len(L) : L[k] \in Nodes /\ h[L[k]].live
  BY ChainLength DEF Chain
<1>2. Len(L) \in 1..Len(L) /\ tail \in Nodes /\ tail # n
  BY <1>1, <1>t
<1>7. /\ g \in [Nodes -> Fields]
      /\ \A x \in Nodes : x # n /\ x # tail => g[x] = h[x]
  BY <1>2, <1>t, LinkedHeap
<1>8. /\ g[tail].live = h[tail].live /\ g[tail].content = h[tail].content
      /\ g[tail].next = n /\ g[tail].prev = h[tail].prev
      /\ g[n].live /\ g[n].content = t /\ g[n].next = NULL /\ g[n].prev = tail
  BY <1>2, <1>t, LinkedHeap
<1>9. \A k \in 1..Len(L) : L[k] # n /\ (L[k] = tail <=> k = Len(L))
  BY <1>1, <1>2, <1>t DEF Chain
<1> DEFINE M == Append(L, n)
<1>10. /\ M \in Seq(Nodes) /\ Len(M) = Len(L) + 1 /\ M # <<>>
       /\ \A k \in 1..Len(L) : M[k] = L[k]
       /\ M[Len(L) + 1] = n
  BY <1>1
<1> HIDE DEF M
<1>11. \A k \in 1..Len(L) : /\ g[L[k]].live /\ g[L[k]].content = h[L[k]].content
                             /\ g[L[k]].prev = h[L[k]].prev
  BY <1>1, <1>7, <1>8, <1>9
<1>12. \A k \in 1..Len(L) : k # Len(L) => g[L[k]].next = h[L[k]].next
  BY <1>1, <1>7, <1>9
<1>13. Chain(g, m, M)
  <2>1. M[1] = m
    BY <1>1, <1>10 DEF Chain
  <2>2. \A k \in 1..Len(M) : g[M[k]].live /\ g[M[k]].content \in Texts
    <3>1. ASSUME NEW k \in 1..Len(L) PROVE g[M[k]].live /\ g[M[k]].content \in Texts
      BY <3>1, <1>10, <1>11 DEF Chain
    <3>2. g[M[Len(L) + 1]].live /\ g[M[Len(L) + 1]].content \in Texts
      BY <1>8, <1>10
    <3>3. ASSUME NEW k \in 1..Len(M) PROVE k \in 1..Len(L) \/ k = Len(L) + 1
      BY <3>3, <1>1, <1>10
    <3> QED BY <3>1, <3>2, <3>3
  <2>3. ASSUME NEW k \in 1..Len(M)
        PROVE  g[M[k]].next = IF k = Len(M) THEN NULL ELSE M[k + 1]
    <3>1. CASE k = Len(L) + 1
      BY <3>1, <1>8, <1>10
    <3>2. CASE k = Len(L)
      BY <3>2, <1>1, <1>8, <1>10, <1>t
    <3>3. CASE k < Len(L)
      <4>1. k \in 1..Len(L) /\ k + 1 \in 1..Len(L) /\ k # Len(M)
        BY <3>3, <1>1, <1>10
      <4>2. g[L[k]].next = L[k + 1]
        BY <4>1, <3>3, <1>1, <1>12 DEF Chain
      <4> QED BY <4>1, <4>2, <1>10
    <3> QED BY <3>1, <3>2, <3>3, <1>1, <1>10
  <2>4. ASSUME NEW k \in 2..Len(M)
        PROVE  g[M[k]].prev = M[k - 1]
    <3>1. CASE k = Len(L) + 1
      BY <3>1, <1>1, <1>8, <1>10, <1>t
    <3>2. CASE k \in 2..Len(L)
      <4>1. k \in 1..Len(L) /\ k - 1 \in 1..Len(L) /\ h[L[k]].prev = L[k - 1]
        BY <3>2, <1>1 DEF Chain
      <4> QED BY <4>1, <1>10, <1>11
    <3> QED BY <3>1, <3>2, <1>1, <1>10
  <2>5. \A j, k \in 1..Len(M) : M[j] = M[k] => j = k
    BY <1>1, <1>9, <1>10 DEF Chain
  <2> QED BY <1>10, <2>1, <2>2, <2>3, <2>4, <2>5 DEF Chain
<1>14. \A x \in Nodes : g[x].live <=> h[x].live \/ x = n
  <2>1. ASSUME NEW x \in Nodes PROVE g[x].live <=> h[x].live \/ x = n
    BY <1>7, <1>8
  <2> QED BY <2>1
<1> QED BY <1>7, <1>8, <1>11, <1>13, <1>14, <1>t DEF M

\* delete_message: the successor of the head is the head of the others.
LEMMA ChainShrinks ==
  ASSUME NEW h \in [Nodes -> Fields], NEW n \in Nodes, NEW L, Chain(h, n, L),
         NEW copy \in Nodes, ~h[copy].live, NEW g,
         g = FreeNode(FreeNode(NewMessage(h, copy, h[n].content), n), copy)
  PROVE  /\ g \in [Nodes -> Fields]
         /\ \A x \in Nodes : g[x] = IF x = n \/ x = copy THEN Free ELSE h[x]
         /\ h[n].content \in Texts
         /\ h[n].next = NULL => Len(L) = 1
         /\ h[n].next # NULL => Chain(g, h[n].next, Tail(L)) /\ h[n].next \in Nodes
<1>1. /\ Len(L) \in Nat /\ Len(L) >= 1 /\ L \in Seq(Nodes) /\ L[1] = n
      /\ \A k \in 1..Len(L) : L[k] \in Nodes /\ h[L[k]].live
  BY ChainLength DEF Chain
<1>2. h[n].content \in Texts
  BY <1>1 DEF Chain
<1>3. Free \in Fields
  BY DEF Free, Fields
<1>4. /\ g \in [Nodes -> Fields]
      /\ \A x \in Nodes : g[x] = IF x = n \/ x = copy THEN Free ELSE h[x]
  <2>1. /\ NewMessage(h, copy, h[n].content) \in [Nodes -> Fields]
        /\ \A x \in Nodes : x # copy => NewMessage(h, copy, h[n].content)[x] = h[x]
    BY <1>2, NewNodeType, OtherNodes
  <2> QED BY <1>3, <2>1 DEF FreeNode
<1>5. h[n].next = IF 1 = Len(L) THEN NULL ELSE L[2]
  <2>1. 1 \in 1..Len(L) /\ 1 + 1 = 2
    BY <1>1
  <2>2. h[L[1]].next = IF 1 = Len(L) THEN NULL ELSE L[1 + 1]
    BY <2>1 DEF Chain
  <2> QED BY <1>1, <2>1, <2>2
<1>6. ASSUME Len(L) # 1 PROVE Chain(g, L[2], Tail(L))
  <2> DEFINE M == Tail(L)
  <2>1. /\ M \in Seq(Nodes) /\ Len(M) = Len(L) - 1 /\ Len(M) >= 1 /\ M # <<>>
        /\ \A k \in 1..Len(M) : M[k] = L[k + 1] /\ k + 1 \in 1..Len(L)
    <3>1. L # <<>>
      BY DEF Chain
    <3>2. /\ M \in Seq(Nodes) /\ Len(M) = Len(L) - 1
          /\ \A k \in 1..Len(M) : M[k] = L[k + 1]
      BY <1>1, <3>1, HeadTailProperties
    <3> HIDE DEF M
    <3>3. Len(M) >= 1 /\ M # <<>> /\ \A k \in 1..Len(M) : k + 1 \in 1..Len(L)
      BY <1>1, <1>6, <3>2, EmptySeq
    <3> QED BY <3>2, <3>3
  <2> HIDE DEF M
  <2>2. \A k \in 1..Len(M) : M[k] # n /\ M[k] # copy
    BY <1>1, <2>1 DEF Chain
  <2>3. \A k \in 1..Len(M) : g[M[k]] = h[L[k + 1]]
    BY <1>1, <1>4, <2>1, <2>2
  <2>4. \A k \in 1..Len(M) : g[M[k]].live /\ g[M[k]].content \in Texts
    BY <2>1, <2>3 DEF Chain
  <2>5. ASSUME NEW k \in 1..Len(M)
        PROVE  g[M[k]].next = IF k = Len(M) THEN NULL ELSE M[k + 1]
    <3>1. h[L[k + 1]].next = IF k + 1 = Len(L) THEN NULL ELSE L[k + 1 + 1]
      BY <2>1 DEF Chain
    <3>2. k # Len(M) => M[k + 1] = L[k + 1 + 1]
      BY <1>1, <2>1
    <3> QED BY <1>1, <2>1, <2>3, <3>1, <3>2
  <2>6. ASSUME NEW k \in 2..Len(M)
        PROVE  g[M[k]].prev = M[k - 1]
    <3>1. /\ k \in 1..Len(M) /\ k - 1 \in 1..Len(M) /\ k + 1 \in 2..Len(L)
          /\ M[k - 1] = L[k - 1 + 1] /\ k + 1 - 1 = k /\ k - 1 + 1 = k
      BY <1>1, <2>1
    <3>2. h[L[k + 1]].prev = L[k + 1 - 1]
      BY <3>1 DEF Chain
    <3> QED BY <2>3, <3>1, <3>2
  <2>7. ASSUME NEW j \in 1..Len(M), NEW k \in 1..Len(M), M[j] = M[k]
        PROVE  j = k
    <3>1. L[j + 1] = L[k + 1] /\ j + 1 \in 1..Len(L) /\ k + 1 \in 1..Len(L)
      BY <2>1, <2>7
    <3>2. j + 1 = k + 1
      BY <3>1 DEF Chain
    <3> QED BY <3>2
  <2>8. M[1] = L[2]
    BY <2>1
  <2>9. Chain(g, L[2], M)
    BY <2>1, <2>4, <2>5, <2>6, <2>7, <2>8 DEF Chain
  <2> QED BY <2>9 DEF M
<1>7. Len(L) # 1 => L[2] \in Nodes /\ L[2] # NULL
  <2>1. Len(L) # 1 => 2 \in 1..Len(L)
    BY <1>1, TwoOrMore
  <2> QED BY <1>1, <2>1, NullAssumption
<1> QED BY <1>2, <1>4, <1>5, <1>6, <1>7
-----------------------------------------------------------------------------
(* The table and its lists.                                                  *)

Entries == [id : Peers, msg : Nodes \cup {NULL}]

\* lists[i] is the list of the i-th entry of the table tb: one entry for each
\* peer, no node in two lists, and every live node in one.
Shape(h, tb, lists) ==
    /\ lists \in Seq(Seq(Nodes)) /\ Len(lists) = Len(tb)
    /\ \A i \in 1..Len(tb) : Chain(h, tb[i].msg, lists[i])
    /\ \A i, j \in 1..Len(tb) : tb[i].id = tb[j].id => i = j
    /\ \A i, j \in 1..Len(tb) : \A k \in 1..Len(lists[i]), l \in 1..Len(lists[j]) :
          lists[i][k] = lists[j][l] => i = j
    /\ \A n \in Nodes : h[n].live =>
          \E i \in 1..Len(tb) : \E k \in 1..Len(lists[i]) : lists[i][k] = n

ListsOf(h, tb) == [i \in 1..Len(tb) |-> ListFrom(h, tb[i].msg)]
Lists == ListsOf(heap, table)

ListInv == /\ TypeOK
           /\ open => Shape(heap, table, Lists)
           /\ ~open => table = <<>>

\* A message for a peer that is not in the table: the entry goes behind the
\* others, its list is the new node.
LEMMA ShapeStarts ==
  ASSUME NEW h \in [Nodes -> Fields], NEW tb \in Seq(Entries), NEW lists,
         Shape(h, tb, lists), NEW p \in Peers, \A i \in 1..Len(tb) : tb[i].id # p,
         NEW n \in Nodes, ~h[n].live, NEW t \in Texts
  PROVE  Shape(NewMessage(h, n, t), Append(tb, [id |-> p, msg |-> n]), Append(lists, <<n>>))
<1> DEFINE g == NewMessage(h, n, t)
           e == [id |-> p, msg |-> n]
           tb2 == Append(tb, e)
           L2 == Append(lists, <<n>>)
<1>0. /\ lists \in Seq(Seq(Nodes)) /\ Len(lists) = Len(tb) /\ Len(tb) \in Nat
      /\ \A i \in 1..Len(tb) : Chain(h, tb[i].msg, lists[i])
  BY LenProperties DEF Shape
<1>1. /\ \A m \in Nodes : m # n => g[m] = h[m]
      /\ g \in [Nodes -> Fields]
      /\ Chain(g, n, <<n>>)
  BY NewNodeType, OtherNodes, ChainStarts
<1>2. e \in Entries /\ e.id = p /\ e.msg = n
  BY DEF Entries
<1> HIDE DEF e, g
<1>3. /\ tb2 \in Seq(Entries) /\ Len(tb2) = Len(tb) + 1 /\ tb2[Len(tb) + 1] = e
      /\ \A i \in 1..Len(tb) : tb2[i] = tb[i]
  BY <1>0, <1>2, AppendProperties
<1>4. /\ L2 \in Seq(Seq(Nodes)) /\ Len(L2) = Len(tb) + 1 /\ L2[Len(tb) + 1] = <<n>>
      /\ \A i \in 1..Len(tb) : L2[i] = lists[i]
  <2>1. <<n>> \in Seq(Nodes)
    OBVIOUS
  <2> QED BY <1>0, <2>1, AppendProperties
<1> HIDE DEF tb2, L2
<1>5. ASSUME NEW i \in 1..Len(tb2)
      PROVE  i \in 1..Len(tb) \/ i = Len(tb) + 1
  BY <1>0, <1>3
<1>6. \A i \in 1..Len(tb) : \A k \in 1..Len(lists[i]) :
         lists[i][k] \in Nodes /\ h[lists[i][k]].live /\ lists[i][k] # n
  BY <1>0 DEF Chain
<1>7. ASSUME NEW i \in 1..Len(tb2) PROVE Chain(g, tb2[i].msg, L2[i])
  <2>1. CASE i \in 1..Len(tb)
    <3>1. Chain(h, tb[i].msg, lists[i]) /\ \A k \in 1..Len(lists[i]) : g[lists[i][k]] = h[lists[i][k]]
      BY <2>1, <1>0, <1>1, <1>6
    <3>2. Chain(g, tb[i].msg, lists[i])
      BY <3>1, ChainStays
    <3> QED BY <2>1, <3>2, <1>3, <1>4
  <2>2. CASE i = Len(tb) + 1
    BY <2>2, <1>1, <1>2, <1>3, <1>4
  <2> QED BY <2>1, <2>2, <1>5
<1>8. \A i, j \in 1..Len(tb2) : tb2[i].id = tb2[j].id => i = j
  <2>1. \A i, j \in 1..Len(tb) : tb[i].id = tb[j].id => i = j
    BY DEF Shape
  <2> QED BY <2>1, <1>2, <1>3, <1>5
<1>9. \A k \in 1..Len(<<n>>) : <<n>>[k] = n
  OBVIOUS
<1>10. ASSUME NEW i \in 1..Len(tb2), NEW j \in 1..Len(tb2),
              NEW k \in 1..Len(L2[i]), NEW l \in 1..Len(L2[j]), L2[i][k] = L2[j][l]
       PROVE  i = j
  <2>1. CASE i \in 1..Len(tb) /\ j \in 1..Len(tb)
    <3>1. L2[i] = lists[i] /\ L2[j] = lists[j]
      BY <2>1, <1>4
    <3>2. k \in 1..Len(lists[i]) /\ l \in 1..Len(lists[j]) /\ lists[i][k] = lists[j][l]
      BY <3>1, <1>10
    <3> QED BY <2>1, <3>2 DEF Shape
  <2>2. CASE i = Len(tb) + 1 /\ j \in 1..Len(tb)
    <3>1. L2[i] = <<n>> /\ L2[j] = lists[j]
      BY <2>2, <1>4
    <3>2. L2[i][k] = n /\ L2[j][l] # n
      BY <2>2, <3>1, <1>6, <1>9
    <3> QED BY <3>2, <1>10
  <2>3. CASE i \in 1..Len(tb) /\ j = Len(tb) + 1
    <3>1. L2[i] = lists[i] /\ L2[j] = <<n>>
      BY <2>3, <1>4
    <3>2. L2[i][k] # n /\ L2[j][l] = n
      BY <2>3, <3>1, <1>6, <1>9
    <3> QED BY <3>2, <1>10
  <2>4. CASE i = Len(tb) + 1 /\ j = Len(tb) + 1
    BY <2>4
  <2> QED BY <2>1, <2>2, <2>3, <2>4, <1>5
<1>11. ASSUME NEW m \in Nodes, g[m].live
       PROVE  \E i \in 1..Len(tb2) : \E k \in 1..Len(L2[i]) : L2[i][k] = m
  <2>1. CASE m = n
    <3>1. Len(tb) + 1 \in 1..Len(tb2) /\ 1 \in 1..Len(<<n>>) /\ <<n>>[1] = n
      BY <1>0, <1>3
    <3> QED BY <2>1, <3>1, <1>4
  <2>2. CASE m # n
    <3>1. h[m].live
      BY <2>2, <1>1, <1>11
    <3>2. PICK i \in 1..Len(tb) : \E k \in 1..Len(lists[i]) : lists[i][k] = m
      BY <3>1 DEF Shape
    <3>3. i \in 1..Len(tb2) /\ L2[i] = lists[i]
      BY <1>0, <1>3, <1>4
    <3> QED BY <3>2, <3>3
  <2> QED BY <2>1, <2>2
<1>12. Shape(g, tb2, L2)
  BY <1>3, <1>4, <1>7, <1>8, <1>10, <1>11 DEF Shape
<1> QED BY <1>12 DEF g, e, tb2, L2

\* A message for a peer of the table: the node goes behind the others of its
\* list.
LEMMA ShapeGrows ==
  ASSUME NEW h \in [Nodes -> Fields], NEW tb \in Seq(Entries), NEW lists,
         Shape(h, tb, lists), NEW i \in 1..Len(tb), NEW n \in Nodes, ~h[n].live,
         NEW t \in Texts, NEW g,
         g = Linked(NewMessage(h, n, t), lists[i][Len(lists[i])], n)
  PROVE  Shape(g, tb, [lists EXCEPT ![i] = Append(@, n)])
<1>0. /\ lists \in Seq(Seq(Nodes)) /\ Len(lists) = Len(tb) /\ Len(tb) \in Nat
      /\ \A j \in 1..Len(tb) : Chain(h, tb[j].msg, lists[j])
  BY LenProperties DEF Shape
<1>1. PICK M : M = Append(lists[i], n)
  OBVIOUS
<1>2. PICK L2 : L2 = [lists EXCEPT ![i] = M]
  OBVIOUS
<1>3. /\ Chain(g, tb[i].msg, M)
      /\ \A x \in Nodes : x # n /\ x # lists[i][Len(lists[i])] => g[x] = h[x]
      /\ \A x \in Nodes : g[x].live <=> h[x].live \/ x = n
  <2>1. PICK L : L = lists[i]
    OBVIOUS
  <2>2. /\ Chain(h, tb[i].msg, L) /\ M = Append(L, n)
        /\ g = Linked(NewMessage(h, n, t), L[Len(L)], n)
    BY <1>0, <1>1, <2>1
  <2>3. /\ Chain(g, tb[i].msg, M)
        /\ \A x \in Nodes : x # n /\ x # L[Len(L)] => g[x] = h[x]
        /\ \A x \in Nodes : g[x].live <=> h[x].live \/ x = n
    BY <2>2, ChainGrows
  <2> QED BY <2>1, <2>3
<1>4. /\ lists[i] \in Seq(Nodes) /\ Len(lists[i]) \in Nat /\ Len(lists[i]) >= 1
      /\ Len(lists[i]) \in 1..Len(lists[i])
  BY <1>0, ChainLength DEF Chain
<1>5. /\ M \in Seq(Nodes) /\ Len(M) = Len(lists[i]) + 1 /\ M[Len(lists[i]) + 1] = n
      /\ \A k \in 1..Len(lists[i]) : M[k] = lists[i][k]
  BY <1>1, <1>4, AppendProperties
<1>6. /\ L2 \in Seq(Seq(Nodes)) /\ Len(L2) = Len(tb) /\ L2[i] = M
      /\ \A j \in 1..Len(tb) : j # i => L2[j] = lists[j]
  BY <1>0, <1>2, <1>5
<1>7. \A j \in 1..Len(tb) : \A k \in 1..Len(lists[j]) :
         /\ lists[j][k] \in Nodes /\ h[lists[j][k]].live /\ lists[j][k] # n
         /\ j # i => lists[j][k] # lists[i][Len(lists[i])]
  <2>1. ASSUME NEW j \in 1..Len(tb), NEW k \in 1..Len(lists[j])
        PROVE  lists[j][k] \in Nodes /\ h[lists[j][k]].live
    <3>1. Chain(h, tb[j].msg, lists[j])
      BY <1>0
    <3> QED BY <3>1 DEF Chain
  <2>2. ASSUME NEW j \in 1..Len(tb), NEW k \in 1..Len(lists[j]), j # i
        PROVE  lists[j][k] # lists[i][Len(lists[i])]
    BY <2>2, <1>4 DEF Shape
  <2> QED BY <2>1, <2>2
<1>8. ASSUME NEW j \in 1..Len(tb) PROVE Chain(g, tb[j].msg, L2[j])
  <2>1. CASE j = i
    BY <2>1, <1>3, <1>6
  <2>2. CASE j # i
    <3>1. Chain(h, tb[j].msg, lists[j]) /\ \A k \in 1..Len(lists[j]) : g[lists[j][k]] = h[lists[j][k]]
      BY <2>2, <1>0, <1>3, <1>7
    <3>2. Chain(g, tb[j].msg, lists[j])
      BY <3>1, ChainStays
    <3> QED BY <2>2, <3>2, <1>6
  <2> QED BY <2>1, <2>2
<1>9. ASSUME NEW j \in 1..Len(tb), NEW k \in 1..Len(L2[j])
      PROVE  \/ j = i /\ L2[j][k] = n
             \/ k \in 1..Len(lists[j]) /\ L2[j][k] = lists[j][k]
  <2>1. CASE j = i
    <3>1. k \in 1..Len(lists[i]) \/ k = Len(lists[i]) + 1
      BY <2>1, <1>4, <1>5, <1>6
    <3> QED BY <2>1, <3>1, <1>5, <1>6
  <2>2. CASE j # i
    BY <2>2, <1>6
  <2> QED BY <2>1, <2>2
<1>10. ASSUME NEW j \in 1..Len(tb), NEW m \in 1..Len(tb),
              NEW k \in 1..Len(L2[j]), NEW l \in 1..Len(L2[m]), L2[j][k] = L2[m][l]
       PROVE  j = m
  <2>1. CASE j = i /\ L2[j][k] = n
    <3>1. L2[m][l] = n
      BY <2>1, <1>10
    <3>2. ~(l \in 1..Len(lists[m]) /\ L2[m][l] = lists[m][l])
      BY <3>1, <1>7
    <3> QED BY <2>1, <3>2, <1>9
  <2>2. CASE m = i /\ L2[m][l] = n
    <3>1. L2[j][k] = n
      BY <2>2, <1>10
    <3>2. ~(k \in 1..Len(lists[j]) /\ L2[j][k] = lists[j][k])
      BY <3>1, <1>7
    <3> QED BY <2>2, <3>2, <1>9
  <2>3. CASE /\ k \in 1..Len(lists[j]) /\ L2[j][k] = lists[j][k]
             /\ l \in 1..Len(lists[m]) /\ L2[m][l] = lists[m][l]
    <3>1. lists[j][k] = lists[m][l]
      BY <2>3, <1>10
    <3> QED BY <2>3, <3>1 DEF Shape
  <2> QED BY <2>1, <2>2, <2>3, <1>9
<1>11. ASSUME NEW x \in Nodes, g[x].live
       PROVE  \E j \in 1..Len(tb) : \E k \in 1..Len(L2[j]) : L2[j][k] = x
  <2>1. CASE x = n
    <3>1. Len(lists[i]) + 1 \in 1..Len(L2[i]) /\ L2[i][Len(lists[i]) + 1] = x
      BY <2>1, <1>4, <1>5, <1>6
    <3> QED BY <3>1
  <2>2. CASE x # n
    <3>1. PICK j \in 1..Len(tb) : \E k \in 1..Len(lists[j]) : lists[j][k] = x
      BY <2>2, <1>3, <1>11 DEF Shape
    <3>2. PICK k \in 1..Len(lists[j]) : lists[j][k] = x
      BY <3>1
    <3>3. k \in 1..Len(L2[j]) /\ L2[j][k] = x
      <4>1. CASE j = i
        BY <4>1, <3>2, <1>4, <1>5, <1>6
      <4>2. CASE j # i
        BY <4>2, <3>2, <1>6
      <4> QED BY <4>1, <4>2
    <3> QED BY <3>3
  <2> QED BY <2>1, <2>2
<1>12. Shape(g, tb, L2)
  <2>1. \A j, m \in 1..Len(tb) : tb[j].id = tb[m].id => j = m
    BY DEF Shape
  <2> QED BY <1>6, <1>8, <1>10, <1>11, <2>1 DEF Shape
<1> QED BY <1>1, <1>2, <1>12

\* HASH_DEL takes the i-th entry out and keeps the order of the others.
Place(i, j) == IF j < i THEN j ELSE j + 1

LEMMA WithoutPlaces ==
  ASSUME NEW S, NEW s \in Seq(S), NEW i \in 1..Len(s)
  PROVE  /\ Without(s, i) \in Seq(S) /\ Len(Without(s, i)) = Len(s) - 1
         /\ \A j \in 1..(Len(s) - 1) :
               Place(i, j) \in 1..Len(s) /\ Without(s, i)[j] = s[Place(i, j)]
<1> DEFINE a == SubSeq(s, 1, i - 1)
           b == SubSeq(s, i + 1, Len(s))
<1>1. Len(s) \in Nat /\ i \in Nat /\ i >= 1 /\ i <= Len(s)
  BY LenProperties
<1>2. a \in Seq(S) /\ Len(a) = i - 1 /\ \A j \in 1..(i - 1) : a[j] = s[j]
  BY <1>1, SMT
<1>3. b \in Seq(S) /\ Len(b) = Len(s) - i
                   /\ \A j \in 1..(Len(s) - i) : b[j] = s[i + j]
  BY <1>1, SMT
<1> HIDE DEF a, b
<1>4. /\ a \o b \in Seq(S)
      /\ Len(a \o b) = Len(a) + Len(b)
      /\ \A j \in 1..(Len(a) + Len(b)) :
            (a \o b)[j] = IF j <= Len(a) THEN a[j] ELSE b[j - Len(a)]
  <2>1. a \in Seq(S) /\ b \in Seq(S)
    BY <1>2, <1>3
  <2> QED BY <2>1, ConcatProperties
<1>w. PICK w : w = a \o b
  OBVIOUS
<1>5. Len(a) + Len(b) = Len(s) - 1
  BY <1>1, <1>2, <1>3
<1>6. ASSUME NEW j \in 1..(Len(s) - 1)
      PROVE  Place(i, j) \in 1..Len(s) /\ w[j] = s[Place(i, j)]
  <2>1. CASE j < i
    <3>1. j \in 1..(i - 1) /\ j <= Len(a) /\ j \in 1..(Len(a) + Len(b))
      BY <2>1, <1>1, <1>2, <1>5
    <3>2. Place(i, j) = j /\ j \in 1..Len(s)
      BY <2>1, <1>1 DEF Place
    <3> QED BY <3>1, <3>2, <1>2, <1>4, <1>w
  <2>2. CASE ~(j < i)
    <3>1. /\ j - Len(a) \in 1..(Len(s) - i) /\ ~(j <= Len(a))
          /\ j \in 1..(Len(a) + Len(b)) /\ i + (j - Len(a)) = j + 1
      BY <2>2, <1>1, <1>2, <1>5
    <3>2. Place(i, j) = j + 1 /\ j + 1 \in 1..Len(s)
      BY <2>2, <1>1 DEF Place
    <3>3. w[j] = b[j - Len(a)]
      BY <3>1, <1>4, <1>w
    <3> QED BY <3>1, <3>2, <3>3, <1>3
  <2> QED BY <2>1, <2>2
<1>7. Without(s, i) = w
  BY <1>w DEF Without, a, b
<1> QED BY <1>4, <1>5, <1>6, <1>7, <1>w

\* The places of the others, and only theirs, are kept.
LEMMA PlaceProperties ==
  ASSUME NEW n \in Nat, NEW i \in 1..n
  PROVE  /\ \A j \in 1..(n - 1) : Place(i, j) \in 1..n /\ Place(i, j) # i
         /\ \A j, k \in 1..(n - 1) : Place(i, j) = Place(i, k) => j = k
         /\ \A k \in 1..n : k # i => \E j \in 1..(n - 1) : Place(i, j) = k
<1>1. \A j \in 1..(n - 1) : Place(i, j) \in 1..n /\ Place(i, j) # i
  BY DEF Place
<1>2. \A j, k \in 1..(n - 1) : Place(i, j) = Place(i, k) => j = k
  BY DEF Place
<1>3. ASSUME NEW k \in 1..n, k # i
      PROVE  \E j \in 1..(n - 1) : Place(i, j) = k
  <2>1. CASE k < i
    <3>1. k \in 1..(n - 1) /\ Place(i, k) = k
      BY <2>1 DEF Place
    <3> QED BY <3>1
  <2>2. CASE k > i
    <3>1. k - 1 \in 1..(n - 1) /\ Place(i, k - 1) = k
      BY <2>2 DEF Place
    <3> QED BY <3>1
  <2> QED BY <1>3, <2>1, <2>2
<1> QED BY <1>1, <1>2, <1>3

\* What get_unread_message leaves of the heap.
Freed(h, n, copy) == FreeNode(FreeNode(NewMessage(h, copy, h[n].content), n), copy)

\* The last message of a peer: the entry goes with its node, the other
\* lists are what they were.
LEMMA ShapeDrops ==
  ASSUME NEW h \in [Nodes -> Fields], NEW tb \in Seq(Entries), NEW lists,
         Shape(h, tb, lists), NEW i \in 1..Len(tb), h[tb[i].msg].next = NULL,
         NEW copy \in Nodes, ~h[copy].live, NEW g, g = Freed(h, tb[i].msg, copy)
  PROVE  g \in [Nodes -> Fields] /\ Shape(g, Without(tb, i), Without(lists, i))
<1>0. /\ lists \in Seq(Seq(Nodes)) /\ Len(lists) = Len(tb) /\ Len(tb) \in Nat
      /\ \A j \in 1..Len(tb) : Chain(h, tb[j].msg, lists[j])
  BY LenProperties DEF Shape
<1>1. PICK w : w = Without(tb, i)
  OBVIOUS
<1>2. PICK v : v = Without(lists, i)
  OBVIOUS
<1>3. PICK n : n = tb[i].msg
  OBVIOUS
<1>4. PICK L : L = lists[i]
  OBVIOUS
<1>5. Chain(h, n, L) /\ n \in Nodes
  <2>1. Chain(h, n, L)
    BY <1>0, <1>3, <1>4
  <2>2. 1 \in 1..Len(L) /\ L \in Seq(Nodes) /\ L[1] = n
    BY <2>1, ChainLength DEF Chain
  <2> QED BY <2>1, <2>2
<1>6. /\ g \in [Nodes -> Fields]
      /\ \A x \in Nodes : g[x] = IF x = n \/ x = copy THEN Free ELSE h[x]
      /\ Len(L) = 1
  BY <1>3, <1>5, ChainShrinks DEF Freed
<1>7. /\ w \in Seq(Entries) /\ Len(w) = Len(tb) - 1
      /\ \A j \in 1..(Len(tb) - 1) : Place(i, j) \in 1..Len(tb) /\ w[j] = tb[Place(i, j)]
  BY <1>1, WithoutPlaces
<1>8. /\ v \in Seq(Seq(Nodes)) /\ Len(v) = Len(tb) - 1
      /\ \A j \in 1..(Len(tb) - 1) : v[j] = lists[Place(i, j)]
  <2>1. lists \in Seq(Seq(Nodes)) /\ i \in 1..Len(lists)
    BY <1>0
  <2>2. /\ v \in Seq(Seq(Nodes)) /\ Len(v) = Len(lists) - 1
        /\ \A j \in 1..(Len(lists) - 1) : v[j] = lists[Place(i, j)]
    BY <2>1, <1>2, WithoutPlaces
  <2> QED BY <2>2, <1>0
<1>9. /\ \A j \in 1..(Len(tb) - 1) : Place(i, j) # i
      /\ \A j, k \in 1..(Len(tb) - 1) : Place(i, j) = Place(i, k) => j = k
      /\ \A k \in 1..Len(tb) : k # i => \E j \in 1..(Len(tb) - 1) : Place(i, j) = k
  BY <1>0, PlaceProperties
<1>10. \A j \in 1..Len(tb) : \A k \in 1..Len(lists[j]) :
          /\ lists[j][k] \in Nodes /\ h[lists[j][k]].live
          /\ j # i => lists[j][k] # n
  <2>1. ASSUME NEW j \in 1..Len(tb), NEW k \in 1..Len(lists[j])
        PROVE  lists[j][k] \in Nodes /\ h[lists[j][k]].live
    <3>1. Chain(h, tb[j].msg, lists[j])
      BY <1>0
    <3> QED BY <3>1 DEF Chain
  <2>2. 1 \in 1..Len(lists[i]) /\ lists[i][1] = n
    BY <1>4, <1>5, <1>6 DEF Chain
  <2>3. ASSUME NEW j \in 1..Len(tb), NEW k \in 1..Len(lists[j]), j # i
        PROVE  lists[j][k] # n
    <3>1. \A l \in 1..Len(lists[i]) : lists[j][k] = lists[i][l] => j = i
      BY DEF Shape
    <3> QED BY <2>2, <2>3, <3>1
  <2> QED BY <2>1, <2>3
<1>11. ASSUME NEW j \in 1..Len(w) PROVE Chain(g, w[j].msg, v[j])
  <2>1. PICK m : m = Place(i, j)
    OBVIOUS
  <2>2. m \in 1..Len(tb) /\ m # i /\ w[j] = tb[m] /\ v[j] = lists[m]
    BY <2>1, <1>7, <1>8, <1>9
  <2>3. Chain(h, tb[m].msg, lists[m]) /\ \A k \in 1..Len(lists[m]) : g[lists[m][k]] = h[lists[m][k]]
    BY <2>2, <1>0, <1>6, <1>10
  <2>4. Chain(g, tb[m].msg, lists[m])
    BY <2>3, ChainStays
  <2> QED BY <2>2, <2>4
<1>12. \A j, k \in 1..Len(w) : w[j].id = w[k].id => j = k
  <2>1. \A j, k \in 1..Len(tb) : tb[j].id = tb[k].id => j = k
    BY DEF Shape
  <2> QED BY <2>1, <1>7, <1>9
<1>13. ASSUME NEW j \in 1..Len(w), NEW k \in 1..Len(w),
              NEW x \in 1..Len(v[j]), NEW y \in 1..Len(v[k]), v[j][x] = v[k][y]
       PROVE  j = k
  <2>1. PICK a, b : a = Place(i, j) /\ b = Place(i, k)
    OBVIOUS
  <2>2. a \in 1..Len(tb) /\ b \in 1..Len(tb) /\ v[j] = lists[a] /\ v[k] = lists[b]
    BY <2>1, <1>7, <1>8
  <2>3. a = b
    BY <2>2, <1>13 DEF Shape
  <2> QED BY <2>1, <2>3, <1>7, <1>9
<1>14. ASSUME NEW x \in Nodes, g[x].live
       PROVE  \E j \in 1..Len(w) : \E k \in 1..Len(v[j]) : v[j][k] = x
  <2>1. x # n /\ h[x].live
    BY <1>6, <1>14 DEF Free
  <2>2. PICK m \in 1..Len(tb) : \E k \in 1..Len(lists[m]) : lists[m][k] = x
    BY <2>1 DEF Shape
  <2>3. m # i
    <3>1. \A k \in 1..Len(lists[i]) : lists[i][k] = n
      BY <1>4, <1>5, <1>6 DEF Chain
    <3> QED BY <2>1, <2>2, <3>1
  <2>4. PICK j \in 1..(Len(tb) - 1) : Place(i, j) = m
    BY <2>3, <1>9
  <2>5. j \in 1..Len(w) /\ v[j] = lists[m]
    BY <2>4, <1>7, <1>8
  <2> QED BY <2>2, <2>5
<1>15. Shape(g, w, v)
  BY <1>7, <1>8, <1>11, <1>12, <1>13, <1>14 DEF Shape
<1> QED BY <1>1, <1>2, <1>6, <1>15

\* An assignment to p->msg: w is the table tb with the list of its i-th entry
\* at n.
Moved(tb, i, n, w) ==
    /\ Len(w) = Len(tb)
    /\ \A j \in 1..Len(tb) : w[j].id = tb[j].id
    /\ \A j \in 1..Len(tb) : w[j].msg = IF j = i THEN n ELSE tb[j].msg

LEMMA EntryMoves ==
  ASSUME NEW tb \in Seq(Entries), NEW i \in 1..Len(tb), NEW n \in Nodes,
         NEW w, w = [tb EXCEPT ![i].msg = n]
  PROVE  w \in Seq(Entries) /\ Moved(tb, i, n, w)
<1>1. tb[i] \in Entries
  OBVIOUS
<1>2. PICK e : e = [tb[i] EXCEPT !.msg = n]
  OBVIOUS
<1>3. e \in Entries /\ e.id = tb[i].id /\ e.msg = n
  BY <1>1, <1>2 DEF Entries
<1>4. w = [tb EXCEPT ![i] = e]
  BY <1>2
<1>5. /\ w \in Seq(Entries) /\ Len(w) = Len(tb) /\ w[i] = e
      /\ \A j \in 1..Len(tb) : j # i => w[j] = tb[j]
  BY <1>3, <1>4
<1> QED BY <1>3, <1>5 DEF Moved

\* v: the lists without the first node of the i-th one.
HeadCut(lists, i, v) ==
    /\ v \in Seq(Seq(Nodes)) /\ Len(v) = Len(lists)
    /\ v[i] = Tail(lists[i])
    /\ \A j \in 1..Len(lists) : j # i => v[j] = lists[j]

LEMMA HeadIsCut ==
  ASSUME NEW lists \in Seq(Seq(Nodes)), NEW i \in 1..Len(lists), lists[i] # <<>>
  PROVE  HeadCut(lists, i, [lists EXCEPT ![i] = Tail(@)])
<1>1. PICK M : M = Tail(lists[i])
  OBVIOUS
<1>2. lists[i] \in Seq(Nodes)
  BY ElementOfSeq
<1>3. M \in Seq(Nodes)
  BY <1>1, <1>2, HeadTailProperties
<1> QED BY <1>1, <1>3 DEF HeadCut

\* A message that was not the last of its peer: the entry points to the next.
LEMMA ShapeShrinks ==
  ASSUME NEW h \in [Nodes -> Fields], NEW tb \in Seq(Entries), NEW lists,
         Shape(h, tb, lists), NEW i \in 1..Len(tb),
         NEW second, second = h[tb[i].msg].next, second # NULL,
         NEW copy \in Nodes, ~h[copy].live, NEW g, g = Freed(h, tb[i].msg, copy),
         NEW v, HeadCut(lists, i, v)
  PROVE  /\ g \in [Nodes -> Fields] /\ second \in Nodes
         /\ \A w \in Seq(Entries) : Moved(tb, i, second, w) => Shape(g, w, v)
<1>0. /\ lists \in Seq(Seq(Nodes)) /\ Len(lists) = Len(tb) /\ Len(tb) \in Nat
      /\ \A j \in 1..Len(tb) : Chain(h, tb[j].msg, lists[j])
  BY LenProperties DEF Shape
<1>1. PICK n : n = tb[i].msg
  OBVIOUS
<1>2. PICK L : L = lists[i]
  OBVIOUS
<1>3. PICK M : M = Tail(L)
  OBVIOUS
<1>5. /\ Chain(h, n, L) /\ n \in Nodes /\ L[1] = n /\ 1 \in 1..Len(L) /\ L \in Seq(Nodes)
      /\ L # <<>>
  <2>1. Chain(h, n, L)
    BY <1>0, <1>1, <1>2
  <2>2. 1 \in 1..Len(L) /\ L \in Seq(Nodes) /\ L[1] = n /\ L # <<>>
    BY <2>1, ChainLength DEF Chain
  <2> QED BY <2>1, <2>2
<1>6. /\ g \in [Nodes -> Fields]
      /\ \A x \in Nodes : g[x] = IF x = n \/ x = copy THEN Free ELSE h[x]
      /\ Chain(g, second, M) /\ second \in Nodes
  BY <1>1, <1>3, <1>5, ChainShrinks DEF Freed
<1>w. SUFFICES ASSUME NEW w \in Seq(Entries), Moved(tb, i, second, w)
               PROVE  Shape(g, w, v)
  BY <1>6, Zenon
<1>7. /\ w \in Seq(Entries) /\ Len(w) = Len(tb)
      /\ \A j \in 1..Len(tb) : w[j].id = tb[j].id
      /\ \A j \in 1..Len(tb) : w[j].msg = IF j = i THEN second ELSE tb[j].msg
  BY <1>w DEF Moved
<1>8. /\ M \in Seq(Nodes) /\ Len(M) = Len(L) - 1 /\ Len(L) \in Nat
      /\ \A k \in 1..Len(M) : M[k] = L[k + 1] /\ k + 1 \in 1..Len(L)
  <2>1. /\ M \in Seq(Nodes) /\ Len(M) = Len(L) - 1 /\ Len(L) \in Nat
        /\ \A k \in 1..Len(M) : M[k] = L[k + 1]
    BY <1>3, <1>5, HeadTailProperties, LenProperties
  <2> QED BY <2>1
<1>9. /\ v \in Seq(Seq(Nodes)) /\ Len(v) = Len(tb) /\ v[i] = M
      /\ \A j \in 1..Len(tb) : j # i => v[j] = lists[j]
  BY <1>0, <1>2, <1>3 DEF HeadCut
<1>10. \A j \in 1..Len(tb) : \A k \in 1..Len(lists[j]) :
          /\ lists[j][k] \in Nodes /\ h[lists[j][k]].live
          /\ j # i => lists[j][k] # n
  <2>1. ASSUME NEW j \in 1..Len(tb), NEW k \in 1..Len(lists[j])
        PROVE  lists[j][k] \in Nodes /\ h[lists[j][k]].live
    <3>1. Chain(h, tb[j].msg, lists[j])
      BY <1>0
    <3> QED BY <3>1 DEF Chain
  <2>2. 1 \in 1..Len(lists[i]) /\ lists[i][1] = n
    BY <1>2, <1>5
  <2>3. ASSUME NEW j \in 1..Len(tb), NEW k \in 1..Len(lists[j]), j # i
        PROVE  lists[j][k] # n
    <3>1. \A l \in 1..Len(lists[i]) : lists[j][k] = lists[i][l] => j = i
      BY DEF Shape
    <3> QED BY <2>2, <2>3, <3>1
  <2> QED BY <2>1, <2>3
<1>11. ASSUME NEW j \in 1..Len(w) PROVE Chain(g, w[j].msg, v[j])
  <2>1. CASE j = i
    BY <2>1, <1>6, <1>7, <1>9
  <2>2. CASE j # i
    <3>1. Chain(h, tb[j].msg, lists[j]) /\ \A k \in 1..Len(lists[j]) : g[lists[j][k]] = h[lists[j][k]]
      BY <2>2, <1>0, <1>6, <1>7, <1>10
    <3>2. Chain(g, tb[j].msg, lists[j])
      BY <3>1, ChainStays
    <3> QED BY <2>2, <3>2, <1>7, <1>9
  <2> QED BY <2>1, <2>2
<1>12. \A j, k \in 1..Len(w) : w[j].id = w[k].id => j = k
  <2>1. \A j, k \in 1..Len(tb) : tb[j].id = tb[k].id => j = k
    BY DEF Shape
  <2> QED BY <2>1, <1>7
<1>13. ASSUME NEW j \in 1..Len(tb), NEW k \in 1..Len(v[j])
       PROVE  \E l \in 1..Len(lists[j]) : v[j][k] = lists[j][l]
  <2>1. CASE j = i
    <3>1. v[j][k] = L[k + 1] /\ k + 1 \in 1..Len(L) /\ lists[j] = L
      BY <2>1, <1>2, <1>8, <1>9
    <3> QED BY <3>1
  <2>2. CASE j # i
    BY <2>2, <1>9
  <2> QED BY <2>1, <2>2
<1>14. ASSUME NEW j \in 1..Len(w), NEW k \in 1..Len(w),
              NEW x \in 1..Len(v[j]), NEW y \in 1..Len(v[k]), v[j][x] = v[k][y]
       PROVE  j = k
  <2>1. PICK a \in 1..Len(lists[j]) : v[j][x] = lists[j][a]
    BY <1>7, <1>13
  <2>2. PICK b \in 1..Len(lists[k]) : v[k][y] = lists[k][b]
    BY <1>7, <1>13
  <2>3. lists[j][a] = lists[k][b] /\ j \in 1..Len(tb) /\ k \in 1..Len(tb)
    BY <2>1, <2>2, <1>7, <1>14
  <2> QED BY <2>3 DEF Shape
<1>15. ASSUME NEW x \in Nodes, g[x].live
       PROVE  \E j \in 1..Len(w) : \E k \in 1..Len(v[j]) : v[j][k] = x
  <2>1. x # n /\ h[x].live
    BY <1>6, <1>15 DEF Free
  <2>2. PICK j \in 1..Len(tb) : \E k \in 1..Len(lists[j]) : lists[j][k] = x
    BY <2>1 DEF Shape
  <2>3. PICK k \in 1..Len(lists[j]) : lists[j][k] = x
    BY <2>2
  <2>4. CASE j = i
    <3>1. L[k] = x /\ k \in 1..Len(L) /\ k # 1
      BY <2>1, <2>3, <2>4, <1>2, <1>5
    <3>2. k - 1 \in 1..Len(M) /\ k - 1 + 1 = k
      BY <3>1, <1>8
    <3>3. M[k - 1] = x
      BY <3>1, <3>2, <1>8
    <3> QED BY <2>4, <3>2, <3>3, <1>7, <1>9
  <2>5. CASE j # i
    BY <2>3, <2>5, <1>7, <1>9
  <2> QED BY <2>4, <2>5
<1> QED BY <1>7, <1>9, <1>11, <1>12, <1>14, <1>15 DEF Shape
-----------------------------------------------------------------------------
(* The actions.                                                              *)

LEMMA ShapeLists ==
  ASSUME NEW h, NEW tb, NEW lists, Shape(h, tb, lists)
  PROVE  ListsOf(h, tb) = lists
<1>1. \A i \in 1..Len(tb) : ListFrom(h, tb[i].msg) = lists[i]
  BY ChainIsList DEF Shape
<1>2. lists = [i \in 1..Len(tb) |-> lists[i]]
  BY DEF Shape
<1> QED BY <1>1, <1>2 DEF ListsOf

LEMMA ListTypes ==
  ASSUME ListInv, open
  PROVE  /\ heap \in [Nodes -> Fields] /\ table \in Seq(Entries) /\ Len(table) \in Nat
         /\ Shape(heap, table, Lists)
         /\ \A i \in 1..Len(table) : /\ Chain(heap, table[i].msg, Lists[i])
                                      /\ table[i].msg \in Nodes
                                      /\ heap[table[i].msg].live
                                      /\ heap[table[i].msg].content \in Texts
<1>1. /\ heap \in [Nodes -> Fields] /\ table \in Seq(Entries)
      /\ Shape(heap, table, Lists)
  BY DEF ListInv, TypeOK, Fields, Entries
<1>2. Len(table) \in Nat
  BY <1>1, LenProperties
<1>3. ASSUME NEW i \in 1..Len(table)
      PROVE  /\ Chain(heap, table[i].msg, Lists[i])
             /\ table[i].msg \in Nodes
             /\ heap[table[i].msg].live
             /\ heap[table[i].msg].content \in Texts
  <2>1. PICK L : L = Lists[i]
    OBVIOUS
  <2>2. PICK n : n = table[i].msg
    OBVIOUS
  <2>3. Chain(heap, n, L)
    BY <1>1, <2>1, <2>2 DEF Shape
  <2>4. 1 \in 1..Len(L) /\ L \in Seq(Nodes) /\ L[1] = n
    BY <2>3, ChainLength DEF Chain
  <2>5. heap[n].live /\ heap[n].content \in Texts /\ n \in Nodes
    BY <2>3, <2>4 DEF Chain
  <2> QED BY <2>1, <2>2, <2>3, <2>5
<1> QED BY <1>1, <1>2, <1>3

\* insert_peer and the first message of a peer.
LEMMA EntryStarts ==
  ASSUME NEW tb \in Seq(Entries), NEW p \in Peers, NEW n \in Nodes
  PROVE  [Append(tb, [id |-> p, msg |-> NULL]) EXCEPT ![Len(tb) + 1].msg = n]
         = Append(tb, [id |-> p, msg |-> n])
<1>1. PICK e : e = [id |-> p, msg |-> NULL]
  OBVIOUS
<1>2. PICK f : f = [id |-> p, msg |-> n]
  OBVIOUS
<1>3. e \in Entries /\ f \in Entries /\ [e EXCEPT !.msg = n] = f
  BY <1>1, <1>2 DEF Entries
<1>4. PICK w : w = Append(tb, e)
  OBVIOUS
<1>5. PICK v : v = Append(tb, f)
  OBVIOUS
<1>6. /\ w \in Seq(Entries) /\ Len(w) = Len(tb) + 1 /\ w[Len(tb) + 1] = e
      /\ \A j \in 1..Len(tb) : w[j] = tb[j]
      /\ v \in Seq(Entries) /\ Len(v) = Len(tb) + 1 /\ v[Len(tb) + 1] = f
      /\ \A j \in 1..Len(tb) : v[j] = tb[j]
      /\ Len(tb) \in Nat
  BY <1>3, <1>4, <1>5, AppendProperties, LenProperties
<1>7. PICK u : u = [w EXCEPT ![Len(tb) + 1] = f]
  OBVIOUS
<1>8. [w EXCEPT ![Len(tb) + 1].msg = n] = u
  BY <1>3, <1>6, <1>7
<1>9. u = v
  <2>1. u \in Seq(Entries) /\ Len(u) = Len(v)
    BY <1>3, <1>6, <1>7
  <2>2. \A j \in 1..Len(v) : u[j] = v[j]
    BY <1>6, <1>7
  <2> QED BY <1>6, <2>1, <2>2, SeqEqual
<1> QED BY <1>1, <1>2, <1>4, <1>5, <1>8, <1>9

\* store_msg, as the lists see it: a list of its own or a longer list.
NewList(p, t, n) ==
    /\ \A i \in 1..Len(table) : table[i].id # p
    /\ table' = Append(table, [id |-> p, msg |-> n])
    /\ heap' = NewMessage(heap, n, t)
    /\ Lists' = Append(Lists, <<n>>)
LongerList(p, t, n, i) ==
    /\ table[i].id = p
    /\ table' = table
    /\ heap' = Linked(NewMessage(heap, n, t), Lists[i][Len(Lists[i])], n)
    /\ Lists' = [Lists EXCEPT ![i] = Append(@, n)]

LEMMA StoreMsgLists ==
  ASSUME ListInv, NEW p \in Peers, NEW t \in Texts, StoreMsg(p, t)
  PROVE  /\ heap' \in [Nodes -> Fields] /\ table' \in Seq(Entries)
         /\ Shape(heap', table', Lists')
         /\ \E n \in Unused(heap) : \/ NewList(p, t, n)
                                    \/ \E i \in 1..Len(table) : LongerList(p, t, n, i)
<1>1. /\ heap \in [Nodes -> Fields] /\ table \in Seq(Entries) /\ Len(table) \in Nat
      /\ Shape(heap, table, Lists)
      /\ \A i \in 1..Len(table) : Chain(heap, table[i].msg, Lists[i]) /\ table[i].msg \in Nodes
  BY ListTypes DEF StoreMsg
<1>2. CASE ~PeerExist(p)
  <2>1. PICK was : was = Append(table, [id |-> p, msg |-> NULL])
    OBVIOUS
  <2>2. PICK n \in Unused(heap), i \in 1..Len(was) :
           /\ was[i].id = p
           /\ was[i].msg = NULL => /\ table' = [was EXCEPT ![i].msg = n]
                                   /\ heap' = NewMessage(heap, n, t)
    BY <1>2, <2>1 DEF StoreMsg
  <2>3. i = Len(table) + 1 /\ was[i].msg = NULL
    BY <1>1, <1>2, <2>1, <2>2 DEF PeerExist, Entries
  <2>4. n \in Nodes /\ ~heap[n].live
    BY DEF Unused
  <2>5. table' = Append(table, [id |-> p, msg |-> n])
    BY <1>1, <2>1, <2>2, <2>3, <2>4, EntryStarts
  <2>6. \A j \in 1..Len(table) : table[j].id # p
    BY <1>2 DEF PeerExist
  <2>7. Shape(heap', table', Append(Lists, <<n>>))
    BY <1>1, <2>2, <2>3, <2>4, <2>5, <2>6, ShapeStarts
  <2>8. Lists' = Append(Lists, <<n>>)
    BY <2>7, ShapeLists DEF Lists
  <2>9. heap' \in [Nodes -> Fields] /\ table' \in Seq(Entries)
    <3>1. [id |-> p, msg |-> n] \in Entries
      BY <2>4 DEF Entries
    <3>2. table' \in Seq(Entries)
      BY <1>1, <2>5, <3>1, AppendProperties
    <3>3. NewMessage(heap, n, t) \in [Nodes -> Fields]
      BY <1>1, <2>4, NewNodeType
    <3> QED BY <2>2, <2>3, <3>2, <3>3
  <2> QED BY <2>2, <2>3, <2>5, <2>6, <2>7, <2>8, <2>9 DEF NewList
<1>3. CASE PeerExist(p)
  <2>1. PICK n \in Unused(heap), i \in 1..Len(table) :
           /\ table[i].id = p
           /\ table[i].msg # NULL =>
                 /\ table' = table
                 /\ heap' = Linked(NewMessage(heap, n, t),
                                   GetTail(NewMessage(heap, n, t), table[i].msg), n)
    BY <1>3 DEF StoreMsg
  <2>2. n \in Nodes /\ ~heap[n].live /\ table[i].msg # NULL
    BY <1>1, NullAssumption DEF Unused
  <2>3. GetTail(NewMessage(heap, n, t), table[i].msg) = Lists[i][Len(Lists[i])]
    <3>1. PICK L : L = Lists[i]
      OBVIOUS
    <3>2. Chain(heap, table[i].msg, L)
      BY <1>1, <3>1
    <3>3. \A k \in 1..Len(L) : L[k] \in Nodes /\ L[k] # n
      BY <2>2, <3>2 DEF Chain
    <3>4. \A m \in Nodes : m # n => NewMessage(heap, n, t)[m] = heap[m]
      BY <1>1, <2>2, OtherNodes
    <3>5. Chain(NewMessage(heap, n, t), table[i].msg, L)
      BY <3>2, <3>3, <3>4, ChainStays
    <3>6. ListFrom(NewMessage(heap, n, t), table[i].msg) = L
      BY <3>5, ChainIsList
    <3> QED BY <3>1, <3>6 DEF GetTail
  <2>4. heap' = Linked(NewMessage(heap, n, t), Lists[i][Len(Lists[i])], n) /\ table' = table
    BY <2>1, <2>2, <2>3
  <2>5. Shape(heap', table', [Lists EXCEPT ![i] = Append(@, n)])
    BY <1>1, <2>2, <2>4, ShapeGrows
  <2>6. Lists' = [Lists EXCEPT ![i] = Append(@, n)]
    BY <2>5, ShapeLists DEF Lists
  <2>7. heap' \in [Nodes -> Fields]
    BY <1>1, <2>2, <2>4, ChainGrows
  <2> QED BY <1>1, <2>1, <2>4, <2>5, <2>6, <2>7 DEF LongerList
<1> QED BY <1>2, <1>3

\* get_unread_message, as the lists see it: the entry leaves the table with
\* its list, or keeps a shorter list.
LastTaken(i) ==
    /\ Len(Lists[i]) = 1
    /\ table' = Without(table, i)
    /\ Lists' = Without(Lists, i)
HeadTaken(i) ==
    /\ Len(Lists[i]) # 1
    /\ Moved(table, i, heap[table[i].msg].next, table')
    /\ Lists' = [Lists EXCEPT ![i] = Tail(@)]

LEMMA TakeLists ==
  ASSUME ListInv, open, NEW i \in 1..Len(table), NEW copy \in Unused(heap), Take(i, copy)
  PROVE  /\ heap' \in [Nodes -> Fields] /\ table' \in Seq(Entries)
         /\ Shape(heap', table', Lists')
         /\ heap' = Freed(heap, table[i].msg, copy)
         /\ handed' = [handed EXCEPT ![table[i].id] = Append(@, heap[table[i].msg].content)]
         /\ LastTaken(i) \/ HeadTaken(i)
<1>1. /\ heap \in [Nodes -> Fields] /\ table \in Seq(Entries) /\ Len(table) \in Nat
      /\ Shape(heap, table, Lists)
      /\ Chain(heap, table[i].msg, Lists[i]) /\ table[i].msg \in Nodes
      /\ heap[table[i].msg].live /\ heap[table[i].msg].content \in Texts
      /\ copy \in Nodes /\ ~heap[copy].live
  BY ListTypes DEF Unused
<1>2. PICK msg : msg = table[i].msg
  OBVIOUS
<1>3. PICK t : t = heap[msg].content
  OBVIOUS
<1>4. PICK h : h = NewMessage(heap, copy, t)
  OBVIOUS
<1>5. /\ h[msg] = heap[msg] /\ h[copy].content = t /\ msg # copy
  <2>1. \A m \in Nodes : h[m] = IF m = copy THEN Alone(t) ELSE heap[m]
    <3>1. t \in Texts
      BY <1>1, <1>2, <1>3
    <3>2. heap \in [Nodes -> Fields] /\ copy \in Nodes
      BY <1>1
    <3> QED BY <1>4, <3>1, <3>2, NewNode
  <2>2. msg # copy /\ msg \in Nodes /\ copy \in Nodes /\ t \in Texts
    BY <1>1, <1>2, <1>3
  <2> QED BY <2>1, <2>2, AloneFields
<1>6. /\ handed' = [handed EXCEPT ![table[i].id] = Append(@, h[copy].content)]
      /\ heap' = FreeNode(FreeNode(h, msg), copy)
      /\ table' = IF h[msg].next = NULL THEN Without(table, i)
                  ELSE [table EXCEPT ![i].msg = h[msg].next]
  BY <1>2, <1>3, <1>4 DEF Take
<1>7. heap' = Freed(heap, table[i].msg, copy)
  BY <1>2, <1>3, <1>4, <1>6 DEF Freed
<1>8. handed' = [handed EXCEPT ![table[i].id] = Append(@, heap[table[i].msg].content)]
  BY <1>2, <1>3, <1>5, <1>6
<1>9. CASE heap[msg].next = NULL
  <2>1. table' = Without(table, i)
    BY <1>5, <1>6, <1>9
  <2>2. heap' \in [Nodes -> Fields] /\ Shape(heap', table', Without(Lists, i))
    BY <1>1, <1>2, <1>7, <1>9, <2>1, ShapeDrops
  <2>3. Lists' = Without(Lists, i)
    BY <2>2, ShapeLists DEF Lists
  <2>4. table' \in Seq(Entries)
    BY <1>1, <2>1, WithoutPlaces
  <2>5. Len(Lists[i]) = 1
    <3>1. PICK L : L = Lists[i]
      OBVIOUS
    <3>2. Chain(heap, msg, L) /\ msg \in Nodes
      BY <1>1, <1>2, <3>1
    <3>3. Len(L) = 1
      BY <1>1, <1>9, <3>2, ChainEnds
    <3> QED BY <3>1, <3>3
  <2> QED BY <1>7, <1>8, <2>1, <2>2, <2>3, <2>4, <2>5 DEF LastTaken
<1>10. CASE heap[msg].next # NULL
  <2>1. PICK n : n = heap[msg].next
    OBVIOUS
  <2>2. table' = [table EXCEPT ![i].msg = n]
    BY <1>5, <1>6, <1>10, <2>1
  <2>3. /\ heap' \in [Nodes -> Fields] /\ n \in Nodes
        /\ \A w \in Seq(Entries) :
              Moved(table, i, n, w) => Shape(heap', w, [Lists EXCEPT ![i] = Tail(@)])
    <3>1. PICK v : v = [Lists EXCEPT ![i] = Tail(@)]
      OBVIOUS
    <3>2. HeadCut(Lists, i, v)
      <4>1. Lists \in Seq(Seq(Nodes)) /\ Len(Lists) = Len(table)
        BY <1>1 DEF Shape
      <4>2. Lists[i] # <<>>
        BY <1>1 DEF Chain
      <4> QED BY <3>1, <4>1, <4>2, HeadIsCut, Zenon
    <3>3. /\ heap \in [Nodes -> Fields] /\ table \in Seq(Entries)
          /\ Shape(heap, table, Lists) /\ copy \in Nodes /\ ~heap[copy].live
          /\ n = heap[table[i].msg].next /\ n # NULL
      BY <1>1, <1>2, <1>10, <2>1
    <3>4. /\ heap' \in [Nodes -> Fields] /\ n \in Nodes
          /\ \A w \in Seq(Entries) : Moved(table, i, n, w) => Shape(heap', w, v)
      BY <1>7, <3>2, <3>3, ShapeShrinks
    <3> QED BY <3>1, <3>4, Zenon
  <2>4. table' \in Seq(Entries) /\ Moved(table, i, n, table')
    BY <1>1, <2>2, <2>3, EntryMoves
  <2>5. Shape(heap', table', [Lists EXCEPT ![i] = Tail(@)])
    BY <2>3, <2>4
  <2>6. Lists' = [Lists EXCEPT ![i] = Tail(@)]
    BY <2>5, ShapeLists DEF Lists
  <2>7. Len(Lists[i]) # 1
    <3>1. PICK L : L = Lists[i]
      OBVIOUS
    <3>2. Chain(heap, msg, L) /\ msg \in Nodes
      BY <1>1, <1>2, <3>1
    <3>3. Len(L) # 1
      BY <1>10, <3>2, ChainEnds
    <3> QED BY <3>1, <3>3
  <2> QED BY <1>2, <1>7, <1>8, <2>1, <2>3, <2>4, <2>5, <2>6, <2>7 DEF HeadTaken
<1> QED BY <1>9, <1>10
-----------------------------------------------------------------------------
LEMMA InitListInv == Init => ListInv
<1> SUFFICES ASSUME Init PROVE ListInv
  OBVIOUS
<1>1. TypeOK
  BY EmptySeq DEF Init, TypeOK, Free
<1>2. Lists = <<>>
  BY DEF Init, Lists, ListsOf
<1>3. \A n \in Nodes : ~heap[n].live
  BY DEF Init, Free
<1>4. Shape(heap, table, Lists)
  BY <1>2, <1>3 DEF Init, Shape
<1> QED BY <1>1, <1>4 DEF ListInv, Init

LEMMA StoreMsgKeepsListInv ==
  ASSUME ListInv, NEW p \in Peers, NEW t \in Texts, StoreMsg(p, t)
  PROVE  ListInv'
<1>1. heap' \in [Nodes -> Fields] /\ table' \in Seq(Entries) /\ Shape(heap', table', Lists')
  BY StoreMsgLists
<1>2. arrived' = [arrived EXCEPT ![p] = Append(@, t)] /\ handed' = handed /\ open' = open /\ open
  BY DEF StoreMsg
<1>3. (arrived \in [Peers -> Seq(Texts)])'
  BY <1>2 DEF ListInv, TypeOK
<1> QED BY <1>1, <1>2, <1>3 DEF ListInv, TypeOK, Fields, Entries

LEMMA ClientUpdateKeepsListInv ==
  ASSUME ListInv, NEW p \in Peers, ClientUpdate(p)
  PROVE  ListInv'
<1>1. PICK i \in 1..Len(table), copy \in Unused(heap) : table[i].id = p /\ Take(i, copy)
  BY DEF ClientUpdate
<1>2. open /\ open' = open /\ arrived' = arrived
  BY DEF ClientUpdate
<1>3. /\ heap' \in [Nodes -> Fields] /\ table' \in Seq(Entries) /\ Shape(heap', table', Lists')
      /\ handed' = [handed EXCEPT ![p] = Append(@, heap[table[i].msg].content)]
  BY <1>1, <1>2, TakeLists
<1>4. heap[table[i].msg].content \in Texts
  BY <1>2, ListTypes
<1>5. handed' \in [Peers -> Seq(Texts)]
  BY <1>3, <1>4 DEF ListInv, TypeOK
<1> QED BY <1>2, <1>3, <1>5 DEF ListInv, TypeOK, Fields, Entries

LEMMA ClearKeepsListInv == ListInv /\ ClearDatastructs => ListInv'
<1> SUFFICES ASSUME ListInv, ClearDatastructs PROVE ListInv'
  OBVIOUS
<1>1. heap' \in [Nodes -> Fields]
  BY DEF ListInv, TypeOK, ClearDatastructs, Fields, Free
<1>2. table' \in Seq(Entries) /\ table' = <<>> /\ ~open'
  BY EmptySeq DEF ClearDatastructs
<1> QED BY <1>1, <1>2 DEF ListInv, TypeOK, ClearDatastructs, Fields, Entries

LEMMA NextKeepsListInv == ListInv /\ [Next]_vars => ListInv'
<1> SUFFICES ASSUME ListInv, [Next]_vars PROVE ListInv'
  OBVIOUS
<1>1. CASE \E p \in Peers, t \in Texts : StoreMsg(p, t)
  BY <1>1, StoreMsgKeepsListInv
<1>2. CASE \E p \in Peers : ClientUpdate(p)
  BY <1>2, ClientUpdateKeepsListInv
<1>3. CASE ClearDatastructs
  BY <1>3, ClearKeepsListInv
<1>4. CASE UNCHANGED vars
  BY <1>4 DEF vars, ListInv, TypeOK, Lists
<1> QED BY <1>1, <1>2, <1>3, <1>4 DEF Next

THEOREM ListInvariant == Spec => []ListInv
  BY InitListInv, NextKeepsListInv, PTL DEF Spec

LEMMA ListIsLists ==
  ASSUME NEW i \in 1..Len(table)
  PROVE  List(i) = Lists[i]
  BY DEF List, Lists, ListsOf

\* What a state with the invariant promises of each list.
LEMMA ListInvPromises == ListInv => TypeOK /\ NoDangling /\ MessagesNotLeaked /\ BackLinks
<1> SUFFICES ASSUME ListInv PROVE TypeOK /\ NoDangling /\ MessagesNotLeaked /\ BackLinks
  OBVIOUS
<1>1. TypeOK
  BY DEF ListInv
<1>2. CASE ~open
  <2>1. table = <<>> /\ Len(table) = 0
    BY <1>2, EmptySeq DEF ListInv
  <2> QED BY <1>1, <1>2, <2>1 DEF NoDangling, MessagesNotLeaked, BackLinks
<1>3. CASE open
  <2>1. /\ Shape(heap, table, Lists)
        /\ \A i \in 1..Len(table) : Chain(heap, table[i].msg, Lists[i])
    BY <1>3, ListTypes
  <2>2. NoDangling
    <3>1. ASSUME NEW i \in 1..Len(table), NEW n \in NodesOf(i) PROVE heap[n].live
      <4>1. PICK k \in 1..Len(Lists[i]) : n = Lists[i][k]
        BY ListIsLists DEF NodesOf
      <4>2. Chain(heap, table[i].msg, Lists[i])
        BY <2>1
      <4> QED BY <4>1, <4>2 DEF Chain
    <3> QED BY <3>1 DEF NoDangling
  <2>3. MessagesNotLeaked
    <3>1. ASSUME NEW n \in Nodes, heap[n].live
          PROVE  \E i \in 1..Len(table) : n \in NodesOf(i)
      <4>1. PICK i \in 1..Len(table) : \E k \in 1..Len(Lists[i]) : Lists[i][k] = n
        BY <2>1, <3>1 DEF Shape
      <4> QED BY <4>1, ListIsLists DEF NodesOf
    <3>2. ASSUME NEW i \in 1..Len(table), NEW j \in 1..Len(table), i # j
          PROVE  NodesOf(i) \cap NodesOf(j) = {}
      <4> SUFFICES ASSUME NEW n, n \in NodesOf(i), n \in NodesOf(j) PROVE FALSE
        OBVIOUS
      <4>1. PICK k \in 1..Len(Lists[i]) : n = Lists[i][k]
        BY ListIsLists DEF NodesOf
      <4>2. PICK l \in 1..Len(Lists[j]) : n = Lists[j][l]
        BY ListIsLists DEF NodesOf
      <4>3. Lists[i][k] = Lists[j][l] => i = j
        BY <2>1 DEF Shape
      <4> QED BY <3>2, <4>1, <4>2, <4>3
    <3> QED BY <3>1, <3>2 DEF MessagesNotLeaked
  <2>4. BackLinks
    <3>1. ASSUME NEW i \in 1..Len(table), NEW k \in 2..Len(Lists[i])
          PROVE  heap[Lists[i][k]].prev = Lists[i][k - 1]
      <4>1. Chain(heap, table[i].msg, Lists[i])
        BY <2>1
      <4> QED BY <4>1 DEF Chain
    <3> QED BY <3>1, ListIsLists DEF BackLinks
  <2> QED BY <1>1, <2>2, <2>3, <2>4
<1> QED BY <1>2, <1>3

\* The nodes, the entries of the table and the histories keep their types.
THEOREM ListTypeCorrect == Spec => []TypeOK
  BY ListInvariant, ListInvPromises, PTL

\* p->msg and next never lead get_tail or delete_message to freed memory.
THEOREM ListNoDangling == Spec => []NoDangling
  BY ListInvariant, ListInvPromises, PTL

\* While the daemon runs, every allocated message is an unread one, in the
\* list of one peer: delete_message frees what was handed out.
THEOREM ListNotLeaked == Spec => []MessagesNotLeaked
  BY ListInvariant, ListInvPromises, PTL

\* insert_new_message and delete_message keep prev right behind the head.
THEOREM ListBackLinks == Spec => []BackLinks
  BY ListInvariant, ListInvPromises, PTL
-----------------------------------------------------------------------------
(* The lists implement the sequences of MessageStore.                        *)

\* The messages of the list L, and those of the peer p.
TextsOf(h, L) == [k \in 1..Len(L) |-> h[L[k]].content]
Reads(h, tb, p) ==
    IF \E i \in 1..Len(tb) : tb[i].id = p
    THEN LET i == CHOOSE j \in 1..Len(tb) : tb[j].id = p
         IN  TextsOf(h, ListFrom(h, tb[i].msg))
    ELSE <<>>

LEMMA ContentsIsReads ==
  ASSUME NEW p
  PROVE  Contents(p) = Reads(heap, table, p) /\ Contents(p)' = Reads(heap', table', p)
  BY DEF Contents, Reads, PeerExist, List, TextsOf

LEMMA ReadsEntry ==
  ASSUME NEW h, NEW tb, NEW lists, Shape(h, tb, lists), NEW i \in 1..Len(tb)
  PROVE  Reads(h, tb, tb[i].id) = TextsOf(h, lists[i])
<1>1. (CHOOSE j \in 1..Len(tb) : tb[j].id = tb[i].id) = i
  BY DEF Shape
<1>2. ListFrom(h, tb[i].msg) = lists[i]
  BY ChainIsList DEF Shape
<1> QED BY <1>1, <1>2 DEF Reads

LEMMA ReadsNothing ==
  ASSUME NEW h, NEW tb, NEW p, \A i \in 1..Len(tb) : tb[i].id # p
  PROVE  Reads(h, tb, p) = <<>>
  BY DEF Reads

\* The texts of a list depend on its nodes only.
LEMMA TextsStay ==
  ASSUME NEW h, NEW g, NEW L, \A k \in 1..Len(L) : g[L[k]].content = h[L[k]].content
  PROVE  TextsOf(g, L) = TextsOf(h, L)
  BY DEF TextsOf

LEMMA TextsAppend ==
  ASSUME NEW h, NEW g, NEW L \in Seq(Nodes), NEW n \in Nodes, NEW t \in Texts,
         \A k \in 1..Len(L) : h[L[k]].content \in Texts,
         \A k \in 1..Len(L) : g[L[k]].content = h[L[k]].content, g[n].content = t
  PROVE  TextsOf(g, Append(L, n)) = Append(TextsOf(h, L), t)
<1>1. PICK M : M = Append(L, n)
  OBVIOUS
<1>2. PICK u : u = TextsOf(h, L)
  OBVIOUS
<1>3. /\ Len(M) = Len(L) + 1 /\ M[Len(L) + 1] = n /\ Len(L) \in Nat
      /\ \A k \in 1..Len(L) : M[k] = L[k]
  BY <1>1, AppendProperties, LenProperties
<1>4. /\ u \in Seq(Texts) /\ Len(u) = Len(L)
      /\ \A k \in 1..Len(L) : u[k] = h[L[k]].content
  BY <1>2, <1>3 DEF TextsOf
<1>5. PICK v : v = Append(u, t)
  OBVIOUS
<1>6. /\ v \in Seq(Texts) /\ Len(v) = Len(L) + 1 /\ v[Len(L) + 1] = t
      /\ \A k \in 1..Len(L) : v[k] = u[k]
  BY <1>4, <1>5, AppendProperties
<1>7. ASSUME NEW k \in 1..(Len(L) + 1) PROVE g[M[k]].content = v[k]
  <2>1. CASE k = Len(L) + 1
    BY <2>1, <1>3, <1>6
  <2>2. CASE k \in 1..Len(L)
    BY <2>2, <1>3, <1>4, <1>6
  <2> QED BY <2>1, <2>2, <1>3
<1>8. v = [k \in 1..Len(v) |-> v[k]]
  BY <1>6
<1>9. TextsOf(g, M) = v
  BY <1>3, <1>6, <1>7, <1>8 DEF TextsOf
<1> QED BY <1>1, <1>2, <1>5, <1>9

LEMMA TextsTail ==
  ASSUME NEW h, NEW L \in Seq(Nodes), L # <<>>,
         \A k \in 1..Len(L) : h[L[k]].content \in Texts
  PROVE  /\ TextsOf(h, L) \in Seq(Texts) /\ TextsOf(h, L) # <<>>
         /\ Len(TextsOf(h, L)) = Len(L)
         /\ Head(TextsOf(h, L)) = h[L[1]].content
         /\ TextsOf(h, Tail(L)) = Tail(TextsOf(h, L))
<1>1. PICK M : M = Tail(L)
  OBVIOUS
<1>2. PICK u : u = TextsOf(h, L)
  OBVIOUS
<1>3. /\ Len(M) = Len(L) - 1 /\ Len(L) \in Nat /\ Len(L) >= 1
      /\ \A k \in 1..Len(M) : M[k] = L[k + 1]
  BY <1>1, HeadTailProperties, LenProperties, EmptySeq
<1>4. /\ u \in Seq(Texts) /\ Len(u) = Len(L) /\ u # <<>>
      /\ \A k \in 1..Len(L) : u[k] = h[L[k]].content
  BY <1>2, <1>3, EmptySeq DEF TextsOf
<1>5. PICK v : v = Tail(u)
  OBVIOUS
<1>6. /\ v \in Seq(Texts) /\ Len(v) = Len(M) /\ Head(u) = u[1]
      /\ \A k \in 1..Len(M) : v[k] = u[k + 1]
  BY <1>3, <1>4, <1>5, HeadTailProperties
<1>7. \A k \in 1..Len(M) : h[M[k]].content = v[k]
  BY <1>3, <1>4, <1>6
<1>8. v = [k \in 1..Len(v) |-> v[k]]
  BY <1>6
<1>9. TextsOf(h, M) = v
  BY <1>6, <1>7, <1>8 DEF TextsOf
<1>10. Head(u) = h[L[1]].content
  BY <1>3, <1>4, <1>6
<1> QED BY <1>1, <1>2, <1>4, <1>5, <1>9, <1>10

\* The ids of the entries, which are the table of MessageStore.
Ids(tb) == [i \in 1..Len(tb) |-> tb[i].id]

LEMMA IdsOfTable ==
  ASSUME NEW tb \in Seq(Entries)
  PROVE  /\ Ids(tb) \in Seq(Peers) /\ Len(Ids(tb)) = Len(tb) /\ Len(tb) \in Nat
         /\ \A i \in 1..Len(tb) : Ids(tb)[i] = tb[i].id
<1>1. Len(tb) \in Nat
  BY LenProperties
<1>2. ASSUME NEW i \in 1..Len(tb) PROVE tb[i].id \in Peers
  <2>1. tb[i] \in Entries
    OBVIOUS
  <2> QED BY <2>1 DEF Entries
<1> QED BY <1>1, <1>2 DEF Ids

LEMMA IdsAppend ==
  ASSUME NEW tb \in Seq(Entries), NEW e \in Entries
  PROVE  Ids(Append(tb, e)) = Append(Ids(tb), e.id)
<1>1. PICK w : w = Append(tb, e)
  OBVIOUS
<1>2. e.id \in Peers
  BY DEF Entries
<1>3. /\ w \in Seq(Entries) /\ Len(w) = Len(tb) + 1 /\ w[Len(tb) + 1] = e
      /\ \A i \in 1..Len(tb) : w[i] = tb[i]
  BY <1>1, AppendProperties
<1>4. PICK u : u = Append(Ids(tb), e.id)
  OBVIOUS
<1>5. PICK v : v = Ids(w)
  OBVIOUS
<1>6. /\ u \in Seq(Peers) /\ Len(u) = Len(tb) + 1 /\ u[Len(tb) + 1] = e.id
      /\ \A i \in 1..Len(tb) : u[i] = tb[i].id
  BY <1>2, <1>4, IdsOfTable, AppendProperties
<1>7. /\ v \in Seq(Peers) /\ Len(v) = Len(tb) + 1
      /\ \A i \in 1..(Len(tb) + 1) : v[i] = w[i].id
  BY <1>3, <1>5, IdsOfTable
<1>8. \A i \in 1..Len(u) : u[i] = v[i]
  <2>1. ASSUME NEW i \in 1..(Len(tb) + 1) PROVE u[i] = v[i]
    <3>1. CASE i = Len(tb) + 1
      BY <3>1, <1>3, <1>6, <1>7
    <3>2. CASE i \in 1..Len(tb)
      BY <3>2, <1>3, <1>6, <1>7
    <3> QED BY <3>1, <3>2, IdsOfTable
  <2> QED BY <2>1, <1>6
<1>9. u = v
  BY <1>6, <1>7, <1>8, SeqEqual
<1> QED BY <1>1, <1>4, <1>5, <1>9

LEMMA IdsWithout ==
  ASSUME NEW tb \in Seq(Entries), NEW i \in 1..Len(tb)
  PROVE  Ids(Without(tb, i)) = Without(Ids(tb), i)
<1>1. PICK w : w = Without(tb, i)
  OBVIOUS
<1>2. /\ w \in Seq(Entries) /\ Len(w) = Len(tb) - 1
      /\ \A j \in 1..(Len(tb) - 1) : Place(i, j) \in 1..Len(tb) /\ w[j] = tb[Place(i, j)]
  BY <1>1, WithoutPlaces
<1>3. PICK a : a = Ids(tb)
  OBVIOUS
<1>4. /\ a \in Seq(Peers) /\ Len(a) = Len(tb) /\ i \in 1..Len(a)
      /\ \A j \in 1..Len(tb) : a[j] = tb[j].id
  BY <1>3, IdsOfTable
<1>5. PICK u : u = Without(a, i)
  OBVIOUS
<1>6. /\ u \in Seq(Peers) /\ Len(u) = Len(tb) - 1
      /\ \A j \in 1..(Len(tb) - 1) : u[j] = a[Place(i, j)]
  <2>1. /\ u \in Seq(Peers) /\ Len(u) = Len(a) - 1
        /\ \A j \in 1..(Len(a) - 1) : u[j] = a[Place(i, j)]
    BY <1>4, <1>5, WithoutPlaces
  <2> QED BY <1>4, <2>1
<1>7. PICK v : v = Ids(w)
  OBVIOUS
<1>8. /\ v \in Seq(Peers) /\ Len(v) = Len(tb) - 1
      /\ \A j \in 1..(Len(tb) - 1) : v[j] = w[j].id
  BY <1>2, <1>7, IdsOfTable
<1>9. \A j \in 1..Len(u) : u[j] = v[j]
  BY <1>2, <1>4, <1>6, <1>8
<1>10. u = v
  BY <1>6, <1>8, <1>9, SeqEqual
<1> QED BY <1>1, <1>3, <1>5, <1>7, <1>10

\* Where the messages of p are.
LEMMA ContentsTypes ==
  ASSUME ListInv, open, NEW i \in 1..Len(table)
  PROVE  /\ Contents(table[i].id) = TextsOf(heap, Lists[i])
         /\ Lists[i] \in Seq(Nodes) /\ Lists[i] # <<>> /\ Lists[i][1] = table[i].msg
         /\ \A k \in 1..Len(Lists[i]) : /\ Lists[i][k] \in Nodes
                                         /\ heap[Lists[i][k]].live
                                         /\ heap[Lists[i][k]].content \in Texts
<1>1. Shape(heap, table, Lists)
  BY ListTypes
<1>2. PICK L : L = Lists[i]
  OBVIOUS
<1>3. PICK n : n = table[i].msg
  OBVIOUS
<1>4. Chain(heap, n, L)
  BY <1>1, <1>2, <1>3 DEF Shape
<1>5. /\ L \in Seq(Nodes) /\ L # <<>> /\ L[1] = n
      /\ \A k \in 1..Len(L) : L[k] \in Nodes /\ heap[L[k]].live /\ heap[L[k]].content \in Texts
  BY <1>4 DEF Chain
<1>6. Contents(table[i].id) = TextsOf(heap, Lists[i])
  BY <1>1, ReadsEntry, ContentsIsReads
<1> QED BY <1>2, <1>3, <1>5, <1>6

\* store_msg changes the sequence of one peer, and only at its end.
LEMMA StoreMsgContents ==
  ASSUME ListInv, NEW p \in Peers, NEW t \in Texts, StoreMsg(p, t), NEW q \in Peers
  PROVE  Contents(q)' = IF q = p THEN Append(Contents(p), t) ELSE Contents(q)
<1>1. open /\ Shape(heap', table', Lists')
  BY StoreMsgLists DEF StoreMsg
<1>2. /\ heap \in [Nodes -> Fields] /\ table \in Seq(Entries) /\ Len(table) \in Nat
      /\ Shape(heap, table, Lists) /\ Lists \in Seq(Seq(Nodes)) /\ Len(Lists) = Len(table)
  BY <1>1, ListTypes DEF Shape
<1>3. PICK n \in Unused(heap) : \/ NewList(p, t, n)
                                \/ \E i \in 1..Len(table) : LongerList(p, t, n, i)
  BY StoreMsgLists
<1>4. n \in Nodes /\ ~heap[n].live
  BY DEF Unused
<1>5. \A i \in 1..Len(table) : \A k \in 1..Len(Lists[i]) : Lists[i][k] # n
  BY <1>1, <1>4, ContentsTypes
<1>6. ASSUME NewList(p, t, n)
      PROVE  /\ \A x \in Nodes : heap'[x].content = IF x = n THEN t ELSE heap[x].content
             /\ q = p => Contents(p)' = Append(Contents(p), t)
             /\ q # p => \A i \in 1..Len(table) : /\ i \in 1..Len(table')
                                                 /\ table'[i].id = table[i].id
                                                 /\ Lists'[i] = Lists[i]
             /\ q # p => \A i \in 1..Len(table') : table'[i].id = q => i \in 1..Len(table)
  <2>1. \A x \in Nodes : heap'[x] = IF x = n THEN Alone(t) ELSE heap[x]
    <3>1. heap' = NewMessage(heap, n, t)
      BY <1>6 DEF NewList
    <3> QED BY <1>2, <1>4, <3>1, NewNode
  <2>2. \A x \in Nodes : heap'[x].content = IF x = n THEN t ELSE heap[x].content
    BY <2>1, AloneFields
  <2>3. PICK e : e = [id |-> p, msg |-> n]
    OBVIOUS
  <2>4. e \in Entries /\ e.id = p
    BY <1>4, <2>3 DEF Entries
  <2>5. /\ Len(table') = Len(table) + 1 /\ table'[Len(table) + 1] = e
        /\ \A i \in 1..Len(table) : table'[i] = table[i]
    BY <1>2, <1>6, <2>3, <2>4, AppendProperties DEF NewList
  <2>6. Lists'[Len(table) + 1] = <<n>> /\ \A i \in 1..Len(table) : Lists'[i] = Lists[i]
    <3>1. <<n>> \in Seq(Nodes)
      BY <1>4
    <3> QED BY <1>2, <1>6, <3>1, AppendProperties DEF NewList
  <2>7. Contents(p)' = Append(Contents(p), t)
    <3>1. Contents(p) = <<>>
      BY <1>6, ReadsNothing, ContentsIsReads DEF NewList
    <3>2. PICK i : i = Len(table) + 1
      OBVIOUS
    <3>3. i \in 1..Len(table') /\ table'[i].id = p /\ Lists'[i] = <<n>>
      BY <1>2, <2>4, <2>5, <2>6, <3>2
    <3>4. Contents(p)' = TextsOf(heap', <<n>>)
      BY <1>1, <3>3, ReadsEntry, ContentsIsReads
    <3>5. TextsOf(heap', <<n>>) = <<t>>
      <4>1. heap'[n].content = t
        BY <1>4, <2>2
      <4>2. PICK c : c = [x \in Nodes |-> heap'[x].content]
        OBVIOUS
      <4> QED BY <4>1 DEF TextsOf
    <3>6. Append(<<>>, t) = <<t>>
      OBVIOUS
    <3> QED BY <3>1, <3>4, <3>5, <3>6
  <2>8. \A i \in 1..Len(table) : i \in 1..Len(table')
    BY <1>2, <2>5
  <2>9. ASSUME q # p, NEW i \in 1..Len(table'), table'[i].id = q
        PROVE  i \in 1..Len(table)
    <3>1. i \in 1..Len(table) \/ i = Len(table) + 1
      BY <1>2, <2>5
    <3> QED BY <2>4, <2>5, <2>9, <3>1
  <2> QED BY <2>2, <2>5, <2>6, <2>7, <2>8, <2>9
<1>7. ASSUME NEW i \in 1..Len(table), LongerList(p, t, n, i)
      PROVE  /\ \A x \in Nodes : heap'[x].content = IF x = n THEN t ELSE heap[x].content
             /\ q = p => Contents(p)' = Append(Contents(p), t)
             /\ q # p => \A j \in 1..Len(table) : table[j].id = q => Lists'[j] = Lists[j]
  <2>1. PICK L : L = Lists[i]
    OBVIOUS
  <2>2. /\ L \in Seq(Nodes) /\ L # <<>> /\ Contents(p) = TextsOf(heap, L)
        /\ \A k \in 1..Len(L) : L[k] \in Nodes /\ L[k] # n /\ heap[L[k]].content \in Texts
    BY <1>1, <1>5, <1>7, <2>1, ContentsTypes DEF LongerList
  <2>3. PICK tail : tail = L[Len(L)]
    OBVIOUS
  <2>4. tail \in Nodes /\ tail # n
    <3>1. Len(L) \in 1..Len(L)
      BY <2>2, LenProperties, EmptySeq
    <3> QED BY <2>2, <2>3, <3>1
  <2>5. heap' = Linked(NewMessage(heap, n, t), tail, n)
    BY <1>7, <2>1, <2>3 DEF LongerList
  <2>6. \A x \in Nodes : heap'[x].content = IF x = n THEN t ELSE heap[x].content
    <3>1. PICK g : g = heap'
      OBVIOUS
    <3>2. /\ \A x \in Nodes : x # n /\ x # tail => g[x] = heap[x]
          /\ g[tail].content = heap[tail].content /\ g[n].content = t
      <4>1. PICK h : h = heap
        OBVIOUS
      <4>2. h \in [Nodes -> Fields] /\ g = Linked(NewMessage(h, n, t), tail, n) /\ n \in Nodes
        BY <1>2, <1>4, <2>5, <3>1, <4>1
      <4>3. /\ \A x \in Nodes : x # n /\ x # tail => g[x] = h[x]
            /\ g[tail].content = h[tail].content /\ g[n].content = t
        BY <2>4, <4>2, LinkedHeap
      <4> QED BY <4>1, <4>3
    <3> QED BY <2>4, <3>1, <3>2
  <2>7. PICK M : M = Append(L, n)
    OBVIOUS
  <2>8. Lists' = [Lists EXCEPT ![i] = M] /\ table' = table /\ table[i].id = p
    BY <1>7, <2>1, <2>7 DEF LongerList
  <2>9. Lists'[i] = M /\ \A j \in 1..Len(table) : j # i => Lists'[j] = Lists[j]
    BY <1>2, <2>8
  <2>10. Contents(p)' = TextsOf(heap', M)
    <3>1. table'[i].id = p /\ i \in 1..Len(table')
      BY <2>8
    <3>2. Reads(heap', table', p) = TextsOf(heap', Lists'[i])
      BY <1>1, <3>1, ReadsEntry
    <3> QED BY <2>9, <3>2, ContentsIsReads
  <2>11. TextsOf(heap', M) = Append(TextsOf(heap, L), t)
    BY <1>4, <2>2, <2>6, <2>7, TextsAppend
  <2> QED BY <2>2, <2>6, <2>8, <2>9, <2>10, <2>11
<1>8. CASE q = p
  BY <1>3, <1>6, <1>7, <1>8
<1>9. CASE q # p
  <2>1. /\ \A x \in Nodes : heap'[x].content = IF x = n THEN t ELSE heap[x].content
        /\ \A i \in 1..Len(table) : table[i].id = q =>
              i \in 1..Len(table') /\ table'[i].id = q /\ Lists'[i] = Lists[i]
        /\ \A i \in 1..Len(table') : table'[i].id = q => i \in 1..Len(table) /\ table[i].id = q
    BY <1>3, <1>6, <1>7, <1>9 DEF LongerList
  <2>2. CASE \E i \in 1..Len(table) : table[i].id = q
    <3>1. PICK i \in 1..Len(table) : table[i].id = q
      BY <2>2
    <3>2. Contents(q) = TextsOf(heap, Lists[i]) /\ Contents(q)' = TextsOf(heap', Lists[i])
      BY <1>1, <2>1, <3>1, ContentsTypes, ReadsEntry, ContentsIsReads
    <3>3. \A k \in 1..Len(Lists[i]) : heap'[Lists[i][k]].content = heap[Lists[i][k]].content
      BY <1>1, <1>5, <2>1, ContentsTypes
    <3> QED BY <1>9, <3>2, <3>3, TextsStay
  <2>3. CASE ~\E i \in 1..Len(table) : table[i].id = q
    <3>1. Contents(q) = <<>> /\ Contents(q)' = <<>>
      BY <2>1, <2>3, ReadsNothing, ContentsIsReads
    <3> QED BY <1>9, <3>1
  <2> QED BY <2>2, <2>3
<1> QED BY <1>8, <1>9

\* get_unread_message takes the head off the sequence of one peer.
LEMMA TakeContents ==
  ASSUME ListInv, open, NEW i \in 1..Len(table), NEW copy \in Unused(heap), Take(i, copy),
         NEW p \in Peers, p = table[i].id, NEW q \in Peers
  PROVE  /\ Contents(p) \in Seq(Texts) /\ Contents(p) # <<>>
         /\ Head(Contents(p)) = heap[table[i].msg].content
         /\ LastTaken(i) => Tail(Contents(p)) = <<>>
         /\ HeadTaken(i) => Tail(Contents(p)) # <<>>
         /\ Contents(q)' = IF q = p THEN Tail(Contents(p)) ELSE Contents(q)
<1>1. /\ heap \in [Nodes -> Fields] /\ table \in Seq(Entries) /\ Len(table) \in Nat
      /\ Shape(heap, table, Lists) /\ Lists \in Seq(Seq(Nodes)) /\ Len(Lists) = Len(table)
      /\ \A j \in 1..Len(table) : Chain(heap, table[j].msg, Lists[j]) /\ table[j].msg \in Nodes
  BY ListTypes DEF Shape
<1>2. /\ Shape(heap', table', Lists')
      /\ heap' = Freed(heap, table[i].msg, copy)
      /\ LastTaken(i) \/ HeadTaken(i)
  BY TakeLists
<1>3. PICK L : L = Lists[i]
  OBVIOUS
<1>4. PICK n : n = table[i].msg
  OBVIOUS
<1>5. /\ L \in Seq(Nodes) /\ L # <<>> /\ L[1] = n /\ Contents(p) = TextsOf(heap, L)
      /\ \A k \in 1..Len(L) : heap[L[k]].content \in Texts
  BY <1>3, <1>4, ContentsTypes
<1>6. /\ TextsOf(heap, L) \in Seq(Texts) /\ TextsOf(heap, L) # <<>>
      /\ Len(TextsOf(heap, L)) = Len(L)
      /\ Head(TextsOf(heap, L)) = heap[L[1]].content
      /\ TextsOf(heap, Tail(L)) = Tail(TextsOf(heap, L))
  BY <1>5, TextsTail
<1>7. Tail(Contents(p)) = <<>> <=> Len(L) = 1
  <2>1. PICK u : u = Contents(p)
    OBVIOUS
  <2>2. u \in Seq(Texts) /\ u # <<>> /\ Len(u) = Len(L)
    BY <1>5, <1>6, <2>1
  <2>3. Tail(u) \in Seq(Texts) /\ Len(Tail(u)) = Len(u) - 1 /\ Len(u) \in Nat
    BY <2>2, HeadTailProperties, LenProperties
  <2>4. Tail(u) = <<>> <=> Len(Tail(u)) = 0
    BY <2>3, EmptySeq
  <2>5. Len(Tail(u)) = 0 <=> Len(u) = 1
    BY <2>3
  <2> QED BY <2>1, <2>2, <2>4, <2>5, Zenon
<1>h. \A x \in Nodes : x # n /\ x # copy => heap'[x] = heap[x]
  <2>1. PICK g : g = heap'
    OBVIOUS
  <2>2. PICK h : h = heap
    OBVIOUS
  <2>3. /\ h \in [Nodes -> Fields] /\ n \in Nodes /\ Chain(h, n, L)
        /\ copy \in Nodes /\ ~h[copy].live
        /\ g = FreeNode(FreeNode(NewMessage(h, copy, h[n].content), n), copy)
    BY <1>1, <1>2, <1>3, <1>4, <2>1, <2>2 DEF Unused, Freed
  <2>4. \A x \in Nodes : g[x] = IF x = n \/ x = copy THEN Free ELSE h[x]
    BY <2>3, ChainShrinks
  <2> QED BY <2>1, <2>2, <2>4
<1>8. \A j \in 1..Len(table) : j # i => \A k \in 1..Len(Lists[j]) :
         heap'[Lists[j][k]] = heap[Lists[j][k]]
  <2>1. ASSUME NEW j \in 1..Len(table), j # i, NEW k \in 1..Len(Lists[j])
        PROVE  Lists[j][k] \in Nodes /\ Lists[j][k] # n /\ Lists[j][k] # copy
    <3>1. Lists[j][k] \in Nodes /\ heap[Lists[j][k]].live
      BY ContentsTypes
    <3>2. ~heap[copy].live
      BY DEF Unused
    <3>3. 1 \in 1..Len(Lists[i]) /\ Lists[i][1] = n
      BY <1>3, <1>5, LenProperties, EmptySeq
    <3>4. \A l \in 1..Len(Lists[i]) : Lists[j][k] = Lists[i][l] => j = i
      BY <1>1 DEF Shape
    <3> QED BY <2>1, <3>1, <3>2, <3>3, <3>4
  <2> QED BY <1>h, <2>1
<1>9. \A j \in 1..Len(table) : table[j].id = p => j = i
  BY <1>1 DEF Shape
<1>10. ASSUME LastTaken(i)
       PROVE  /\ Contents(p)' = <<>>
              /\ q # p => \A j \in 1..Len(table) : table[j].id = q =>
                    \E m \in 1..Len(table') : table'[m].id = q /\ Lists'[m] = Lists[j]
              /\ \A m \in 1..Len(table') : \E j \in 1..Len(table) : table'[m].id = table[j].id
  <2>1. /\ Len(table') = Len(table) - 1
        /\ \A j \in 1..(Len(table) - 1) : /\ Place(i, j) \in 1..Len(table)
                                           /\ table'[j] = table[Place(i, j)]
    BY <1>1, <1>10, WithoutPlaces DEF LastTaken
  <2>2. \A j \in 1..(Len(table) - 1) : Lists'[j] = Lists[Place(i, j)]
    <3>1. i \in 1..Len(Lists) /\ Lists \in Seq(Seq(Nodes))
      BY <1>1
    <3>2. \A j \in 1..(Len(Lists) - 1) : Without(Lists, i)[j] = Lists[Place(i, j)]
      BY <3>1, WithoutPlaces
    <3> QED BY <1>1, <1>10, <3>2 DEF LastTaken
  <2>3. /\ \A j \in 1..(Len(table) - 1) : Place(i, j) # i
        /\ \A k \in 1..Len(table) : k # i => \E j \in 1..(Len(table) - 1) : Place(i, j) = k
    BY <1>1, PlaceProperties
  <2>4. \A m \in 1..Len(table') : table'[m].id # p
    BY <1>9, <2>1, <2>3
  <2>5. Contents(p)' = <<>>
    BY <2>4, ReadsNothing, ContentsIsReads
  <2>6. ASSUME q # p, NEW j \in 1..Len(table), table[j].id = q
        PROVE  \E m \in 1..Len(table') : table'[m].id = q /\ Lists'[m] = Lists[j]
    <3>1. PICK m \in 1..(Len(table) - 1) : Place(i, m) = j
      BY <2>3, <2>6
    <3> QED BY <2>1, <2>2, <2>6, <3>1
  <2>7. \A m \in 1..Len(table') : \E j \in 1..Len(table) : table'[m].id = table[j].id
    BY <2>1
  <2> QED BY <2>5, <2>6, <2>7
<1>11. ASSUME HeadTaken(i)
       PROVE  /\ Contents(p)' = Tail(Contents(p))
              /\ q # p => \A j \in 1..Len(table) : table[j].id = q =>
                    \E m \in 1..Len(table') : table'[m].id = q /\ Lists'[m] = Lists[j]
              /\ \A m \in 1..Len(table') : \E j \in 1..Len(table) : table'[m].id = table[j].id
  <2>1. Len(table') = Len(table) /\ \A j \in 1..Len(table) : table'[j].id = table[j].id
    BY <1>11 DEF HeadTaken, Moved
  <2>2. PICK M : M = Tail(L)
    OBVIOUS
  <2>3. Lists' = [Lists EXCEPT ![i] = M]
    BY <1>3, <1>11, <2>2 DEF HeadTaken
  <2>4. Lists'[i] = M /\ \A j \in 1..Len(table) : j # i => Lists'[j] = Lists[j]
    BY <1>1, <2>3
  <2>5. Contents(p)' = TextsOf(heap', M)
    <3>1. table'[i].id = p /\ i \in 1..Len(table')
      BY <2>1
    <3>2. Reads(heap', table', p) = TextsOf(heap', Lists'[i])
      BY <1>2, <3>1, ReadsEntry
    <3> QED BY <2>4, <3>2, ContentsIsReads
  <2>6. TextsOf(heap', M) = TextsOf(heap, M)
    <3>1. \A k \in 1..Len(M) : M[k] \in Nodes /\ M[k] # n /\ M[k] # copy
      <4>1. /\ Len(M) = Len(L) - 1 /\ Len(L) \in Nat
            /\ \A k \in 1..Len(M) : M[k] = L[k + 1]
        BY <1>5, <2>2, HeadTailProperties, LenProperties
      <4>2. \A k \in 1..Len(L) : L[k] \in Nodes /\ heap[L[k]].live
        BY <1>3, ContentsTypes
      <4>3. \A k \in 1..Len(L) : L[k] = n => k = 1
        <5>1. Chain(heap, n, L)
          BY <1>1, <1>3, <1>4
        <5>2. 1 \in 1..Len(L)
          BY <1>5, LenProperties, EmptySeq
        <5>3. \A j, k \in 1..Len(L) : L[j] = L[k] => j = k
          BY <5>1 DEF Chain
        <5> QED BY <1>5, <5>2, <5>3
      <4>4. ~heap[copy].live
        BY DEF Unused
      <4>5. ASSUME NEW k \in 1..Len(M)
            PROVE  M[k] \in Nodes /\ M[k] # n /\ M[k] # copy
        <5>1. k + 1 \in 1..Len(L) /\ k + 1 # 1 /\ M[k] = L[k + 1]
          BY <4>1
        <5> QED BY <4>2, <4>3, <4>4, <5>1
      <4> QED BY <4>5
    <3> QED BY <1>h, <3>1, TextsStay
  <2>7. Contents(p)' = Tail(Contents(p))
    BY <1>5, <1>6, <2>2, <2>5, <2>6
  <2>8. ASSUME q # p, NEW j \in 1..Len(table), table[j].id = q
        PROVE  \E m \in 1..Len(table') : table'[m].id = q /\ Lists'[m] = Lists[j]
    BY <2>1, <2>4, <2>8
  <2>9. \A m \in 1..Len(table') : \E j \in 1..Len(table) : table'[m].id = table[j].id
    BY <2>1
  <2> QED BY <2>7, <2>8, <2>9
<1>12. LastTaken(i) => Len(L) = 1
  BY <1>3 DEF LastTaken
<1>13. HeadTaken(i) => Len(L) # 1
  BY <1>3 DEF HeadTaken
<1>14. Contents(q)' = IF q = p THEN Tail(Contents(p)) ELSE Contents(q)
  <2>1. CASE q = p
    BY <2>1, <1>2, <1>7, <1>10, <1>11, <1>12
  <2>2. CASE q # p /\ \E j \in 1..Len(table) : table[j].id = q
    <3>1. PICK j \in 1..Len(table) : table[j].id = q
      BY <2>2
    <3>2. PICK m \in 1..Len(table') : table'[m].id = q /\ Lists'[m] = Lists[j]
      BY <1>2, <1>10, <1>11, <2>2, <3>1
    <3>3. Contents(q)' = TextsOf(heap', Lists[j])
      <4>1. Reads(heap', table', q) = TextsOf(heap', Lists'[m])
        BY <1>2, <3>2, ReadsEntry
      <4> QED BY <3>2, <4>1, ContentsIsReads
    <3>4. Contents(q) = TextsOf(heap, Lists[j])
      BY <3>1, ContentsTypes
    <3>5. TextsOf(heap', Lists[j]) = TextsOf(heap, Lists[j])
      BY <1>8, <2>2, <3>1, TextsStay
    <3> QED BY <2>2, <3>3, <3>4, <3>5
  <2>3. CASE q # p /\ ~\E j \in 1..Len(table) : table[j].id = q
    <3>1. \A m \in 1..Len(table') : table'[m].id # q
      BY <1>2, <1>10, <1>11, <2>3
    <3>2. Contents(q) = <<>> /\ Contents(q)' = <<>>
      BY <2>3, <3>1, ReadsNothing, ContentsIsReads
    <3> QED BY <2>3, <3>2
  <2> QED BY <2>1, <2>2, <2>3
<1> QED BY <1>4, <1>5, <1>6, <1>7, <1>12, <1>13, <1>14

\* The invariant gives each step of the lists a step of MessageStore.
LEMMA InitIsStoreInit == Init => Store!Init
<1> SUFFICES ASSUME Init PROVE Store!Init
  OBVIOUS
<1>1. table = <<>> /\ Len(table) = 0
  BY EmptySeq DEF Init
<1>2. \A p \in Peers : Contents(p) = <<>>
  BY <1>1, ReadsNothing, ContentsIsReads
<1>3. [i \in 1..Len(table) |-> table[i].id] = <<>>
  BY <1>1
<1> QED BY <1>2, <1>3 DEF Init, Store!Init

LEMMA StoreMsgIsStoreMsg ==
  ASSUME ListInv, NEW p \in Peers, NEW t \in Texts, StoreMsg(p, t)
  PROVE  Store!StoreMsg(p, t)
<1>1. /\ open /\ open' = open /\ handed' = handed
      /\ arrived' = [arrived EXCEPT ![p] = Append(@, t)]
  BY DEF StoreMsg
<1>2. table \in Seq(Entries) /\ Len(table) \in Nat
  BY <1>1, ListTypes
<1>3. [q \in Peers |-> Contents(q)]'
      = [[q \in Peers |-> Contents(q)] EXCEPT ![p] = Append(@, t)]
  BY StoreMsgContents
<1>4. Store!PeerExist(p) <=> \E i \in 1..Len(table) : table[i].id = p
  BY <1>2, IdsOfTable DEF Store!PeerExist, Ids
<1>5. Ids(table') = IF Store!PeerExist(p) THEN Ids(table) ELSE Append(Ids(table), p)
  <2>1. PICK n \in Unused(heap) : \/ NewList(p, t, n)
                                  \/ \E i \in 1..Len(table) : LongerList(p, t, n, i)
    BY StoreMsgLists
  <2>2. CASE NewList(p, t, n)
    <3>1. PICK e : e = [id |-> p, msg |-> n]
      OBVIOUS
    <3>2. e \in Entries /\ e.id = p
      BY <3>1 DEF Entries, Unused
    <3>3. Ids(table') = Append(Ids(table), p)
      BY <1>2, <2>2, <3>1, <3>2, IdsAppend DEF NewList
    <3> QED BY <1>4, <2>2, <3>3 DEF NewList
  <2>3. CASE \E i \in 1..Len(table) : LongerList(p, t, n, i)
    BY <1>4, <2>3 DEF LongerList
  <2> QED BY <2>1, <2>2, <2>3
<1> QED BY <1>1, <1>3, <1>5 DEF Store!StoreMsg, Store!InsertPeer, Store!InsertNewMessage, Ids

LEMMA ClientUpdateIsGetUnread ==
  ASSUME ListInv, NEW p \in Peers, ClientUpdate(p)
  PROVE  Store!GetUnreadMessage(p)
<1>1. PICK i \in 1..Len(table), copy \in Unused(heap) : table[i].id = p /\ Take(i, copy)
  BY DEF ClientUpdate
<1>2. open /\ open' = open /\ arrived' = arrived
  BY DEF ClientUpdate
<1>3. /\ table \in Seq(Entries) /\ Len(table) \in Nat
      /\ handed' = [handed EXCEPT ![p] = Append(@, heap[table[i].msg].content)]
      /\ LastTaken(i) \/ HeadTaken(i)
  BY <1>1, <1>2, ListTypes, TakeLists
<1>4. /\ Contents(p) # <<>> /\ Head(Contents(p)) = heap[table[i].msg].content
      /\ LastTaken(i) => Tail(Contents(p)) = <<>>
      /\ HeadTaken(i) => Tail(Contents(p)) # <<>>
      /\ \A q \in Peers : Contents(q)' = IF q = p THEN Tail(Contents(p)) ELSE Contents(q)
  BY <1>1, <1>2, TakeContents
<1>5. [q \in Peers |-> Contents(q)]' = [[q \in Peers |-> Contents(q)] EXCEPT ![p] = Tail(@)]
  BY <1>4
<1>6. handed' = [handed EXCEPT ![p] = Append(@, Head([q \in Peers |-> Contents(q)][p]))]
  BY <1>3, <1>4
<1>7. Store!HasUnread(p)
  <2>1. Ids(table)[i] = p /\ i \in 1..Len(Ids(table))
    BY <1>1, <1>3, IdsOfTable
  <2>2. [q \in Peers |-> Contents(q)][p] # <<>>
    BY <1>4
  <2> QED BY <2>1, <2>2 DEF Store!HasUnread, Store!PeerExist, Ids
<1>8. IF Tail([q \in Peers |-> Contents(q)][p]) = <<>>
      THEN \E j \in 1..Len(Ids(table)) : Ids(table)[j] = p /\ Ids(table') = Without(Ids(table), j)
      ELSE Ids(table') = Ids(table)
  <2>1. CASE LastTaken(i)
    <3>1. Ids(table)[i] = p /\ i \in 1..Len(Ids(table)) /\ Ids(table') = Without(Ids(table), i)
      BY <1>1, <1>3, <2>1, IdsOfTable, IdsWithout DEF LastTaken
    <3> QED BY <1>4, <2>1, <3>1
  <2>2. CASE HeadTaken(i)
    <3>1. Ids(table') = Ids(table)
      BY <2>2 DEF HeadTaken, Moved, Ids
    <3> QED BY <1>4, <2>2, <3>1
  <2> QED BY <1>3, <2>1, <2>2
<1> QED BY <1>2, <1>5, <1>6, <1>7, <1>8
        DEF Store!GetUnreadMessage, Store!Without, Without, Ids

LEMMA ClearIsClear == ListInv /\ ClearDatastructs => Store!ClearDatastructs
<1> SUFFICES ASSUME ListInv, ClearDatastructs PROVE Store!ClearDatastructs
  OBVIOUS
<1>1. /\ open /\ open' = FALSE /\ table' = <<>> /\ Len(table') = 0
      /\ arrived' = arrived /\ handed' = handed
  BY EmptySeq DEF ClearDatastructs
<1>2. \A p \in Peers : Contents(p)' = <<>>
  BY <1>1, ReadsNothing, ContentsIsReads
<1>3. [i \in 1..Len(table') |-> table'[i].id] = <<>>
  BY <1>1
<1> QED BY <1>1, <1>2, <1>3 DEF Store!ClearDatastructs

LEMMA NextIsStoreNext == ListInv /\ [Next]_vars => [Store!Next]_(Store!vars)
<1> SUFFICES ASSUME ListInv, [Next]_vars PROVE [Store!Next]_(Store!vars)
  OBVIOUS
<1>1. CASE \E p \in Peers, t \in Texts : StoreMsg(p, t)
  BY <1>1, StoreMsgIsStoreMsg DEF Store!Next
<1>2. CASE \E p \in Peers : ClientUpdate(p)
  BY <1>2, ClientUpdateIsGetUnread DEF Store!Next
<1>3. CASE ClearDatastructs
  BY <1>3, ClearIsClear DEF Store!Next
<1>4. CASE UNCHANGED vars
  <2>1. heap' = heap /\ table' = table /\ open' = open /\ arrived' = arrived /\ handed' = handed
    BY <1>4 DEF vars
  <2>2. \A p : Contents(p)' = Contents(p)
    BY <2>1, ContentsIsReads
  <2> QED BY <2>1, <2>2 DEF Store!vars
<1> QED BY <1>1, <1>2, <1>3, <1>4 DEF Next

\* The nodes and pointers of datastruct.c implement the sequences of
\* MessageStore: each function does to the lists what its action says.
THEOREM ListImplementsStore == Spec => ImplementsStore
  BY ListInvariant, InitIsStoreInit, NextIsStoreNext, PTL DEF Spec, ImplementsStore, Store!Spec
====
