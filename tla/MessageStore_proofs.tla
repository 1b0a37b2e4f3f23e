------------------------- MODULE MessageStore_proofs -------------------------
(***************************************************************************)
(* Proofs about the message store, for any set of peers and of texts.      *)
(*                                                                         *)
(* The invariant that is inductive is StoreInv: the three properties need  *)
(* each other.  A peer leaves the table once, because it has one entry     *)
(* there (OneEntryPerPeer), and it leaves with its last message, because   *)
(* the table lists the peers with a message (ListedIffUnread).  Fifo then  *)
(* gives the step of the mail box that each step of the store takes.       *)
(***************************************************************************)
EXTENDS MessageStore, SequenceTheorems, TLAPS

StoreInv == TypeOK /\ OneEntryPerPeer /\ ListedIffUnread /\ Fifo

\* Taking the i-th entry out of a sequence without repetitions leaves the
\* other entries, still without repetitions, and no trace of the i-th.
LEMMA WithoutProperties ==
  ASSUME NEW S, NEW s \in Seq(S), NEW i \in 1..Len(s),
         \A j, k \in 1..Len(s) : s[j] = s[k] => j = k
  PROVE  /\ Without(s, i) \in Seq(S)
         /\ Len(Without(s, i)) = Len(s) - 1
         /\ \A j \in 1..(Len(s) - 1) :
               Without(s, i)[j] = IF j < i THEN s[j] ELSE s[j + 1]
         /\ \A j, k \in 1..Len(Without(s, i)) :
               Without(s, i)[j] = Without(s, i)[k] => j = k
         /\ \A x \in S : (\E j \in 1..Len(Without(s, i)) : Without(s, i)[j] = x)
                         <=> (x # s[i] /\ \E j \in 1..Len(s) : s[j] = x)
<1> DEFINE w == Without(s, i)
           a == SubSeq(s, 1, i - 1)
           b == SubSeq(s, i + 1, Len(s))
<1>1. Len(s) \in Nat /\ i \in Nat /\ i >= 1 /\ i <= Len(s)
  BY LenProperties
<1>2. a \in Seq(S) /\ Len(a) = i - 1 /\ \A j \in 1..(i - 1) : a[j] = s[j]
  BY <1>1, SMT
<1>3. b \in Seq(S) /\ Len(b) = Len(s) - i
                   /\ \A j \in 1..(Len(s) - i) : b[j] = s[i + j]
  BY <1>1, SMT
<1>w. w = a \o b
  BY DEF Without
<1> HIDE DEF w, a, b
<1>4. /\ w \in Seq(S)
      /\ Len(w) = Len(s) - 1
      /\ \A j \in 1..(Len(s) - 1) : w[j] = IF j <= i - 1 THEN a[j] ELSE b[j - (i - 1)]
  <2>1. /\ a \o b \in Seq(S)
        /\ Len(a \o b) = Len(a) + Len(b)
        /\ \A j \in 1..(Len(a) + Len(b)) :
              (a \o b)[j] = IF j <= Len(a) THEN a[j] ELSE b[j - Len(a)]
    <3>1. a \in Seq(S) /\ b \in Seq(S)
      BY <1>2, <1>3
    <3> QED BY <3>1, ConcatProperties
  <2>2. Len(a) + Len(b) = Len(s) - 1
    BY <1>1, <1>2, <1>3
  <2> QED BY <2>1, <2>2, <1>2, <1>w, Zenon
<1>5. \A j \in 1..(Len(s) - 1) : w[j] = IF j < i THEN s[j] ELSE s[j + 1]
  <2> SUFFICES ASSUME NEW j \in 1..(Len(s) - 1)
               PROVE  w[j] = IF j < i THEN s[j] ELSE s[j + 1]
    OBVIOUS
  <2>1. CASE j < i
    <3>1. j \in 1..(i - 1) /\ w[j] = a[j]
      BY <2>1, <1>1, <1>4
    <3> QED BY <3>1, <2>1, <1>2
  <2>2. CASE j >= i
    <3>1. j - (i - 1) \in 1..(Len(s) - i) /\ w[j] = b[j - (i - 1)]
      BY <2>2, <1>1, <1>4
    <3>2. b[j - (i - 1)] = s[i + (j - (i - 1))] /\ i + (j - (i - 1)) = j + 1
      BY <3>1, <1>1, <1>3
    <3> QED BY <3>1, <3>2, <2>2, <1>1
  <2> QED BY <2>1, <2>2, <1>1
<1>6. \A j, k \in 1..Len(w) : w[j] = w[k] => j = k
  BY <1>1, <1>4, <1>5
<1>7. ASSUME NEW x \in S
      PROVE  (\E j \in 1..Len(w) : w[j] = x)
             <=> (x # s[i] /\ \E j \in 1..Len(s) : s[j] = x)
  <2>1. ASSUME NEW j \in 1..Len(w), w[j] = x
        PROVE  x # s[i] /\ \E k \in 1..Len(s) : s[k] = x
    BY <2>1, <1>1, <1>4, <1>5
  <2>2. ASSUME x # s[i], NEW k \in 1..Len(s), s[k] = x
        PROVE  \E j \in 1..Len(w) : w[j] = x
    <3>1. k # i
      BY <2>2
    <3>2. CASE k < i
      <4>1. k \in 1..Len(w) /\ w[k] = x
        BY <3>2, <2>2, <1>1, <1>4, <1>5
      <4> QED BY <4>1
    <3>3. CASE k > i
      <4>1. k - 1 \in 1..Len(w) /\ w[k - 1] = x
        BY <3>3, <2>2, <1>1, <1>4, <1>5
      <4> QED BY <4>1
    <3> QED BY <3>1, <3>2, <3>3, <1>1
  <2> QED BY <2>1, <2>2
<1> QED BY <1>4, <1>5, <1>6, <1>7 DEF w

\* Adding an element that a sequence does not have keeps it without
\* repetitions.
LEMMA NewEntryProperties ==
  ASSUME NEW S, NEW s \in Seq(S), NEW x \in S,
         \A j \in 1..Len(s) : s[j] # x,
         \A j, k \in 1..Len(s) : s[j] = s[k] => j = k
  PROVE  /\ \A j, k \in 1..Len(Append(s, x)) :
               Append(s, x)[j] = Append(s, x)[k] => j = k
         /\ \A y \in S : (\E j \in 1..Len(Append(s, x)) : Append(s, x)[j] = y)
                         <=> (y = x \/ \E j \in 1..Len(s) : s[j] = y)
<1> DEFINE w == Append(s, x)
<1>1. Len(s) \in Nat
  BY LenProperties
<1>2. /\ Len(w) = Len(s) + 1
      /\ w[Len(s) + 1] = x
      /\ \A j \in 1..Len(s) : w[j] = s[j]
  BY AppendProperties
<1> HIDE DEF w
<1>3. \A j, k \in 1..Len(w) : w[j] = w[k] => j = k
  BY <1>1, <1>2
<1>4. ASSUME NEW y \in S
      PROVE  (\E j \in 1..Len(w) : w[j] = y) <=> (y = x \/ \E j \in 1..Len(s) : s[j] = y)
  <2>1. ASSUME NEW j \in 1..Len(w), w[j] = y
        PROVE  y = x \/ \E k \in 1..Len(s) : s[k] = y
    BY <2>1, <1>1, <1>2
  <2>2. ASSUME y = x PROVE \E j \in 1..Len(w) : w[j] = y
    <3>1. Len(s) + 1 \in 1..Len(w) /\ w[Len(s) + 1] = y
      BY <2>2, <1>1, <1>2
    <3> QED BY <3>1
  <2>3. ASSUME NEW j \in 1..Len(s), s[j] = y PROVE \E k \in 1..Len(w) : w[k] = y
    <3>1. j \in 1..Len(w) /\ w[j] = y
      BY <2>3, <1>1, <1>2
    <3> QED BY <3>1
  <2> QED BY <2>1, <2>2, <2>3
<1> QED BY <1>3, <1>4 DEF w

\* A message stored goes behind what was handed out and what is listed.
LEMMA AppendBehind ==
  ASSUME NEW u \in Seq(Texts), NEW v \in Seq(Texts), NEW x \in Texts, NEW w, w = u \o v
  PROVE  Append(w, x) = u \o Append(v, x)
<1>1. u \o v \in Seq(Texts) /\ <<x>> \in Seq(Texts)
  BY ConcatProperties
<1>2. Append(u \o v, x) = (u \o v) \o <<x>> /\ Append(v, x) = v \o <<x>>
  BY <1>1, AppendIsConcat
<1>3. (u \o v) \o <<x>> = u \o (v \o <<x>>)
  BY <1>1, ConcatAssociative
<1> QED BY <1>2, <1>3, Zenon

LEMMA AppendNotEmpty ==
  ASSUME NEW S, NEW v \in Seq(S), NEW x \in S
  PROVE  Append(v, x) # <<>>
<1>1. Len(Append(v, x)) = Len(v) + 1 /\ Len(v) \in Nat
  BY AppendProperties, LenProperties
<1>2. Len(<<>>) = 0
  BY EmptySeq
<1> QED BY <1>1, <1>2

\* The head of a list moves behind what was handed out.
LEMMA HeadMoves ==
  ASSUME NEW S, NEW u \in Seq(S), NEW v \in Seq(S), v # <<>>
  PROVE  /\ u \o v = Append(u, Head(v)) \o Tail(v)
         /\ Len(u) < Len(u \o v)
         /\ (u \o v)[Len(u) + 1] = Head(v)
<1>1. /\ Head(v) \in S /\ Tail(v) \in Seq(S) /\ <<Head(v)>> \in Seq(S)
      /\ v = <<Head(v)>> \o Tail(v)
  BY HeadTailProperties, HeadTailAppend
<1>2. Append(u, Head(v)) = u \o <<Head(v)>>
  BY <1>1, AppendIsConcat
<1>3. (u \o <<Head(v)>>) \o Tail(v) = u \o (<<Head(v)>> \o Tail(v))
  BY <1>1, ConcatAssociative
<1>4. Len(u) \in Nat /\ Len(v) \in Nat \ {0}
  BY LenProperties, EmptySeq
<1>5. /\ Len(u \o v) = Len(u) + Len(v)
      /\ \A i \in 1..(Len(u) + Len(v)) :
            (u \o v)[i] = IF i <= Len(u) THEN u[i] ELSE v[i - Len(u)]
  BY ConcatProperties
<1>6. (u \o v)[Len(u) + 1] = v[1]
  BY <1>4, <1>5
<1>7. Len(u) < Len(u \o v)
  BY <1>4, <1>5
<1>8. Head(v) = v[1]
  OBVIOUS
<1> QED BY <1>1, <1>2, <1>3, <1>6, <1>7, <1>8, Zenon
-----------------------------------------------------------------------------
LEMMA InitStoreInv == Init => StoreInv
  BY DEF Init, StoreInv, TypeOK, OneEntryPerPeer, ListedIffUnread, Fifo, PeerExist

\* store_msg keeps the invariant: the peer is in the table already or gets
\* its first entry, and the message goes to the tail of both sequences.
LEMMA StoreMsgKeepsInv ==
  ASSUME StoreInv, NEW p \in Peers, NEW t \in Texts, StoreMsg(p, t)
  PROVE  StoreInv'
<1>1. /\ TypeOK /\ OneEntryPerPeer /\ ListedIffUnread /\ Fifo
      /\ table \in Seq(Peers)
      /\ \A q \in Peers : queue[q] \in Seq(Texts) /\ handed[q] \in Seq(Texts)
  BY DEF StoreInv, TypeOK
<1>2. /\ table' = IF PeerExist(p) THEN table ELSE Append(table, p)
      /\ \A q \in Peers : queue'[q] = IF q = p THEN Append(queue[p], t) ELSE queue[q]
      /\ \A q \in Peers : arrived'[q] = IF q = p THEN Append(arrived[p], t) ELSE arrived[q]
      /\ handed' = handed /\ open' = open
      /\ TypeOK'
  BY <1>1, AppendProperties DEF StoreMsg, InsertPeer, InsertNewMessage, TypeOK
<1>3. ASSUME ~PeerExist(p)
      PROVE  /\ \A j, k \in 1..Len(table') : table'[j] = table'[k] => j = k
             /\ \A q \in Peers : (\E j \in 1..Len(table') : table'[j] = q)
                                 <=> (q = p \/ \E j \in 1..Len(table) : table[j] = q)
  <2>1. /\ table' = Append(table, p) /\ table \in Seq(Peers)
        /\ \A j \in 1..Len(table) : table[j] # p
        /\ \A j, k \in 1..Len(table) : table[j] = table[k] => j = k
    BY <1>1, <1>2, <1>3 DEF PeerExist, OneEntryPerPeer
  <2>2. /\ \A j, k \in 1..Len(Append(table, p)) :
              Append(table, p)[j] = Append(table, p)[k] => j = k
        /\ \A q \in Peers : (\E j \in 1..Len(Append(table, p)) : Append(table, p)[j] = q)
                            <=> (q = p \/ \E j \in 1..Len(table) : table[j] = q)
    BY <2>1, NewEntryProperties
  <2> QED BY <2>1, <2>2, Zenon
<1>4. OneEntryPerPeer' /\ \A q \in Peers : PeerExist(q)' <=> (PeerExist(q) \/ q = p)
  <2>1. ASSUME PeerExist(p)
        PROVE  /\ OneEntryPerPeer'
               /\ \A q \in Peers : PeerExist(q)' <=> (PeerExist(q) \/ q = p)
    BY <2>1, <1>1, <1>2 DEF OneEntryPerPeer, PeerExist
  <2>2. ASSUME ~PeerExist(p)
        PROVE  /\ OneEntryPerPeer'
               /\ \A q \in Peers : PeerExist(q)' <=> (PeerExist(q) \/ q = p)
    <3>1. /\ \A j, k \in 1..Len(table') : table'[j] = table'[k] => j = k
          /\ \A q \in Peers : (\E j \in 1..Len(table') : table'[j] = q)
                              <=> (q = p \/ \E j \in 1..Len(table) : table[j] = q)
      BY <2>2, <1>3
    <3> QED BY <3>1, Zenon DEF OneEntryPerPeer, PeerExist
  <2> QED BY <2>1, <2>2
<1>5. ListedIffUnread'
  <2>1. Append(queue[p], t) # <<>>
    BY <1>1, AppendNotEmpty
  <2> QED BY <1>1, <1>2, <1>4, <2>1, Zenon DEF ListedIffUnread
<1>6. Fifo'
  <2> SUFFICES ASSUME NEW q \in Peers, open'
               PROVE  arrived'[q] = handed'[q] \o queue'[q]
    BY DEF Fifo
  <2>1. arrived[q] = handed[q] \o queue[q]
    BY <1>1, <1>2 DEF Fifo
  <2>2. handed[q] \in Seq(Texts) /\ queue[q] \in Seq(Texts)
    BY <1>1
  <2>3. Append(arrived[q], t) = handed[q] \o Append(queue[q], t)
    <3> DEFINE given == handed[q]
               listed == queue[q]
               all == arrived[q]
    <3>1. given \in Seq(Texts) /\ listed \in Seq(Texts) /\ all = given \o listed /\ t \in Texts
      BY <2>1, <2>2
    <3> HIDE DEF given, listed, all
    <3>2. Append(all, t) = given \o Append(listed, t)
      BY <3>1, AppendBehind, SMTT(30)
    <3> QED BY <3>2 DEF given, listed, all
  <2>4. CASE q = p
    BY <1>2, <2>3, <2>4, Zenon
  <2>5. CASE q # p
    BY <1>2, <2>1, <2>5, Zenon
  <2> QED BY <2>4, <2>5
<1> QED BY <1>2, <1>4, <1>5, <1>6 DEF StoreInv

\* get_unread_message keeps the invariant: the head moves from the list to
\* what was handed out; the peer goes when that was the last message.
LEMMA GetUnreadKeepsInv ==
  ASSUME StoreInv, NEW p \in Peers, GetUnreadMessage(p)
  PROVE  StoreInv'
<1>1. /\ TypeOK /\ OneEntryPerPeer /\ ListedIffUnread /\ Fifo
      /\ table \in Seq(Peers)
      /\ \A q \in Peers : queue[q] \in Seq(Texts) /\ handed[q] \in Seq(Texts)
      /\ queue[p] # <<>> /\ open /\ open' = open /\ arrived' = arrived
  BY DEF StoreInv, TypeOK, GetUnreadMessage, HasUnread
<1>2. Head(queue[p]) \in Texts /\ Tail(queue[p]) \in Seq(Texts)
  BY <1>1, HeadTailProperties
<1>3. /\ queue' \in [Peers -> Seq(Texts)] /\ handed' \in [Peers -> Seq(Texts)]
      /\ \A q \in Peers : queue'[q] = IF q = p THEN Tail(queue[p]) ELSE queue[q]
      /\ \A q \in Peers : handed'[q] = IF q = p THEN Append(handed[p], Head(queue[p]))
                                                ELSE handed[q]
  BY <1>1, <1>2, AppendProperties DEF GetUnreadMessage, TypeOK
<1>4. ASSUME Tail(queue[p]) = <<>>
      PROVE  (table \in Seq(Peers))' /\ OneEntryPerPeer' /\ ListedIffUnread'
  <2>1. PICK i \in 1..Len(table) : table[i] = p /\ table' = Without(table, i)
    BY <1>4 DEF GetUnreadMessage
  <2>2. \A j, k \in 1..Len(table) : table[j] = table[k] => j = k
    BY <1>1 DEF OneEntryPerPeer
  <2>3. /\ Without(table, i) \in Seq(Peers)
        /\ \A j, k \in 1..Len(Without(table, i)) :
              Without(table, i)[j] = Without(table, i)[k] => j = k
        /\ \A q \in Peers :
              (\E j \in 1..Len(Without(table, i)) : Without(table, i)[j] = q)
              <=> (q # table[i] /\ \E j \in 1..Len(table) : table[j] = q)
    BY <1>1, <2>2, WithoutProperties
  <2>4. \A q \in Peers : PeerExist(q)' <=> (q # p /\ PeerExist(q))
    BY <2>1, <2>3, Zenon DEF PeerExist
  <2>5. (table \in Seq(Peers))' /\ OneEntryPerPeer'
    BY <2>1, <2>3, Zenon DEF OneEntryPerPeer
  <2>6. ListedIffUnread'
    BY <1>1, <1>3, <1>4, <2>4, Zenon DEF ListedIffUnread
  <2> QED BY <2>5, <2>6
<1>5. ASSUME Tail(queue[p]) # <<>>
      PROVE  (table \in Seq(Peers))' /\ OneEntryPerPeer' /\ ListedIffUnread'
  <2>1. table' = table
    BY <1>5 DEF GetUnreadMessage
  <2>2. \A q \in Peers : queue'[q] # <<>> <=> queue[q] # <<>>
    BY <1>1, <1>3, <1>5, Zenon
  <2>3. ListedIffUnread'
    BY <1>1, <2>1, <2>2, Zenon DEF ListedIffUnread, PeerExist
  <2> QED BY <1>1, <2>1, <2>3 DEF OneEntryPerPeer
<1>6. TypeOK'
  BY <1>1, <1>3, <1>4, <1>5 DEF TypeOK
<1>7. Fifo'
  <2> SUFFICES ASSUME NEW q \in Peers
               PROVE  arrived'[q] = handed'[q] \o queue'[q]
    BY DEF Fifo
  <2>1. arrived'[q] = handed[q] \o queue[q]
    BY <1>1 DEF Fifo
  <2>2. handed[p] \o queue[p] = Append(handed[p], Head(queue[p])) \o Tail(queue[p])
    BY <1>1, HeadMoves
  <2> QED BY <1>3, <2>1, <2>2, Zenon
<1> QED BY <1>4, <1>5, <1>6, <1>7 DEF StoreInv

\* clear_datastructs keeps the invariant: the table and every list are empty.
LEMMA ClearKeepsInv == StoreInv /\ ClearDatastructs => StoreInv'
<1> SUFFICES ASSUME StoreInv, ClearDatastructs PROVE StoreInv'
  OBVIOUS
<1>1. Len(<<>>) = 0
  BY EmptySeq
<1>2. TypeOK'
  BY EmptySeq DEF StoreInv, TypeOK, ClearDatastructs
<1>3. OneEntryPerPeer' /\ Fifo'
  BY <1>1 DEF OneEntryPerPeer, Fifo, ClearDatastructs
<1>4. ListedIffUnread'
  BY <1>1 DEF ListedIffUnread, PeerExist, ClearDatastructs
<1> QED BY <1>2, <1>3, <1>4 DEF StoreInv

LEMMA NextKeepsInv == StoreInv /\ [Next]_vars => StoreInv'
<1> SUFFICES ASSUME StoreInv, [Next]_vars PROVE StoreInv'
  OBVIOUS
<1>1. CASE \E p \in Peers, t \in Texts : StoreMsg(p, t)
  BY <1>1, StoreMsgKeepsInv
<1>2. CASE \E p \in Peers : GetUnreadMessage(p)
  BY <1>2, GetUnreadKeepsInv
<1>3. CASE ClearDatastructs
  BY <1>3, ClearKeepsInv
<1>4. CASE UNCHANGED vars
  BY <1>4 DEF vars, StoreInv, TypeOK, OneEntryPerPeer, ListedIffUnread, Fifo, PeerExist
<1> QED BY <1>1, <1>2, <1>3, <1>4 DEF Next

THEOREM StoreInvariant == Spec => []StoreInv
  BY InitStoreInv, NextKeepsInv, PTL DEF Spec

\* The table and the lists of datastruct.c keep their types.
THEOREM StoreTypeCorrect == Spec => []TypeOK
<1>1. StoreInv => TypeOK
  BY DEF StoreInv
<1> QED BY <1>1, StoreInvariant, PTL

\* No peer has two entries in the table: delete_peer takes all of it away.
THEOREM StoreOneEntry == Spec => []OneEntryPerPeer
<1>1. StoreInv => OneEntryPerPeer
  BY DEF StoreInv
<1> QED BY <1>1, StoreInvariant, PTL

\* GET_PEERS answers with each peer that has unread messages, once, and with
\* no other.
THEOREM StoreListing == Spec => [](OneEntryPerPeer /\ ListedIffUnread)
<1>1. StoreInv => OneEntryPerPeer /\ ListedIffUnread
  BY DEF StoreInv
<1> QED BY <1>1, StoreInvariant, PTL

\* No message of the store is lost, repeated or reordered while it is open.
THEOREM StoreFifo == Spec => []Fifo
<1>1. StoreInv => Fifo
  BY DEF StoreInv
<1> QED BY <1>1, StoreInvariant, PTL
-----------------------------------------------------------------------------
LEMMA InitIsBoxInit == Init => Box!Init
  BY DEF Init, Box!Init

\* A message read is the oldest of the mail box that was not handed out.
LEMMA GetUnreadIsWithdraw ==
  ASSUME StoreInv, NEW p \in Peers, GetUnreadMessage(p)
  PROVE  Box!Withdraw(p)
<1>1. /\ open /\ queue[p] # <<>> /\ queue[p] \in Seq(Texts) /\ handed[p] \in Seq(Texts)
      /\ handed' = [handed EXCEPT ![p] = Append(@, Head(queue[p]))]
      /\ UNCHANGED <<arrived, open>>
      /\ arrived[p] = handed[p] \o queue[p]
  BY DEF GetUnreadMessage, HasUnread, StoreInv, TypeOK, Fifo
<1>2. /\ Len(handed[p]) < Len(handed[p] \o queue[p])
      /\ (handed[p] \o queue[p])[Len(handed[p]) + 1] = Head(queue[p])
  BY <1>1, HeadMoves, Zenon
<1>3. /\ Len(handed[p]) < Len(arrived[p])
      /\ arrived[p][Len(handed[p]) + 1] = Head(queue[p])
  BY <1>1, <1>2, Zenon
<1> QED BY <1>1, <1>3 DEF Box!Withdraw, StoreInv, TypeOK

LEMMA NextIsBoxNext == StoreInv /\ [Next]_vars => [Box!Next]_(Box!vars)
<1> SUFFICES ASSUME StoreInv, [Next]_vars PROVE [Box!Next]_(Box!vars)
  OBVIOUS
<1>1. ASSUME NEW p \in Peers, NEW t \in Texts, StoreMsg(p, t)
      PROVE  Box!Deposit(p, t)
  BY <1>1 DEF StoreMsg, Box!Deposit
<1>2. ASSUME NEW p \in Peers, GetUnreadMessage(p)
      PROVE  Box!Withdraw(p)
  BY <1>2, GetUnreadIsWithdraw
<1>3. ASSUME ClearDatastructs PROVE Box!Close
  BY <1>3 DEF ClearDatastructs, Box!Close
<1>4. ASSUME UNCHANGED vars PROVE UNCHANGED Box!vars
  BY <1>4 DEF vars, Box!vars
<1> QED BY <1>1, <1>2, <1>3, <1>4 DEF Next, Box!Next

\* The hash table of lists implements the mail box: the i-th message handed
\* out for a peer is the i-th that was received from it.
THEOREM StoreImplementsMailBox == Spec => ImplementsMailBox
  BY InitIsBoxInit, NextIsBoxNext, StoreInvariant, PTL
     DEF Spec, ImplementsMailBox, Box!Spec
=============================================================================
