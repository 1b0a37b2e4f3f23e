------------------------------ MODULE MessageList ------------------------------
(***************************************************************************)
(* datastruct.c on the heap: the nodes of the message lists, the pointers  *)
(* between them, malloc and free.  The abstraction MessageStore keeps a    *)
(* sequence for each peer; here the sequence is what following next from   *)
(* p->msg finds.                                                           *)
(*                                                                         *)
(* A node stands for a struct message with its two strings, which are      *)
(* allocated and freed together with it.  A struct peer is freed by        *)
(* nobody, so an entry of the table is a record.                           *)
(***************************************************************************)
EXTENDS Naturals, Sequences, FiniteSets

CONSTANTS Peers, Texts,   \* as in MessageStore
          Nodes,          \* the nodes malloc can return: a bound on the heap
          NULL

ASSUME NullAssumption == NULL \notin Nodes
ASSUME HeapAssumption == IsFiniteSet(Nodes)

VARIABLES heap,     \* heap[n]: the node n
          table,    \* the entries of the hash table, in insertion order
          open,     \* FALSE once clear_datastructs has run
          arrived,  \* history: every message stored for p
          handed    \* history: every message of p that get_unread_message gave

vars == <<heap, table, open, arrived, handed>>

\* A free node, whose fields nobody may read.
Free == [live |-> FALSE, content |-> NULL, next |-> NULL, prev |-> NULL]

TypeOK ==
    /\ heap \in [Nodes -> [live : BOOLEAN, content : Texts \cup {NULL},
                           next : Nodes \cup {NULL}, prev : Nodes \cup {NULL}]]
    /\ table \in Seq([id : Peers, msg : Nodes \cup {NULL}])
    /\ open \in BOOLEAN
    /\ arrived \in [Peers -> Seq(Texts)]
    /\ handed \in [Peers -> Seq(Texts)]

Init == /\ heap = [n \in Nodes |-> Free]
        /\ table = <<>>
        /\ open = TRUE
        /\ arrived = [p \in Peers |-> <<>>]
        /\ handed = [p \in Peers |-> <<>>]
-----------------------------------------------------------------------------
(* The heap h as a value: what the functions of datastruct.c make of it.   *)

\* What malloc may return.
Unused(h) == {n \in Nodes : ~h[n].live}

FreeNode(h, n) == [h EXCEPT ![n] = Free]

\* Mutant of NewMessage: next keeps what malloc left there.
NewMessageNextUnset(h, n, t) ==
    [h EXCEPT ![n] = [live |-> TRUE, content |-> t, next |-> "garbage", prev |-> NULL]]

\* new_message, in the node n.
NewMessage(h, n, t) ==
    [h EXCEPT ![n] = [live |-> TRUE, content |-> t, next |-> NULL, prev |-> NULL]]

\* The nodes of the list that starts at n, in its order.  A list has no more
\* nodes than there are: one that runs in a circle is cut.
ListFrom(h, n) ==
    LET at[k \in 1..Cardinality(Nodes)] ==
            IF k = 1 THEN n
            ELSE IF at[k - 1] = NULL THEN NULL ELSE h[at[k - 1]].next
    IN  [k \in {j \in 1..Cardinality(Nodes) : at[j] # NULL} |-> at[k]]

\* get_tail: the last node of the list of n.
GetTail(h, n) == LET nodes == ListFrom(h, n) IN nodes[Len(nodes)]

\* Mutant of Linked: the new tail does not know its predecessor.
LinkedForward(h, tail, n) == [h EXCEPT ![tail].next = n]

\* insert_new_message ties the new node n to the tail, both ways.
Linked(h, tail, n) == [h EXCEPT ![tail].next = n, ![n].prev = tail]

\* HASH_DEL: the table without its i-th entry, the others in their order.
Without(s, i) == SubSeq(s, 1, i - 1) \o SubSeq(s, i + 1, Len(s))

\* peer_exist: HASH_FIND_STR finds the id.
PeerExist(p) == \E i \in 1..Len(table) : table[i].id = p
-----------------------------------------------------------------------------
\* store_msg: insert_peer for a peer that is not in the table, then
\* insert_new_message: the node is the list of the peer, or its new tail.
StoreMsg(p, t) ==
    LET was == IF PeerExist(p) THEN table ELSE Append(table, [id |-> p, msg |-> NULL])
    IN  /\ open
        /\ \E n \in Unused(heap), i \in 1..Len(was) :
             /\ was[i].id = p
             /\ LET h == NewMessage(heap, n, t)
                IN  IF was[i].msg = NULL
                    THEN /\ table' = [was EXCEPT ![i].msg = n]
                         /\ heap' = h
                    ELSE /\ table' = was
                         /\ heap' = Linked(h, GetTail(h, was[i].msg), n)
        /\ arrived' = [arrived EXCEPT ![p] = Append(@, t)]
        /\ UNCHANGED <<open, handed>>

\* Mutants of Take: the peer keeps its pointer to the freed message; the
\* copy is made after the message was freed; nobody frees the copy.
TakeKeepsMsg(i, copy) ==
    LET msg == table[i].msg
        h == NewMessage(heap, copy, heap[msg].content)
    IN  /\ handed' = [handed EXCEPT ![table[i].id] = Append(@, h[copy].content)]
        /\ heap' = FreeNode(FreeNode(h, msg), copy)
        /\ table' = IF h[msg].next = NULL THEN Without(table, i) ELSE table
TakeCopiesLate(i, copy) ==
    LET msg == table[i].msg
        freed == FreeNode(heap, msg)
        h == NewMessage(freed, copy, freed[msg].content)
    IN  /\ handed' = [handed EXCEPT ![table[i].id] = Append(@, h[copy].content)]
        /\ heap' = FreeNode(h, copy)
        /\ table' = IF heap[msg].next = NULL THEN Without(table, i)
                    ELSE [table EXCEPT ![i].msg = heap[msg].next]
TakeKeepsCopy(i, copy) ==
    LET msg == table[i].msg
        h == NewMessage(heap, copy, heap[msg].content)
    IN  /\ handed' = [handed EXCEPT ![table[i].id] = Append(@, h[copy].content)]
        /\ heap' = FreeNode(h, msg)
        /\ table' = IF h[msg].next = NULL THEN Without(table, i)
                    ELSE [table EXCEPT ![i].msg = h[msg].next]

\* get_unread_message on the i-th entry: the oldest message is copied into a
\* node of its own, delete_message frees it and its successor is the head; an
\* entry without messages leaves the table.  client_update sends the copy and
\* frees it, before any other coroutine runs.
Take(i, copy) ==
    LET msg == table[i].msg
        h == NewMessage(heap, copy, heap[msg].content)
    IN  /\ handed' = [handed EXCEPT ![table[i].id] = Append(@, h[copy].content)]
        /\ heap' = FreeNode(FreeNode(h, msg), copy)
        /\ table' = IF h[msg].next = NULL THEN Without(table, i)
                    ELSE [table EXCEPT ![i].msg = h[msg].next]

\* client_update for a peer that has a message.
ClientUpdate(p) == /\ open
                   /\ \E i \in 1..Len(table), copy \in Unused(heap) :
                        table[i].id = p /\ table[i].msg # NULL /\ Take(i, copy)
                   /\ UNCHANGED <<open, arrived>>

\* clear_datastructs: delete_peer frees the first message of each list, and
\* no other.
ClearDatastructs ==
    /\ open
    /\ open' = FALSE
    /\ heap' = [n \in Nodes |->
                   IF \E i \in 1..Len(table) : table[i].msg = n THEN Free ELSE heap[n]]
    /\ table' = <<>>
    /\ UNCHANGED <<arrived, handed>>

Next == \/ \E p \in Peers, t \in Texts : StoreMsg(p, t)
        \/ \E p \in Peers : ClientUpdate(p)
        \/ ClearDatastructs

Spec == Init /\ [][Next]_vars
-----------------------------------------------------------------------------
(* Properties.                                                             *)

\* The nodes of the list of the i-th entry.
List(i) == ListFrom(heap, table[i].msg)
NodesOf(i) == {List(i)[k] : k \in 1..Len(List(i))}

\* Nobody follows a pointer to memory that was freed: p->msg of every entry,
\* and next of every message that is reached from it, is a live node or NULL
\* (get_tail and delete_message follow them).
NoDangling == \A i \in 1..Len(table) : \A n \in NodesOf(i) : heap[n].live

\* Between two requests the only messages on the heap are the unread ones, each
\* in one list: nothing that was handed out is kept, and no list runs into
\* another.
MessagesNotLeaked ==
    open => /\ \A n \in Nodes : heap[n].live => \E i \in 1..Len(table) : n \in NodesOf(i)
            /\ \A i, j \in 1..Len(table) : i # j => NodesOf(i) \cap NodesOf(j) = {}

\* delete_message leaves prev of the new head as it was, so the head of a list
\* may point to freed memory; behind the head, prev is the predecessor.
BackLinks == \A i \in 1..Len(table) : \A k \in 2..Len(List(i)) :
                heap[List(i)[k]].prev = List(i)[k - 1]

\* The nodes and pointers keep, for each peer, the sequence of messages that
\* MessageStore speaks of.
Contents(p) ==
    IF PeerExist(p)
    THEN LET i == CHOOSE j \in 1..Len(table) : table[j].id = p
         IN  [k \in 1..Len(List(i)) |-> heap[List(i)[k]].content]
    ELSE <<>>
Store == INSTANCE MessageStore WITH table <- [i \in 1..Len(table) |-> table[i].id],
                                    queue <- [p \in Peers |-> Contents(p)]
ImplementsStore == Store!Spec
=============================================================================
