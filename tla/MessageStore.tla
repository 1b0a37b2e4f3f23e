----------------------------- MODULE MessageStore -----------------------------
(***************************************************************************)
(* The unread messages of the daemon: datastruct.c and its two callers in  *)
(* actions.c, store_msg and client_update.                                 *)
(*                                                                         *)
(* The uthash table `head' is the sequence of its peers in insertion order *)
(* (the order HASH_ITER walks); the linked list of a peer is the sequence  *)
(* of its messages, oldest first.  A peer that is not in the table has no  *)
(* list, which is written as the empty one.  The date and the command of a *)
(* message travel with its text and are left out.                          *)
(***************************************************************************)
EXTENDS Naturals, Sequences

CONSTANTS Peers,   \* the ids ("id" field) that send messages to the daemon
          Texts    \* the message contents ("msg" field)

VARIABLES table,   \* the peers of the hash table, in insertion order
          queue,   \* queue[p]: the list p->msg of peer p, oldest first
          open,    \* FALSE once clear_datastructs has run
          arrived, \* history: every message stored for p
          handed   \* history: every message of p that get_unread_message gave

vars == <<table, queue, open, arrived, handed>>

TypeOK == /\ table \in Seq(Peers)
          /\ queue \in [Peers -> Seq(Texts)]
          /\ open \in BOOLEAN
          /\ arrived \in [Peers -> Seq(Texts)]
          /\ handed \in [Peers -> Seq(Texts)]

Init == /\ table = <<>>
        /\ queue = [p \in Peers |-> <<>>]
        /\ open = TRUE
        /\ arrived = [p \in Peers |-> <<>>]
        /\ handed = [p \in Peers |-> <<>>]
-----------------------------------------------------------------------------
\* peer_exist: HASH_FIND_STR finds the id.
PeerExist(p) == \E i \in 1..Len(table) : table[i] = p

\* HASH_DEL: the table without its i-th entry, the others in their order.
Without(s, i) == SubSeq(s, 1, i - 1) \o SubSeq(s, i + 1, Len(s))

\* get_unread_message finds the peer and a message in its list.
HasUnread(p) == PeerExist(p) /\ queue[p] # <<>>

\* insert_peer: HASH_ADD_STR puts a new entry behind the others.
InsertPeer(p) == Append(table, p)

\* insert_new_message: get_tail finds the end of the list.
InsertNewMessage(p, t) == [queue EXCEPT ![p] = Append(@, t)]

\* get_peer_list: the ids of the table in its order.
GetPeerList == table

\* Mutants of StoreMsg: peer_exist is not asked; a message goes to the head.
StoreMsgNewEntry(p, t) == /\ open
                          /\ table' = InsertPeer(p)
                          /\ queue' = InsertNewMessage(p, t)
                          /\ arrived' = [arrived EXCEPT ![p] = Append(@, t)]
                          /\ UNCHANGED <<open, handed>>
StoreMsgAtHead(p, t) == /\ open
                        /\ table' = IF PeerExist(p) THEN table ELSE InsertPeer(p)
                        /\ queue' = [queue EXCEPT ![p] = <<t>> \o @]
                        /\ arrived' = [arrived EXCEPT ![p] = Append(@, t)]
                        /\ UNCHANGED <<open, handed>>

\* store_msg: insert_peer when the peer is not in the table, then
\* insert_new_message at the tail of its list.
StoreMsg(p, t) == /\ open
                  /\ table' = IF PeerExist(p) THEN table ELSE InsertPeer(p)
                  /\ queue' = InsertNewMessage(p, t)
                  /\ arrived' = [arrived EXCEPT ![p] = Append(@, t)]
                  /\ UNCHANGED <<open, handed>>

\* Mutants of GetUnreadMessage: the list is returned in place of its head;
\* the peer is not dropped with its last message; the newest message is
\* returned; the message is not deleted.
TakeUnread(p, rest, given) ==
    /\ open /\ HasUnread(p)
    /\ queue' = [queue EXCEPT ![p] = rest]
    /\ IF rest = <<>>
       THEN \E i \in 1..Len(table) : table[i] = p /\ table' = Without(table, i)
       ELSE UNCHANGED table
    /\ handed' = [handed EXCEPT ![p] = Append(@, given)]
    /\ UNCHANGED <<open, arrived>>
GetUnreadList(p) == TakeUnread(p, Tail(queue[p]), queue[p])
GetUnreadKeepsPeer(p) == /\ open /\ HasUnread(p)
                         /\ queue' = [queue EXCEPT ![p] = Tail(@)]
                         /\ handed' = [handed EXCEPT ![p] = Append(@, Head(queue[p]))]
                         /\ UNCHANGED <<table, open, arrived>>
GetUnreadNewest(p) == TakeUnread(p, SubSeq(queue[p], 1, Len(queue[p]) - 1),
                                 queue[p][Len(queue[p])])
GetUnreadKeepsMessage(p) == TakeUnread(p, queue[p], Head(queue[p]))

\* get_unread_message with something to return: a copy of the oldest message,
\* which leaves the list; a peer whose list is empty now leaves the table.
GetUnreadMessage(p) ==
    /\ open
    /\ HasUnread(p)
    /\ queue' = [queue EXCEPT ![p] = Tail(@)]
    /\ IF Tail(queue[p]) = <<>>
       THEN \E i \in 1..Len(table) : table[i] = p /\ table' = Without(table, i)
       ELSE UNCHANGED table
    /\ handed' = [handed EXCEPT ![p] = Append(@, Head(queue[p]))]
    /\ UNCHANGED <<open, arrived>>

\* clear_datastructs, called by main once the event loop is left.
ClearDatastructs == /\ open
                    /\ open' = FALSE
                    /\ table' = <<>>
                    /\ queue' = [p \in Peers |-> <<>>]
                    /\ UNCHANGED <<arrived, handed>>

Next == \/ \E p \in Peers, t \in Texts : StoreMsg(p, t)
        \/ \E p \in Peers : GetUnreadMessage(p)
        \/ ClearDatastructs

Spec == Init /\ [][Next]_vars
-----------------------------------------------------------------------------
\* A peer has one entry in the table: insert_peer adds without looking, so
\* two entries would split the messages of a peer over two lists.
OneEntryPerPeer == \A i, j \in 1..Len(table) : table[i] = table[j] => i = j

\* The table, which is what GET_PEERS answers with, lists exactly the peers
\* that have an unread message: get_unread_message drops a peer with the
\* last of its messages and never before.
ListedIffUnread == \A p \in Peers : PeerExist(p) <=> queue[p] # <<>>

\* Nothing is lost, repeated or reordered between store_msg and
\* get_unread_message: what arrived is what was handed out followed by what
\* is still in the list.
Fifo == \A p \in Peers : open => arrived[p] = handed[p] \o queue[p]

\* The store keeps the promise of the mail box.
Box == INSTANCE MailBox WITH in <- arrived, out <- handed
ImplementsMailBox == Box!Spec
=============================================================================
