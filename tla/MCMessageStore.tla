---------------------------- MODULE MCMessageStore ----------------------------
(* The message store with at most MaxArrivals messages per behaviour.       *)
EXTENDS MessageStore, FiniteSetsExt

CONSTANT MaxArrivals   \* messages stored in a behaviour, over all peers

Arrivals == MapThenSumSet(LAMBDA p : Len(arrived[p]), Peers)

MCNext == \/ \E p \in Peers, t \in Texts : Arrivals < MaxArrivals /\ StoreMsg(p, t)
          \/ \E p \in Peers : GetUnreadMessage(p)
          \/ ClearDatastructs

MCSpec == Init /\ [][MCNext]_vars
=============================================================================
