---------------------------- MODULE MCMessageList ----------------------------
(* The lists on a small heap, with at most MaxArrivals messages.            *)
EXTENDS MessageList, FiniteSetsExt, TLC

CONSTANT MaxArrivals   \* messages stored in a behaviour, over all peers

Arrivals == MapThenSumSet(LAMBDA p : Len(arrived[p]), Peers)

MCNext == \/ \E p \in Peers, t \in Texts : Arrivals < MaxArrivals /\ StoreMsg(p, t)
          \/ \E p \in Peers : ClientUpdate(p)
          \/ ClearDatastructs

MCSpec == Init /\ [][MCNext]_vars

HeapSymmetry == Permutations(Nodes) \cup Permutations(Texts)
=============================================================================
