------------------------------ MODULE MCDaemon ------------------------------
(* Requests and cuts of frames for the runs of Daemon.                      *)
EXTENDS Daemon, TLC

CONSTANTS p1, p2, t1, t2

Recv(p, t) == [cmd |-> "RECV", id |-> p, msg |-> t]
UpdateOf(p) == [cmd |-> "UPDATE", id |-> "client", msg |-> p]
Other(cmd) == [cmd |-> cmd, id |-> "client", msg |-> "text"]

\* Requests that may be cut: stored, answered, relayed, refused after the body
\* was read, and one that ends the process.
CutRequests == {Recv(p1, t1), UpdateOf(p1)}
               \cup {Other(cmd) : cmd \in {"GET_PEERS", "SEND", "NOT_JSON", "NO_FIELD"}}
\* Requests that have an answer, and a message to hand out.
AnsweredRequests == {UpdateOf(p1), Other("GET_PEERS"), Other("HOST")}
\* Answers, a refusal, an exit, a reply that is no request, and a relay that
\* keeps a thread and a coroutine.
LiveRequests == {UpdateOf(p1)}
                \cup {Other(cmd) : cmd \in {"HOST", "NO_HEAD", "SEND", "EXIT", "END"}}
\* A message and its readers.
StoreAndRead == {Recv(p1, t1), UpdateOf(p1)}
\* A message, and a reader whose id and msg name different peers.
UpdatesById == {Recv(p1, t1), [cmd |-> "UPDATE", id |-> p1, msg |-> p2]}
\* Two messages, whose order can be told, and their readers.
StoreTwoAndRead == StoreAndRead \cup {Recv(p1, t2)}

\* A frame is one segment, as msend writes it, or is cut by TCP.
Whole == {<<4>>}
AnyCut == {<<4>>, <<2, 2>>, <<3, 1>>, <<1, 3>>}

\* The body behind its header, and a body that is cut itself; when all of it
\* arrives before it is read, the frame is whole.  (A header that is cut is
\* refused as NO_HEAD is.)
Cuts == {<<2, 2>>, <<3, 1>>}

\* A client closes its connection, or the connection may also be reset.
Closes == {Fin}
ClosesOrResets == {Fin, Rst}

ConnSymmetry == Permutations(Conns)
ConnTextSymmetry == Permutations(Conns) \cup Permutations(Texts)
=============================================================================
