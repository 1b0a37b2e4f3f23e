-------------------------------- MODULE Daemon --------------------------------
(***************************************************************************)
(* The torchat daemon: the epoll loop of main.c, the coroutine             *)
(* event_routine it starts for every readable connection, the frames of    *)
(* torchatproto.c, the commands of actions.c, and the threads of           *)
(* socks_helper.c that dial other daemons, together with the clients, the  *)
(* network and the descriptor table they meet in.                          *)
(*                                                                         *)
(* libdill's coroutines are cooperative.  `ready' is its run queue: the    *)
(* coroutine at the head is the one that runs, yield() sends it to the     *)
(* tail, go() sends its caller to the tail and runs the new coroutine at   *)
(* once.  One action is what a coroutine does between two such points.     *)
(* Clients, the network and the dialling threads move at any time.         *)
(*                                                                         *)
(* A connection carries one frame at most ("the client opens a new socket  *)
(* every message"): HeadLen units of header, then BodyLen units of body.   *)
(* A segment in flight is its number of units, or Fin, or Rst.             *)
(***************************************************************************)
EXTENDS Integers, Sequences, FiniteSets

CONSTANTS
    Peers, Texts,     \* ids and contents of messages, as in MessageStore
    Conns,            \* the connections clients may open in a behaviour
    Requests,         \* the frames they may send: [cmd, id, msg] records
    Segmentations,    \* how TCP may cut a frame: sequences of lengths
    Ends,             \* how a client may end a connection: Fin, Rst
    Interrupts,       \* may SIGINT come?
    FirstFd, MaxFd    \* the descriptors free for connections and threads

HeadLen == 2
BodyLen == 2
Fin == 0
Rst == -1
Fds == {0, 1} \cup FirstFd..MaxFd   \* 0 and 1 are the process's stdin, stdout

\* The segments of w carry n units at most: left[i] bounds what the i-th of
\* them and those behind it carry.
Carries(w, n) ==
    \E left \in [1..(Len(w) + 1) -> 0..n] :
        \A i \in 1..Len(w), j \in 1..(Len(w) + 1) :
            i < j => left[j] <= left[i] /\ (w[i] > 0 => left[j] + w[i] <= left[i])

ASSUME DescriptorsAssumption ==
    FirstFd \in Nat /\ MaxFd \in Nat /\ 1 < FirstFd /\ FirstFd <= MaxFd
ASSUME ConnsAssumption ==
    IsFiniteSet(Conns) /\ Conns \cap {"free", "std", "tor", "listener"} = {}
ASSUME RequestsAssumption ==
    \A r \in Requests : /\ r.cmd # "NONE"
                        /\ r.cmd = "RECV" => r.id \in Peers /\ r.msg \in Texts
                        /\ r.cmd = "UPDATE" => r.msg \in Peers
\* What TCP delivers of a frame is not empty, nor more than was sent.
ASSUME SegmentationsAssumption ==
    \A cut \in Segmentations : /\ cut \in Seq(1..(HeadLen + BodyLen))
                               /\ Carries(cut, HeadLen + BodyLen)
ASSUME EndsAssumption == Ends \subseteq {Fin, Rst}

VARIABLES
    client,    \* client[c]: "idle", "open" or "closed"
    request,   \* request[c]: the frame sent on c
    replies,   \* replies[c]: the frames client c received
    wire,      \* wire[c]: the segments under way to the daemon
    sock,      \* sock[c]: the daemon's socket of c, in the kernel
    backlog,   \* connections that wait for accept()
    fds,       \* fds[fd]: what the descriptor stands for
    edge,      \* what epoll has to report: connections and "listener"
    loop,      \* where event_loop, or main after it, stands
    batch,     \* the events epoll_wait returned that are not handled yet
    ready,     \* libdill's run queue
    exitFlag, nConn, trackFd,    \* as in main.c
    dial,      \* dial[c]: the thread that a SEND on c started, and its descriptor
    table, queue, open, arrived, handed     \* the message store

Store == INSTANCE MessageStore

clientVars == <<client, request, replies>>
kernelVars == <<wire, sock, backlog, fds, edge>>
loopVars == <<loop, batch, nConn, trackFd>>
routineVars == <<ready, exitFlag, dial>>
storeVars == <<table, queue, open, arrived, handed>>
vars == <<clientVars, kernelVars, loopVars, routineVars, storeVars>>

NoRequest == [cmd |-> "NONE"]

Main == [at |-> "main", fd |-> -1]
Body(fd) == [at |-> "body", fd |-> fd]     \* torchatproto_mrecv, after yield()
Relay(fd) == [at |-> "relay", fd |-> fd]   \* send_over_tor, after yield()

NoDial == [at |-> "none", fd |-> -1]
EmptySock == [avail |-> 0, taken |-> 0, fin |-> FALSE, rst |-> FALSE]
Listener == [fd |-> -1, kind |-> "listen", of |-> "listener"]

Accepted(c) == \E fd \in Fds : fds[fd] = c
Queued(c) == \E i \in 1..Len(backlog) : backlog[i] = c
Running == loop \notin {"stopped", "aborted", "threw"}
FreeFds == {fd \in Fds : fds[fd] = "free"}
Lowest(S) == CHOOSE n \in S : \A m \in S : n <= m
Least(m, n) == IF m < n THEN m ELSE n

TypeOK ==
    /\ client \in [Conns -> {"idle", "open", "closed"}]
    /\ request \in [Conns -> Requests \cup {NoRequest}]
    /\ \A c \in Conns : \A i \in 1..Len(wire[c]) : wire[c][i] \in Rst..(HeadLen + BodyLen)
    /\ sock \in [Conns -> [avail : 0..(HeadLen + BodyLen), taken : 0..(HeadLen + BodyLen),
                           fin : BOOLEAN, rst : BOOLEAN]]
    /\ \A i \in 1..Len(backlog) : backlog[i] \in Conns
    /\ fds \in [Fds -> Conns \cup {"free", "std", "tor"}]
    /\ edge \subseteq Conns \cup {"listener"}
    /\ loop \in {"wait", "run", "accept", "left", "stopped", "aborted", "threw"}
    /\ batch \subseteq [fd : Fds, kind : {"in", "err"}, of : Conns] \cup {Listener}
    /\ \A i \in 1..Len(ready) : ready[i] = Main \/ \E fd \in Fds : ready[i] \in {Body(fd), Relay(fd)}
    /\ exitFlag \in BOOLEAN
    /\ nConn \in Int
    /\ trackFd \subseteq Fds \cup {-1}
    /\ dial \in [Conns -> [at : {"none", "started", "dialling", "over"}, fd : Fds \cup {-1}]]
    /\ Store!TypeOK

Init == /\ client = [c \in Conns |-> "idle"]
        /\ request = [c \in Conns |-> NoRequest]
        /\ replies = [c \in Conns |-> <<>>]
        /\ wire = [c \in Conns |-> <<>>]
        /\ sock = [c \in Conns |-> EmptySock]
        /\ backlog = <<>>
        /\ fds = [fd \in Fds |-> IF fd \in {0, 1} THEN "std" ELSE "free"]
        /\ edge = {}
        /\ loop = "wait" /\ batch = {} /\ nConn = 0 /\ trackFd = {}
        /\ ready = <<Main>> /\ exitFlag = FALSE
        /\ dial = [c \in Conns |-> NoDial]
        /\ Store!Init
-----------------------------------------------------------------------------
(* Clients and the network.                                                *)

Connect(c) == /\ Running /\ client[c] = "idle"
              /\ client' = [client EXCEPT ![c] = "open"]
              /\ backlog' = Append(backlog, c)
              /\ edge' = edge \cup {"listener"}
              /\ UNCHANGED <<request, replies, wire, sock, fds, loopVars, routineVars, storeVars>>

SendRequest(c, r) ==
    /\ client[c] = "open" /\ request[c] = NoRequest
    /\ Accepted(c) \/ Queued(c)
    /\ request' = [request EXCEPT ![c] = r]
    /\ \E cut \in Segmentations : wire' = [wire EXCEPT ![c] = @ \o cut]
    /\ UNCHANGED <<client, replies, sock, backlog, fds, edge, loopVars, routineVars, storeVars>>

\* The client closes, or resets: its process dies, or an answer is unread.
HangUp(c) == /\ Running /\ client[c] = "open"
             /\ client' = [client EXCEPT ![c] = "closed"]
             /\ \E end \in Ends : wire' = [wire EXCEPT ![c] = Append(@, end)]
             /\ UNCHANGED <<request, replies, sock, backlog, fds, edge, loopVars, routineVars,
                            storeVars>>

\* The next segment reaches the daemon's kernel.  Epoll watches connections
\* once they are accepted; whatever arrives then is an edge.
Deliver(c) ==
    /\ Accepted(c) \/ Queued(c)
    /\ wire[c] # <<>>
    /\ LET s == Head(wire[c])
       IN  sock' = [sock EXCEPT ![c].avail = IF s > 0 THEN @ + s ELSE @,
                                ![c].fin = (@ \/ s = Fin),
                                ![c].rst = (@ \/ s = Rst)]
    /\ wire' = [wire EXCEPT ![c] = Tail(@)]
    /\ edge' = IF Accepted(c) THEN edge \cup {c} ELSE edge
    /\ UNCHANGED <<client, request, replies, backlog, fds, loopVars, routineVars, storeVars>>
-----------------------------------------------------------------------------
(* The event loop.                                                         *)

\* close(fd): the descriptor is free, its connection gone and unwatched.
\* Closing a descriptor that is free already fails with EBADF.
CloseFd(fd) ==
    LET c == fds[fd]
    IN  /\ fds' = [fds EXCEPT ![fd] = "free"]
        /\ edge' = edge \ {c}
        /\ sock' = [d \in Conns |-> IF d = c THEN EmptySock ELSE sock[d]]

HasEvent(c) == sock[c].avail > 0 \/ sock[c].fin \/ sock[c].rst

\* What epoll_wait reports: the state of every descriptor with an edge.
Reported ==
    {[fd |-> fd, kind |-> IF sock[fds[fd]].rst THEN "err" ELSE "in", of |-> fds[fd]] :
        fd \in {f \in Fds : fds[f] \in edge /\ HasEvent(fds[f])}}
    \cup (IF "listener" \in edge /\ backlog # <<>> THEN {Listener} ELSE {})

\* epoll_wait returns, with events, after its timeout or interrupted, and
\* the loop yields once before it looks at them.
Poll == /\ loop = "wait" /\ Head(ready) = Main
        /\ loop' = "run"
        /\ batch' = Reported
        /\ edge' = {}
        /\ ready' = Append(Tail(ready), Main)
        /\ UNCHANGED <<clientVars, wire, sock, backlog, fds, nConn, trackFd, exitFlag, dial,
                       storeVars>>

\* The loop is at an event of the batch.
AtEvent(e) == loop = "run" /\ Head(ready) = Main /\ e \in batch

ErrorEvent(e) == /\ AtEvent(e) /\ e.kind = "err"
                 /\ CloseFd(e.fd)
                 /\ trackFd' = trackFd \ {e.fd}
                 /\ nConn' = nConn - 1
                 /\ batch' = batch \ {e}
                 /\ UNCHANGED <<clientVars, wire, backlog, loop, routineVars, storeVars>>

ListenEvent(e) == /\ AtEvent(e) /\ e.kind = "listen"
                  /\ loop' = "accept"
                  /\ batch' = batch \ {e}
                  /\ UNCHANGED <<clientVars, kernelVars, nConn, trackFd, routineVars, storeVars>>

\* Mutants of AcceptOne: trackFd is indexed by the count of connections; one
\* connection is accepted for an event.
AcceptOneTracksCount ==
    /\ loop = "accept" /\ backlog # <<>> /\ FreeFds # {}
    /\ LET c == Head(backlog)
       IN  /\ fds' = [fds EXCEPT ![Lowest(FreeFds)] = c]
           /\ edge' = IF HasEvent(c) THEN edge \cup {c} ELSE edge
    /\ trackFd' = trackFd \cup {nConn}
    /\ nConn' = nConn + 1
    /\ backlog' = Tail(backlog)
    /\ UNCHANGED <<clientVars, wire, sock, loop, batch, routineVars, storeVars>>
AcceptOneOnly ==
    /\ loop = "accept" /\ backlog # <<>> /\ FreeFds # {}
    /\ LET c == Head(backlog)
           infd == Lowest(FreeFds)
       IN  /\ fds' = [fds EXCEPT ![infd] = c]
           /\ edge' = IF HasEvent(c) THEN edge \cup {c} ELSE edge
           /\ trackFd' = trackFd \cup {infd}
    /\ loop' = "run"
    /\ nConn' = nConn + 1
    /\ backlog' = Tail(backlog)
    /\ UNCHANGED <<clientVars, wire, sock, batch, routineVars, storeVars>>

\* accept() returns a connection, which epoll watches from now on; one that
\* has something to read already is reported.
AcceptOne ==
    /\ loop = "accept" /\ backlog # <<>> /\ FreeFds # {}
    /\ LET c == Head(backlog)
           infd == Lowest(FreeFds)
       IN  /\ fds' = [fds EXCEPT ![infd] = c]
           /\ edge' = IF HasEvent(c) THEN edge \cup {c} ELSE edge
           /\ trackFd' = trackFd \cup {infd}
    /\ nConn' = nConn + 1
    /\ backlog' = Tail(backlog)
    /\ UNCHANGED <<clientVars, wire, sock, loop, batch, routineVars, storeVars>>

\* accept() fails, because no connection waits or no descriptor is left: the
\* loop counts and tracks the descriptor -1 before it looks, and stops.
AcceptFails ==
    /\ loop = "accept"
    /\ backlog = <<>> \/ FreeFds = {}
    /\ trackFd' = trackFd \cup {-1}
    /\ nConn' = nConn + 1
    /\ loop' = "run"
    /\ UNCHANGED <<clientVars, kernelVars, batch, routineVars, storeVars>>
-----------------------------------------------------------------------------
(* event_routine.                                                          *)

\* recv() takes n units out of the socket of c.
Consume(c, n) == sock' = [sock EXCEPT ![c].avail = @ - n, ![c].taken = @ + n]

\* torchatproto_msend: a client that closed its end answers with a reset.
Reply(c, answer) ==
    IF client[c] = "open"
    THEN replies' = [replies EXCEPT ![c] = Append(@, answer)] /\ UNCHANGED wire
    ELSE /\ wire' = IF sock[c].rst THEN wire ELSE [wire EXCEPT ![c] = Append(@, Rst)]
         /\ UNCHANGED replies

\* RECV: store_msg.
StoreIt(r) == /\ r.cmd = "RECV"
              /\ Store!StoreMsg(r.id, r.msg)
              /\ UNCHANGED <<replies, wire, exitFlag, dial>>

\* Mutants of Update: the message is read but stays in the store; an empty box
\* is not answered.
UpdatePeeks(c, r) ==
    /\ r.cmd = "UPDATE"
    /\ Reply(c, IF Store!HasUnread(r.msg)
                THEN [cmd |-> "RECV", id |-> r.msg, msg |-> Head(queue[r.msg])]
                ELSE [cmd |-> "END", id |-> r.msg, msg |-> r.msg])
    /\ UNCHANGED <<exitFlag, dial, storeVars>>
UpdateSilentEnd(c, r) ==
    /\ r.cmd = "UPDATE"
    /\ IF Store!HasUnread(r.msg)
       THEN /\ Reply(c, [cmd |-> "RECV", id |-> r.msg, msg |-> Head(queue[r.msg])])
            /\ Store!GetUnreadMessage(r.msg)
       ELSE UNCHANGED <<replies, wire, storeVars>>
    /\ UNCHANGED <<exitFlag, dial>>

\* UPDATE: client_update; the peer asked for is in "msg".
Update(c, r) ==
    /\ r.cmd = "UPDATE"
    /\ IF Store!HasUnread(r.msg)
       THEN /\ Reply(c, [cmd |-> "RECV", id |-> r.msg, msg |-> Head(queue[r.msg])])
            /\ Store!GetUnreadMessage(r.msg)
       ELSE /\ Reply(c, [cmd |-> "END", id |-> r.msg, msg |-> r.msg])
            /\ UNCHANGED storeVars
    /\ UNCHANGED <<exitFlag, dial>>

\* GET_PEERS: send_peer_list_to_client.
GetPeers(c, r) == /\ r.cmd = "GET_PEERS"
                  /\ Reply(c, [cmd |-> "GET_PEERS", id |-> r.id, msg |-> Store!GetPeerList])
                  /\ UNCHANGED <<exitFlag, dial, storeVars>>

\* HOST: send_hostname_to_client.
Host(c, r) == /\ r.cmd = "HOST"
              /\ Reply(c, [cmd |-> "HOST", id |-> r.id, msg |-> "hostname"])
              /\ UNCHANGED <<exitFlag, dial, storeVars>>

\* SEND: relay_msg starts the thread that dials, then waits for it.
Send(c, r) == /\ r.cmd = "SEND"
              /\ dial' = [dial EXCEPT ![c].at = "started"]
              /\ UNCHANGED <<replies, wire, exitFlag, storeVars>>

\* EXIT sets the flag that the loop reads after this batch, and answers nothing.
Exit(r) == /\ r.cmd = "EXIT"
           /\ exitFlag' = TRUE
           /\ UNCHANGED <<replies, wire, dial, storeVars>>

\* END and ERR, which are no requests, have no effect.
Ignore(r) == /\ r.cmd \in {"END", "ERR"}
             /\ UNCHANGED <<replies, wire, exitFlag, dial, storeVars>>

\* The switch of event_routine on the request r read from fd; `rest' is the
\* run queue once this coroutine stops running.  The connection stays open.
Dispatch(fd, r, rest) ==
    LET c == fds[fd]
    IN  /\ \/ StoreIt(r) \/ Update(c, r) \/ GetPeers(c, r) \/ Host(c, r)
           \/ Send(c, r) \/ Exit(r) \/ Ignore(r)
        /\ ready' = IF r.cmd = "SEND" THEN Append(rest, Relay(fd)) ELSE rest
        /\ UNCHANGED <<client, request, backlog, fds, edge>>

\* Mutant of Refuse: event_routine ends without close().
RefuseOnly(fd, rest) == /\ ready' = rest
                        /\ UNCHANGED <<clientVars, kernelVars, exitFlag, dial, storeVars>>

\* The frame is refused: event_routine closes the descriptor and ends.
Refuse(fd, rest) == /\ CloseFd(fd)
                    /\ ready' = rest
                    /\ UNCHANGED <<clientVars, wire, backlog, exitFlag, dial, storeVars>>

\* What recv() gives of the body on fd, behind the `skip' units just taken.
Received(fd, skip) == Least(BodyLen, sock[fds[fd]].avail - skip)

\* convert_string_to_datastruct parses what was received when this is the
\* body of the frame from its start; else it returns NULL.
IsJson(fd, skip) == /\ Received(fd, skip) = BodyLen
                    /\ sock[fds[fd]].taken + skip = HeadLen
                    /\ request[fds[fd]].cmd # "NOT_JSON"

\* A field that is missing, or has another type, throws what nobody catches.
HasFields(fd) == request[fds[fd]].cmd # "NO_FIELD"

\* Mutant of RecvBody: what recv() gives of a request that is served stays in
\* the socket, as with MSG_PEEK.
RecvBodyPeeks(fd, skip, rest) ==
    LET c == fds[fd]
        n == Received(fd, skip)
    IN  \/ /\ IsJson(fd, skip) /\ HasFields(fd)
           /\ UNCHANGED sock
           /\ Dispatch(fd, request[c], rest)
        \/ /\ \/ n = BodyLen /\ ~IsJson(fd, skip)
              \/ n = 0 /\ sock[c].rst
           /\ Refuse(fd, rest)
        \/ /\ n < BodyLen /\ ~(n = 0 /\ sock[c].rst)
           /\ Consume(c, skip + n)
           /\ ready' = Append(rest, Body(fd))
           /\ UNCHANGED <<clientVars, wire, backlog, fds, edge, exitFlag, dial, storeVars>>

\* One turn of the loop of torchatproto_mrecv on fd, whose first `skip' units
\* were just taken as the header: recv() must return the whole body at once.
RecvBody(fd, skip, rest) ==
    LET c == fds[fd]
        n == Received(fd, skip)
    IN  \/ /\ IsJson(fd, skip) /\ HasFields(fd)
           /\ Consume(c, skip + n)
           /\ Dispatch(fd, request[c], rest)
        \/ /\ \/ n = BodyLen /\ ~IsJson(fd, skip)
              \/ n = 0 /\ sock[c].rst
           /\ Refuse(fd, rest)
        \/ /\ n < BodyLen /\ ~(n = 0 /\ sock[c].rst)
           /\ Consume(c, skip + n)
           /\ ready' = Append(rest, Body(fd))
           /\ UNCHANGED <<clientVars, wire, backlog, fds, edge, exitFlag, dial, storeVars>>

\* fd_recv_dimensionhead finds four digits: the header came whole, in one
\* piece, and nothing of the frame was read before.
GoodHead(c) == /\ sock[c].taken = 0 /\ sock[c].avail >= HeadLen
               /\ request[c].cmd # "NO_HEAD"

\* go(event_routine(fd)): the new coroutine runs at once, up to its end or
\* its first yield().  A descriptor that became a thread's socket is blocking:
\* recv() keeps the loop until Tor sends, closes or resets, and no header comes
\* of it.  The step is the moment at which recv() returns (see MayBlock).
ReadEvent(e) ==
    LET rest == Append(Tail(ready), Main)
    IN  /\ AtEvent(e) /\ e.kind = "in"
        /\ batch' = batch \ {e}
        /\ \/ fds[e.fd] \in Conns /\ GoodHead(fds[e.fd]) /\ RecvBody(e.fd, HeadLen, rest)
           \/ fds[e.fd] \in Conns /\ ~GoodHead(fds[e.fd]) /\ Refuse(e.fd, rest)
           \/ fds[e.fd] \notin Conns /\ Refuse(e.fd, rest)
        /\ UNCHANGED <<loop, nConn, trackFd>>

\* A coroutine that waits for the rest of a body runs again.  Its descriptor
\* may be closed by now, or a socket to Tor, where recv() blocks (see MayBlock)
\* and may give bytes as well.
ResumeBody ==
    LET fd == Head(ready).fd
    IN  /\ loop = "run" /\ Head(ready).at = "body"
        /\ \/ fds[fd] \in Conns /\ RecvBody(fd, 0, Tail(ready))
           \/ fds[fd] \notin Conns /\ Refuse(fd, Tail(ready))
           \/ /\ fds[fd] = "tor"
              /\ ready' = Append(Tail(ready), Head(ready))
              /\ UNCHANGED <<clientVars, kernelVars, exitFlag, dial, storeVars>>
        /\ UNCHANGED loopVars

\* The process ends, and the kernel closes what it had open.
Die(how) == /\ loop' = how
            /\ fds' = [fd \in Fds |-> "free"]
            /\ sock' = [c \in Conns |-> EmptySock]
            /\ ready' = <<>> /\ edge' = {} /\ backlog' = <<>>
            /\ dial' = [c \in Conns |-> NoDial]
            /\ UNCHANGED <<clientVars, wire, nConn, trackFd, exitFlag>>

\* A coroutine runs again after its deadline: the assertion fails.
DeadlineOver == /\ loop = "run" /\ Head(ready).at = "body"
                /\ Die("aborted")
                /\ batch' = {}
                /\ UNCHANGED storeVars

\* A coroutine has a body that is JSON without the fields of a request: the
\* exception leaves convert_string_to_datastruct, and std::terminate aborts.
FieldMissing ==
    /\ \/ \E e \in batch : /\ AtEvent(e) /\ e.kind = "in" /\ fds[e.fd] \in Conns
                          /\ GoodHead(fds[e.fd]) /\ IsJson(e.fd, HeadLen) /\ ~HasFields(e.fd)
       \/ LET fd == Head(ready).fd
          IN  /\ loop = "run" /\ Head(ready).at = "body"
              /\ fds[fd] \in Conns /\ IsJson(fd, 0) /\ ~HasFields(fd)
    /\ Die("threw")
    /\ batch' = {}
    /\ UNCHANGED storeVars

\* Mutant of ResumeRelay: the relay ends and closes its client's descriptor.
ResumeRelayCloses == /\ loop = "run" /\ Head(ready).at = "relay"
                     /\ CloseFd(Head(ready).fd)
                     /\ ready' = Tail(ready)
                     /\ UNCHANGED <<clientVars, wire, backlog, loopVars, exitFlag, dial, storeVars>>

\* send_over_tor looks at its own copy of the pointer, which the thread does
\* not change (see Relay), and yields again.
ResumeRelay == /\ loop = "run" /\ Head(ready).at = "relay"
               /\ ready' = Append(Tail(ready), Head(ready))
               /\ UNCHANGED <<clientVars, kernelVars, loopVars, exitFlag, dial, storeVars>>
-----------------------------------------------------------------------------
(* The end of the loop and of the process.                                 *)

\* The batch is done; `while (!exitFlag)' holds for another round.
NextRound == /\ loop = "run" /\ Head(ready) = Main /\ batch = {}
             /\ ~exitFlag
             /\ loop' = "wait"
             /\ UNCHANGED <<clientVars, kernelVars, batch, nConn, trackFd, routineVars, storeVars>>

\* Mutant of LeaveLoop: it waits for the coroutines to end.
LeaveLoopWhenIdle == /\ loop = "run" /\ ready = <<Main>> /\ batch = {}
                     /\ exitFlag
                     /\ loop' = "left"
                     /\ UNCHANGED <<clientVars, kernelVars, batch, nConn, trackFd, routineVars,
                                    storeVars>>

\* It does not: the loop closes trackFd[i], a truth value, for every i below
\* the count of connections.
LeaveLoop ==
    LET closed == {IF i \in trackFd THEN 1 ELSE 0 : i \in 0..(nConn - 1)}
    IN  /\ loop = "run" /\ Head(ready) = Main /\ batch = {}
        /\ exitFlag
        /\ loop' = "left"
        /\ nConn' = IF nConn > 0 THEN -1 ELSE nConn - 1
        /\ fds' = [fd \in Fds |-> IF fd \in closed THEN "free" ELSE fds[fd]]
        /\ UNCHANGED <<clientVars, wire, sock, backlog, edge, batch, trackFd, routineVars, storeVars>>

\* main closes the listening socket, clears the store, frees the configuration
\* of the proxy and exits.  A thread that is still dialling may read the freed
\* configuration; "stopped" is the end of the process in that case as well.
Shutdown == /\ loop = "left"
            /\ Die("stopped")
            /\ Store!ClearDatastructs
            /\ UNCHANGED batch

\* exit_from_signal
Interrupt == /\ Interrupts /\ Running /\ ~exitFlag
             /\ exitFlag' = TRUE
             /\ UNCHANGED <<clientVars, kernelVars, loopVars, ready, dial, storeVars>>
-----------------------------------------------------------------------------
(* The threads of send_over_tor: proxysocket_connect opens a socket in the *)
(* thread, and closes it when the connection cannot be made.  The daemon   *)
(* never sees the result, so a socket that is connected stays open.        *)

\* The name of the proxy is not found, or no descriptor is left.
DialOpens(c) ==
    /\ dial[c].at = "started"
    /\ \/ /\ dial' = [dial EXCEPT ![c].at = "over"]
          /\ UNCHANGED fds
       \/ /\ FreeFds # {}
          /\ dial' = [dial EXCEPT ![c] = [at |-> "dialling", fd |-> Lowest(FreeFds)]]
          /\ fds' = [fds EXCEPT ![Lowest(FreeFds)] = "tor"]
    /\ UNCHANGED <<clientVars, wire, sock, backlog, edge, loopVars, ready, exitFlag, storeVars>>

\* The thread ends with a connection, or closes its descriptor, whatever this
\* stands for by then.  The bytes it may write on or take from a connection
\* that took its descriptor are left out.
DialEnds(c) ==
    /\ dial[c].at = "dialling"
    /\ dial' = [dial EXCEPT ![c].at = "over"]
    /\ \/ fds[dial[c].fd] = "tor" /\ UNCHANGED <<fds, edge, sock>>
       \/ CloseFd(dial[c].fd)
    /\ UNCHANGED <<clientVars, wire, backlog, loopVars, ready, exitFlag, storeVars>>
-----------------------------------------------------------------------------
\* A step of the daemon's main thread.
DaemonStep == \/ Poll
              \/ \E e \in batch : ErrorEvent(e) \/ ListenEvent(e) \/ ReadEvent(e)
              \/ AcceptOne \/ AcceptFails
              \/ ResumeBody \/ DeadlineOver \/ FieldMissing \/ ResumeRelay
              \/ NextRound \/ LeaveLoop \/ Shutdown

ThreadStep == \E c \in Conns : DialOpens(c) \/ DialEnds(c)

ClientStep == \E c \in Conns : \/ Connect(c) \/ HangUp(c)
                               \/ \E r \in Requests : SendRequest(c, r)

Next == \/ DaemonStep
        \/ ThreadStep
        \/ ClientStep
        \/ \E c \in Conns : Deliver(c)
        \/ Interrupt

Spec == Init /\ [][Next]_vars

\* The next step of the daemon may be a recv() on a socket to Tor, which is in
\* blocking mode: nothing makes it return.
MayBlock == \/ \E e \in batch : AtEvent(e) /\ e.kind = "in" /\ fds[e.fd] = "tor"
            \/ loop = "run" /\ Head(ready).at = "body" /\ fds[Head(ready).fd] = "tor"

\* The process is scheduled and TCP delivers; clients may do nothing.
Fairness == /\ WF_vars(DaemonStep /\ ~MayBlock)
            /\ \A c \in Conns : WF_vars(Deliver(c))

FairSpec == Spec /\ Fairness
-----------------------------------------------------------------------------
(* Properties.                                                             *)

\* The RECV frames that brought text t of peer p, and how often they reached
\* the store.
TimesSent(p, t) ==
    Cardinality({c \in Conns : request[c].cmd = "RECV" /\ request[c].id = p /\ request[c].msg = t})
TimesArrived(p, t) == Cardinality({i \in 1..Len(arrived[p]) : arrived[p][i] = t})

\* A frame is served once at most, though its descriptor is reported again for
\* a second segment or the end of the stream, and the event that starts the
\* coroutine may have been raised for an earlier connection with this number: no
\* client gets a second answer, and no message is stored that was not sent, or
\* more often than it was sent.  (A body that recv() gave in two pieces is not
\* served at all, and this does not claim that it is.)
ServedOnce ==
    /\ \A c \in Conns : Len(replies[c]) <= 1
    /\ \A p \in Peers, t \in Texts : TimesArrived(p, t) <= TimesSent(p, t)

TimesHanded(p, t) == Cardinality({i \in 1..Len(handed[p]) : handed[p][i] = t})
TimesAnswered(p, t) ==
    Cardinality({c \in Conns : replies[c] = <<[cmd |-> "RECV", id |-> p, msg |-> t]>>})

\* A message that left the store went to one client, and never to two; only
\* a client that hung up can have lost it.
HandedOutOnce ==
    \A p \in Peers, t \in Texts :
        /\ TimesAnswered(p, t) <= TimesHanded(p, t)
        /\ (\A c \in Conns : client[c] # "closed") => TimesAnswered(p, t) = TimesHanded(p, t)

\* With edge-triggered events an event that is dropped is never repeated: a
\* connection with something to read is about to be reported, in the batch,
\* or read by a coroutine; one in the backlog is about to be accepted.
NoLostWakeup ==
    Running =>
      /\ \A fd \in Fds : fds[fd] \in Conns /\ sock[fds[fd]].avail > 0 =>
            \/ fds[fd] \in edge
            \/ \E e \in batch : e.fd = fd
            \/ \E i \in 1..Len(ready) : ready[i] = Body(fd)
      /\ backlog # <<>> /\ loop # "left" =>
            "listener" \in edge \/ Listener \in batch \/ loop = "accept"

\* The events of a batch name descriptors: none of them may have been closed
\* and given to another connection before the loop comes to its event.
EventsAreFresh == \A e \in batch \ {Listener} : fds[e.fd] = e.of

\* main.c:160, "invalid message, close connection": while the process runs, a
\* connection loses its descriptor only if its own frame was invalid or its
\* client is gone, whatever events and coroutines of other connections do.
ClosesOnlyInvalid ==
    [][\A fd \in Fds : Running' /\ fds[fd] \in Conns /\ fds'[fd] # fds[fd] =>
          client[fds[fd]] = "closed" \/ request[fds[fd]].cmd \in {"NOT_JSON", "NO_HEAD"}]_vars

\* A coroutine that waits for a body on fd is running, or the thread of a SEND
\* works on fd: the two that may close a number without an event for it.
Waiting(fd) == Head(ready) = Body(fd)
Dialling(fd) == \E d \in Conns : dial[d].at = "dialling" /\ dial[d].fd = fd

\* main.c:199: the events of a batch name descriptors.  However frames are cut,
\* the number of an event that is not handled yet changes hands by one of two
\* steps only: a coroutine that waits for the rest of a body on this number
\* closes it, or the thread that dials on it does.  No other event, accept(),
\* relay or request makes an event stale.
StaleByBodyOnly ==
    [][\A e \in batch \ {Listener} :
          fds[e.fd] = e.of /\ e \in batch' /\ fds'[e.fd] # e.of => Waiting(e.fd) \/ Dialling(e.fd)]_vars

\* main.c:204 and 161 close by number.  A connection whose whole valid request
\* is there to be read, and whose client waits, is closed unread by nothing but
\* a coroutine left over on its number, a thread that dials on it, or an event
\* of this batch raised for an earlier connection of this number.
WholeRequest(c) ==
    /\ client[c] = "open" /\ request[c].cmd \notin {"NOT_JSON", "NO_HEAD"}
    /\ sock[c].taken = 0 /\ sock[c].avail = HeadLen + BodyLen
SparesUnread ==
    [][\A fd \in Fds :
          Running' /\ fds[fd] \in Conns /\ WholeRequest(fds[fd]) /\ fds'[fd] # fds[fd] =>
             \/ Waiting(fd) \/ Dialling(fd)
             \/ \E e \in batch : e.fd = fd /\ e.of # fds[fd]]_vars

\* The daemon keeps the promise of the mail box, however its coroutines
\* interleave: the i-th message of a peer that leaves the store for a client is
\* the i-th that a RECV of this peer brought.
KeepsMail == Store!ImplementsMailBox

\* Every request that has an answer gets it while its client waits and the
\* daemon is not told to stop.
Answered ==
    \A c \in Conns : request[c].cmd \in {"UPDATE", "GET_PEERS", "HOST"} ~>
                       (replies[c] # <<>> \/ client[c] = "closed" \/ exitFlag)

\* Once told to stop, by EXIT or by SIGINT, the daemon stops: coroutines that
\* spin do not keep the loop from its end.
Stops == exitFlag ~> ~Running

\* A connection whose client hung up gives its descriptor back, when nothing
\* was asked, the frame was refused, or there is an answer, which the closed
\* client resets.
Released ==
    \A c \in Conns :
        client[c] = "closed" /\ request[c].cmd \notin {"RECV", "SEND", "EXIT", "END", "ERR"}
            ~> ~(Accepted(c) \/ Queued(c))
-----------------------------------------------------------------------------
(* What comments and the README say of the daemon, and the code does not   *)
(* do.  Each of these is refuted by a run.                                 *)

\* torchatproto.c:304, "should not happen": no coroutine finds its deadline
\* over in the loop that waits for the body.
DeadlineNeverPasses == loop # "aborted"

\* README.md:184, "polling for unread messages from a peer ("id" field)": the
\* answer to an UPDATE is about the peer that its id names.
AnswersId == \A c \in Conns : request[c].cmd = "UPDATE" /\ replies[c] # <<>> =>
                               replies[c][1].id = request[c].id

\* main.c:253, "fd is closed in event_routine": the connection of a client
\* that hung up does not stay open, whatever was asked on it.
ClosedInRoutine == \A c \in Conns : client[c] = "closed" ~> ~(Accepted(c) \/ Queued(c))

\* main.c:214, "accept all connections": a connection does not stay in the
\* backlog while a descriptor is free.
AcceptsAll == \A c \in Conns : []<>~(Queued(c) /\ FreeFds # {} /\ ~exitFlag)
=============================================================================
