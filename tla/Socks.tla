-------------------------------- MODULE Socks --------------------------------
(***************************************************************************)
(* proxysocket_connect in the threads of send_over_tor: a SOCKS5 handshake *)
(* with the Tor proxy at localhost, which offers no authentication and     *)
(* leaves name resolution to the proxy.  Several threads dial at a time    *)
(* and share the table of descriptors.                                     *)
(*                                                                         *)
(* recv() gives what arrived, up to what was asked; then -1, once, when    *)
(* the proxy reset the connection; then 0, as when it closed it.  The code *)
(* compares the result with a sizeof, which makes -1 a huge number: a      *)
(* result that is too small is seen, a failure is not, and what was read   *)
(* before, or nothing, stays in the buffer.  A send() on a connection      *)
(* whose reset was reported raises SIGPIPE, for which the daemon has no    *)
(* handler.                                                                *)
(***************************************************************************)
EXTENDS Integers, Sequences

CONSTANTS Dials,     \* the threads
          MaxFd,     \* descriptors 1..MaxFd can be opened
          Bytes      \* the values of a byte that the code and the proxy use

SOCKS5_VERSION == 5
SOCKS5_METHOD_NOAUTH == 0
SOCKS5_METHOD_LOGIN == 2
SOCKS5_STATUS_SUCCESS == 0

ASSUME SocksAssumption ==
    /\ MaxFd \in Nat
    /\ Bytes \subseteq 0..255 /\ 0..5 \cup {255} \subseteq Bytes
    /\ "free" \notin Dials

Fds == 1..MaxFd
NoFd == -1
Pairs == Bytes \X Bytes
Cut == <<-1, -1>>   \* a part of what the next recv() asks for
Opaque == <<0, 0>>  \* an address, a name or a port

VARIABLES at,       \* where the thread is; "over" when proxysocket_connect returned
          sockOf,   \* its sock
          fds,      \* fds[fd]: the dial whose socket fd is, or "free"
          conn,     \* the connection to the proxy
          stream,   \* what the proxy sent and the thread did not read
          asked,    \* what the thread sent and the proxy did not answer
          initrecv, \* the two bytes of that name
          granted,  \* history: the proxy said SUCCESS
          alive     \* SIGPIPE did not end the process

vars == <<at, sockOf, fds, conn, stream, asked, initrecv, granted, alive>>

\* A socket is open in these places, connected to the proxy in all but one.
Connected == {"greet", "method", "login", "grant", "request", "status", "atyp", "address",
              "length", "name", "empty", "port"}
Dialling == Connected \cup {"connect"}

TypeOK == /\ at \in [Dials -> Dialling \cup {"idle", "lookup", "socket", "over", "exited"}]
          /\ sockOf \in [Dials -> Fds \cup {NoFd}]
          /\ fds \in [Fds -> Dials \cup {"free"}]
          /\ conn \in [Dials -> {"none", "open", "closed", "reset", "broken"}]
          /\ stream \in [Dials -> Seq(Pairs \cup {Cut})]
          /\ asked \in [Dials -> {"nothing", "method", "grant", "connect"}]
          /\ initrecv \in [Dials -> Pairs]
          /\ granted \in [Dials -> BOOLEAN]
          /\ alive \in BOOLEAN

Init == /\ at = [d \in Dials |-> "idle"]
        /\ sockOf = [d \in Dials |-> NoFd]
        /\ fds = [fd \in Fds |-> "free"]
        /\ conn = [d \in Dials |-> "none"]
        /\ stream = [d \in Dials |-> <<>>]
        /\ asked = [d \in Dials |-> "nothing"]
        /\ initrecv = [d \in Dials |-> Opaque]
        /\ granted = [d \in Dials |-> FALSE]
        /\ alive = TRUE

FreeFds == {fd \in Fds : fds[fd] = "free"}
Lowest(S) == CHOOSE n \in S : \A m \in S : n <= m
-----------------------------------------------------------------------------
(* The ways a step of the thread ends.                                     *)

Goes(d, place) == /\ at' = [at EXCEPT ![d] = place]
                  /\ UNCHANGED <<sockOf, fds>>

\* Mutants of Aborts: the socket stays open; it is closed and returned.
AbortsOpen(d) == /\ at' = [at EXCEPT ![d] = "over"]
                 /\ sockOf' = [sockOf EXCEPT ![d] = NoFd]
                 /\ UNCHANGED fds
AbortsWithSock(d) == /\ at' = [at EXCEPT ![d] = "over"]
                     /\ fds' = [fds EXCEPT ![sockOf[d]] = "free"]
                     /\ UNCHANGED sockOf
AbortsErrno(d) == /\ at' = [at EXCEPT ![d] = "over"]
                  /\ fds' = [fds EXCEPT ![sockOf[d]] = "free"]
                  /\ sockOf' = [sockOf EXCEPT ![d] = -111]

\* ERROR_DISCONNECT_AND_ABORT with a socket.
Aborts(d) == /\ at' = [at EXCEPT ![d] = "over"]
             /\ fds' = [fds EXCEPT ![sockOf[d]] = "free"]
             /\ sockOf' = [sockOf EXCEPT ![d] = NoFd]

\* send(): what was asked is under way, whether or not the proxy still reads.
Sent(d, question) == /\ conn[d] \in {"open", "closed"}
                     /\ asked' = [asked EXCEPT ![d] = question]
                     /\ UNCHANGED <<conn, alive>>
\* send() or recv() returns -1: the reset is reported, this time only.
Fails(d) == /\ conn[d] = "reset"
            /\ conn' = [conn EXCEPT ![d] = "broken"]
\* send() on a connection whose reset was reported: the process is killed.
Killed(d) == /\ conn[d] = "broken"
             /\ alive' = FALSE
             /\ UNCHANGED <<at, sockOf, fds, conn, asked>>

\* recv() returns all it was asked for,
Reads(d) == /\ stream[d] # <<>> /\ Head(stream[d]) # Cut
            /\ stream' = [stream EXCEPT ![d] = Tail(@)]
            /\ UNCHANGED conn
\* fewer bytes, or 0 at the end of the connection,
FallsShort(d) == /\ \/ stream[d] # <<>> /\ Head(stream[d]) = Cut
                    \/ stream[d] = <<>> /\ conn[d] \in {"closed", "broken"}
                 /\ UNCHANGED <<stream, conn>>
\* or -1, which a comparison with a sizeof does not show.
FailsUnseen(d) == /\ stream[d] = <<>> /\ Fails(d)
                  /\ UNCHANGED stream

\* recv() into initrecv succeeds, or seems to: then the bytes are what they
\* were, and anything when nothing was read into them before.
ReadsPair(d) ==
    \/ /\ Reads(d)
       /\ initrecv' = [initrecv EXCEPT ![d] = Head(stream[d])]
    \/ /\ FailsUnseen(d)
       /\ IF at[d] = "method"
          THEN \E garbage \in Pairs : initrecv' = [initrecv EXCEPT ![d] = garbage]
          ELSE UNCHANGED initrecv

\* Mutant of LosesConnection: what is missing is waited for.
LosesConnectionAtEnd(d) == /\ FallsShort(d) /\ stream[d] = <<>>
                           /\ Aborts(d)
                           /\ UNCHANGED initrecv

\* "Connection lost while reading ..."
LosesConnection(d) == /\ FallsShort(d)
                      /\ Aborts(d)
                      /\ UNCHANGED initrecv
-----------------------------------------------------------------------------
(* The thread.                                                             *)

Start(d) == /\ alive /\ at[d] = "idle"
            /\ Goes(d, "lookup")
            /\ UNCHANGED <<conn, stream, asked, initrecv, granted, alive>>

\* The name of the proxy is looked up: for the SOCKS5 entry of the list, and
\* as the destination of the direct entry behind it.
Lookup(d) == /\ at[d] = "lookup"
             /\ Goes(d, "socket") \/ Goes(d, "over")
             /\ UNCHANGED <<conn, stream, asked, initrecv, granted, alive>>

\* The rest of the process may have all descriptors, and socket() fails.
Socket(d) ==
    /\ at[d] = "socket"
    /\ \/ Goes(d, "over")
       \/ /\ FreeFds # {}
          /\ at' = [at EXCEPT ![d] = "connect"]
          /\ sockOf' = [sockOf EXCEPT ![d] = Lowest(FreeFds)]
          /\ fds' = [fds EXCEPT ![Lowest(FreeFds)] = d]
    /\ UNCHANGED <<conn, stream, asked, initrecv, granted, alive>>

Connect(d) == /\ at[d] = "connect"
              /\ \/ Goes(d, "greet") /\ conn' = [conn EXCEPT ![d] = "open"]
                 \/ Aborts(d) /\ UNCHANGED conn
              /\ UNCHANGED <<stream, asked, initrecv, granted, alive>>

\* The greeting, and the login, when send() fails the thread goes on.
SendGreeting(d) == /\ at[d] = "greet"
                   /\ Goes(d, "method")
                   /\ \/ Sent(d, "method")
                      \/ Fails(d) /\ UNCHANGED <<asked, alive>>
                   /\ UNCHANGED <<stream, initrecv, granted>>

RecvMethod(d) ==
    /\ at[d] = "method"
    /\ \/ LosesConnection(d)
       \/ /\ ReadsPair(d)
          /\ LET method == initrecv'[d][2]
             IN  \/ method = SOCKS5_METHOD_NOAUTH /\ Goes(d, "request")
                 \/ method = SOCKS5_METHOD_LOGIN /\ Goes(d, "login")
                 \/ method \notin {SOCKS5_METHOD_NOAUTH, SOCKS5_METHOD_LOGIN} /\ Aborts(d)
    /\ UNCHANGED <<asked, granted, alive>>

SendLogin(d) == /\ at[d] = "login"
                /\ \/ Killed(d)
                   \/ Goes(d, "grant") /\ Sent(d, "grant")
                   \/ Goes(d, "grant") /\ Fails(d) /\ UNCHANGED <<asked, alive>>
                /\ UNCHANGED <<stream, initrecv, granted>>

\* Mutant of RecvGrant: only status 5 is a refusal, and no version is asked for.
RecvGrantUnlessRefused(d) ==
    /\ at[d] = "grant"
    /\ \/ LosesConnection(d)
       \/ /\ ReadsPair(d)
          /\ \/ initrecv'[d][2] # 5 /\ Goes(d, "request")
             \/ initrecv'[d][2] = 5 /\ Aborts(d)
    /\ UNCHANGED <<asked, granted, alive>>

RecvGrant(d) == /\ at[d] = "grant"
                /\ \/ LosesConnection(d)
                   \/ /\ ReadsPair(d)
                      /\ \/ initrecv'[d] = <<1, 0>> /\ Goes(d, "request")
                         \/ initrecv'[d] # <<1, 0>> /\ Aborts(d)
                /\ UNCHANGED <<asked, granted, alive>>

\* The connect command: its length is an int, so that -1 is seen.
SendRequest(d) == /\ at[d] = "request"
                  /\ \/ Killed(d)
                     \/ Goes(d, "status") /\ Sent(d, "connect")
                     \/ Aborts(d) /\ Fails(d) /\ UNCHANGED <<asked, alive>>
                  /\ UNCHANGED <<stream, initrecv, granted>>

\* Mutant of RecvStatus: an unknown status does not abort.
RecvStatusKnown(d) ==
    /\ at[d] = "status"
    /\ \/ LosesConnection(d)
       \/ /\ ReadsPair(d)
          /\ \/ initrecv'[d][1] = SOCKS5_VERSION /\ initrecv'[d][2] \notin 1..3 /\ Goes(d, "atyp")
             \/ (initrecv'[d][1] # SOCKS5_VERSION \/ initrecv'[d][2] \in 1..3) /\ Aborts(d)
    /\ UNCHANGED <<asked, granted, alive>>

RecvStatus(d) ==
    LET success == <<SOCKS5_VERSION, SOCKS5_STATUS_SUCCESS>>
    IN  /\ at[d] = "status"
        /\ \/ LosesConnection(d)
           \/ /\ ReadsPair(d)
              /\ \/ initrecv'[d] = success /\ Goes(d, "atyp")
                 \/ initrecv'[d] # success /\ Aborts(d)
        /\ UNCHANGED <<asked, granted, alive>>

RecvAddressType(d) ==
    /\ at[d] = "atyp"
    /\ \/ LosesConnection(d)
       \/ /\ ReadsPair(d)
          /\ LET atyp == initrecv'[d][2]
             IN  \/ atyp \in {1, 4} /\ Goes(d, "address")
                 \/ atyp = 3 /\ Goes(d, "length")
                 \/ atyp \notin {1, 3, 4} /\ Aborts(d)
    /\ UNCHANGED <<asked, granted, alive>>

RecvAddress(d) == /\ at[d] = "address"
                  /\ \/ LosesConnection(d)
                     \/ (Reads(d) \/ FailsUnseen(d)) /\ Goes(d, "port")
                  /\ UNCHANGED <<asked, initrecv, granted, alive>>

\* The length of a name, anything when recv() failed.
RecvLength(d) ==
    /\ at[d] = "length"
    /\ \/ LosesConnection(d)
       \/ Reads(d) /\ Goes(d, IF Head(stream[d])[2] = 0 THEN "empty" ELSE "name")
       \/ FailsUnseen(d) /\ (Goes(d, "empty") \/ Goes(d, "name"))
    /\ UNCHANGED <<asked, initrecv, granted, alive>>

\* The length is promoted to int, so that -1 is seen.
RecvName(d) == /\ at[d] = "name"
               /\ \/ LosesConnection(d)
                  \/ Reads(d) /\ Goes(d, "port")
                  \/ FailsUnseen(d) /\ Aborts(d)
               /\ UNCHANGED <<asked, initrecv, granted, alive>>

\* recv() of an empty name waits for a byte or the end and returns 0, or -1.
RecvEmptyName(d) == /\ at[d] = "empty"
                    /\ \/ /\ stream[d] # <<>> \/ conn[d] \in {"closed", "broken"}
                          /\ Goes(d, "port")
                          /\ UNCHANGED <<stream, conn>>
                       \/ FailsUnseen(d) /\ Aborts(d)
                    /\ UNCHANGED <<asked, initrecv, granted, alive>>

\* The last recv() of the handshake: sock is returned.
RecvPort(d) == /\ at[d] = "port"
               /\ \/ LosesConnection(d)
                  \/ (Reads(d) \/ FailsUnseen(d)) /\ Goes(d, "over")
               /\ UNCHANGED <<asked, initrecv, granted, alive>>

\* open_socket_to_domain_thread: pthread_exit with the socket.
ThreadExit(d) == /\ at[d] = "over"
                 /\ Goes(d, "exited")
                 /\ UNCHANGED <<conn, stream, asked, initrecv, granted, alive>>
-----------------------------------------------------------------------------
(* The proxy.                                                              *)

\* What a proxy may answer: a method; whether the login is granted; a status
\* and the address it bound, which a refusal carries as well.
Replies(question) ==
    CASE question = "method"  -> {<<p>> : p \in {<<5, 0>>, <<5, 2>>, <<5, 255>>, <<4, 0>>}}
      [] question = "grant"   -> {<<p>> : p \in {<<1, 0>>, <<1, 5>>, <<1, 1>>, <<5, 0>>}}
      [] question = "connect" ->
           {<<p, <<0, 1>>, Opaque, Opaque>> : p \in {<<5, 1>>, <<5, 5>>, <<4, 0>>}}
           \cup {<<<<5, 0>>, <<0, atyp>>, Opaque, Opaque>> : atyp \in {1, 2, 4}}
           \cup {<<<<5, 0>>, <<0, 3>>, <<0, 1>>, Opaque, Opaque>>,
                 <<<<5, 0>>, <<0, 3>>, <<0, 0>>, Opaque>>}

\* The proxy answers; TCP may cut the answer in the midst of what one recv()
\* asks for.
Answer(d) ==
    /\ at[d] \in Connected /\ conn[d] = "open" /\ asked[d] # "nothing"
    /\ \E reply \in Replies(asked[d]) : \E whole \in 0..Len(reply) :
         /\ stream' = [stream EXCEPT ![d] = @ \o IF whole = Len(reply) THEN reply
                                                 ELSE Append(SubSeq(reply, 1, whole), Cut)]
         /\ granted' = [granted EXCEPT
               ![d] = @ \/ (asked[d] = "connect" /\ reply[1] = <<5, 0>> /\ whole > 0)]
    /\ asked' = [asked EXCEPT ![d] = "nothing"]
    /\ UNCHANGED <<at, sockOf, fds, conn, initrecv, alive>>

\* The proxy closes the connection, or dies and it is reset.
Drop(d) == /\ at[d] \in Connected /\ conn[d] = "open"
           /\ \E how \in {"closed", "reset"} : conn' = [conn EXCEPT ![d] = how]
           /\ UNCHANGED <<at, sockOf, fds, stream, asked, initrecv, granted, alive>>
-----------------------------------------------------------------------------
ThreadStep(d) == \/ Lookup(d) \/ Socket(d) \/ Connect(d)
                 \/ SendGreeting(d) \/ RecvMethod(d) \/ SendLogin(d) \/ RecvGrant(d)
                 \/ SendRequest(d) \/ RecvStatus(d) \/ RecvAddressType(d)
                 \/ RecvAddress(d) \/ RecvLength(d) \/ RecvName(d)
                 \/ RecvEmptyName(d) \/ RecvPort(d) \/ ThreadExit(d)

ProxyStep(d) == Answer(d) \/ Drop(d)

Next == /\ alive
        /\ \E d \in Dials : Start(d) \/ ThreadStep(d) \/ ProxyStep(d)

Spec == Init /\ [][Next]_vars

\* The threads are scheduled, and a proxy answers or goes away.
Fairness == \A d \in Dials : WF_vars(alive /\ ThreadStep(d)) /\ WF_vars(alive /\ ProxyStep(d))

FairSpec == Spec /\ Fairness
-----------------------------------------------------------------------------
(* Properties.                                                             *)

\* A connection is returned only when the proxy said SUCCESS to this thread:
\* a reset that recv() reports and nobody sees lets the thread go on with
\* stale bytes, but the next recv() gives 0 and is seen.
OnlyAfterSuccess ==
    \A d \in Dials : at[d] \in {"over", "exited"} /\ sockOf[d] # NoFd => granted[d]

\* A descriptor is open exactly for the thread that works with it or returned
\* it: no way out of the handshake forgets to close it or closes another's.
OwnSocket ==
    /\ \A d \in Dials : /\ at[d] \in Dialling => sockOf[d] # NoFd
                        /\ sockOf[d] # NoFd => fds[sockOf[d]] = d
    /\ \A fd \in Fds : fds[fd] # "free" => sockOf[fds[fd]] = fd

\* SIGPIPE ends the daemon only when the proxy resets a connection before it
\* chose a method: the reset goes unseen, the method is what the stack held,
\* and the thread sends once more.  Wherever else the proxy dies, the daemon
\* lives.
KilledByMethodOnly ==
    ~alive => \E d \in Dials : /\ conn[d] = "broken" /\ at[d] \in {"login", "request"}
                               /\ asked[d] = "method"

\* Every dial comes to its end, unless the daemon is killed.
Returns == \A d \in Dials : at[d] = "lookup" ~> at[d] = "exited" \/ ~alive

\* The handshake is what Relay takes for one step of dialling.
Tor == INSTANCE Relay WITH
    Relays <- Dials,
    routine <- [d \in Dials |-> IF at[d] = "idle" THEN "idle" ELSE "waiting"],
    pointer <- [d \in Dials |-> IF at[d] = "idle" THEN "NULL" ELSE "set"],
    own <- [d \in Dials |-> IF at[d] \in {"idle", "exited"} THEN "NULL" ELSE "set"],
    thread <- [d \in Dials |-> CASE at[d] = "idle" -> "none"
                                 [] at[d] \in {"lookup", "socket"} -> "started"
                                 [] at[d] \in Dialling -> "dialling"
                                 [] at[d] = "over" -> "dialled"
                                 [] at[d] = "exited" -> "exited"]
ImplementsRelay == Tor!Spec
=============================================================================
