-------------------------------- MODULE Relay --------------------------------
(***************************************************************************)
(* A message of the client on its way to another daemon: send_over_tor of  *)
(* socks_helper.c up to the point the program reaches.  The coroutine      *)
(* allocates a struct domainData, starts a thread that dials the peer      *)
(* through Tor, and waits for its pointer to that struct to become NULL.   *)
(* The thread has a pointer of its own, `domainData' of                    *)
(* open_socket_to_domain_thread: it frees the struct and clears that one.  *)
(*                                                                         *)
(* The threads run beside the coroutines, between any two system calls,    *)
(* and share the descriptor table.                                         *)
(***************************************************************************)
EXTENDS Integers, FiniteSets

CONSTANTS Relays,         \* the SEND requests in service
          MaxFd           \* descriptors 1..MaxFd can be opened

Fds == 1..MaxFd
NoFd == -1

VARIABLES routine,   \* the coroutine of a request: it waits in its loop, or left it
          pointer,   \* domainData of send_over_tor: "set" or "NULL"
          own,       \* domainData of the thread: "set" or "NULL"
          thread,    \* the thread
          sockOf,    \* the descriptor the thread works with and returns
          fds        \* fds[fd]: the relay whose connection fd is, or "free"

vars == <<routine, pointer, own, thread, sockOf, fds>>

TypeOK ==
    /\ routine \in [Relays -> {"idle", "waiting", "left"}]
    /\ pointer \in [Relays -> {"set", "NULL"}]
    /\ own \in [Relays -> {"set", "NULL"}]
    /\ thread \in [Relays -> {"none", "started", "dialling", "dialled", "exited"}]
    /\ sockOf \in [Relays -> Fds \cup {NoFd}]
    /\ fds \in [Fds -> Relays \cup {"free"}]

Init == /\ routine = [r \in Relays |-> "idle"]
        /\ pointer = [r \in Relays |-> "NULL"]
        /\ own = [r \in Relays |-> "NULL"]
        /\ thread = [r \in Relays |-> "none"]
        /\ sockOf = [r \in Relays |-> NoFd]
        /\ fds = [fd \in Fds |-> "free"]

Lowest(S) == CHOOSE n \in S : \A m \in S : n <= m
FreeFds == {fd \in Fds : fds[fd] = "free"}
-----------------------------------------------------------------------------
(* The coroutine.                                                          *)

\* send_over_tor: malloc, and pthread_create, which hands the pointer over.
Start(r) == /\ routine[r] = "idle"
            /\ routine' = [routine EXCEPT ![r] = "waiting"]
            /\ pointer' = [pointer EXCEPT ![r] = "set"]
            /\ own' = [own EXCEPT ![r] = "set"]
            /\ thread' = [thread EXCEPT ![r] = "started"]
            /\ UNCHANGED <<sockOf, fds>>

\* A turn of the loop: it is left when the pointer is NULL, or yields.
Turn(r) == /\ routine[r] = "waiting"
           /\ routine' = [routine EXCEPT ![r] = IF pointer[r] = "NULL" THEN "left" ELSE @]
           /\ UNCHANGED <<pointer, own, thread, sockOf, fds>>
-----------------------------------------------------------------------------
(* The thread: open_socket_to_domain_thread.                               *)

\* The name of the proxy is not found, or no descriptor is left; or socket()
\* opens one.
DialOpens(r) ==
    /\ thread[r] = "started"
    /\ \/ /\ thread' = [thread EXCEPT ![r] = "dialled"]
          /\ UNCHANGED <<sockOf, fds>>
       \/ /\ FreeFds # {}
          /\ thread' = [thread EXCEPT ![r] = "dialling"]
          /\ sockOf' = [sockOf EXCEPT ![r] = Lowest(FreeFds)]
          /\ fds' = [fds EXCEPT ![Lowest(FreeFds)] = r]
    /\ UNCHANGED <<routine, pointer, own>>

DialSucceeds(r) == /\ thread[r] = "dialling"
                   /\ thread' = [thread EXCEPT ![r] = "dialled"]
                   /\ UNCHANGED <<routine, pointer, own, sockOf, fds>>

\* Tor refuses, or goes away: proxysocket closes the descriptor and returns -1.
DialFails(r) == /\ thread[r] = "dialling"
                /\ thread' = [thread EXCEPT ![r] = "dialled"]
                /\ fds' = [fds EXCEPT ![sockOf[r]] = "free"]
                /\ sockOf' = [sockOf EXCEPT ![r] = NoFd]
                /\ UNCHANGED <<routine, pointer, own>>

\* FREE(domainData); domainData = NULL; pthread_exit.
ThreadExit(r) == /\ thread[r] = "dialled"
                 /\ thread' = [thread EXCEPT ![r] = "exited"]
                 /\ own' = [own EXCEPT ![r] = "NULL"]
                 /\ UNCHANGED <<routine, pointer, sockOf, fds>>
-----------------------------------------------------------------------------
ThreadStep(r) == DialOpens(r) \/ DialSucceeds(r) \/ DialFails(r) \/ ThreadExit(r)

Next == \E r \in Relays : Start(r) \/ Turn(r) \/ ThreadStep(r)

Spec == Init /\ [][Next]_vars

\* Coroutines and threads are scheduled, and Tor answers or goes away.
Fairness == \A r \in Relays : WF_vars(Turn(r)) /\ WF_vars(ThreadStep(r))

FairSpec == Spec /\ Fairness
-----------------------------------------------------------------------------
\* socks_helper.c:177, "if the variable has been freed the thread exited":
\* a coroutine whose thread has exited leaves its loop.
Leaves == \A r \in Relays : thread[r] = "exited" ~> routine[r] = "left"

\* As built, a coroutine that waits for its thread waits for ever: it never
\* joins the thread, sends nothing and answers nothing.
NeverLeaves == \A r \in Relays : routine[r] # "left"
=============================================================================
