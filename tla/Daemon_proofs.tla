---------------------------- MODULE Daemon_proofs ----------------------------
(***************************************************************************)
(* The daemon uses the message store by its operations only, so that what  *)
(* is proved of the store holds of the daemon: for any peers, texts,       *)
(* connections, requests, cuts of frames and descriptors.                  *)
(*                                                                         *)
(* The invariant this needs is small: what is read from a connection is a  *)
(* request, so that its fields name a peer and a text of the store.        *)
(***************************************************************************)
EXTENDS Daemon, TLAPS

StoreProofs == INSTANCE MessageStore_proofs

RequestInv == request \in [Conns -> Requests \cup {NoRequest}]

LEMMA InitIsStoreInit == Init => Store!Init /\ RequestInv
  BY DEF Init, RequestInv

\* The commands reach the store through store_msg and get_unread_message, or
\* leave it alone.
LEMMA DispatchUsesStore ==
  ASSUME NEW fd, NEW r \in Requests \cup {NoRequest}, NEW rest, Dispatch(fd, r, rest)
  PROVE  Store!Next \/ UNCHANGED storeVars
<1>1. ASSUME r \in Requests, StoreIt(r)
      PROVE  Store!Next
  BY <1>1, RequestsAssumption DEF StoreIt, Store!Next
<1>2. ASSUME r \in Requests, Update(fds[fd], r)
      PROVE  Store!Next \/ UNCHANGED storeVars
  BY <1>2, RequestsAssumption DEF Update, Store!Next
<1>3. CASE \/ GetPeers(fds[fd], r) \/ Host(fds[fd], r) \/ Send(fds[fd], r) \/ Exit(r) \/ Ignore(r)
  BY <1>3 DEF GetPeers, Host, Send, Exit, Ignore
<1>4. ASSUME r = NoRequest
      PROVE  ~StoreIt(r) /\ ~Update(fds[fd], r)
  BY <1>4 DEF NoRequest, StoreIt, Update
<1> QED BY <1>1, <1>2, <1>3, <1>4 DEF Dispatch

\* So does a turn of the loop that reads the body of a frame.
LEMMA RecvBodyUsesStore ==
  ASSUME RequestInv, NEW fd, fds[fd] \in Conns, NEW skip, NEW rest, RecvBody(fd, skip, rest)
  PROVE  Store!Next \/ UNCHANGED storeVars
<1>1. CASE Refuse(fd, rest)
  BY <1>1 DEF Refuse
<1>2. CASE Dispatch(fd, request[fds[fd]], rest)
  <2>1. request[fds[fd]] \in Requests \cup {NoRequest}
    BY DEF RequestInv
  <2> QED BY <1>2, <2>1, DispatchUsesStore
<1>3. CASE UNCHANGED storeVars
  BY <1>3
<1> QED BY <1>1, <1>2, <1>3 DEF RecvBody

\* Every step of the main thread uses the store by its operations.
LEMMA DaemonStepUsesStore ==
  ASSUME RequestInv, DaemonStep
  PROVE  Store!Next \/ UNCHANGED storeVars
<1>1. ASSUME NEW e \in batch, ReadEvent(e)
      PROVE  Store!Next \/ UNCHANGED storeVars
  <2> DEFINE rest == Append(Tail(ready), Main)
  <2>1. CASE fds[e.fd] \in Conns /\ RecvBody(e.fd, HeadLen, rest)
    BY <2>1, RecvBodyUsesStore
  <2>2. CASE Refuse(e.fd, rest)
    BY <2>2 DEF Refuse
  <2> QED BY <1>1, <2>1, <2>2 DEF ReadEvent
<1>2. ASSUME ResumeBody
      PROVE  Store!Next \/ UNCHANGED storeVars
  <2> DEFINE fd == Head(ready).fd
  <2>1. CASE fds[fd] \in Conns /\ RecvBody(fd, 0, Tail(ready))
    BY <2>1, RecvBodyUsesStore
  <2>2. CASE Refuse(fd, Tail(ready))
    BY <2>2 DEF Refuse
  <2>3. CASE UNCHANGED <<clientVars, kernelVars, exitFlag, dial, storeVars>>
    BY <2>3
  <2> QED BY <1>2, <2>1, <2>2, <2>3 DEF ResumeBody
<1>3. ASSUME Shutdown PROVE Store!Next
  BY <1>3 DEF Shutdown, Store!Next
<1>4. ASSUME NEW e \in batch, ErrorEvent(e) \/ ListenEvent(e)
      PROVE  UNCHANGED storeVars
  BY <1>4 DEF ErrorEvent, ListenEvent
<1>5. ASSUME \/ Poll \/ AcceptOne \/ AcceptFails \/ DeadlineOver \/ FieldMissing
             \/ ResumeRelay \/ NextRound \/ LeaveLoop
      PROVE  UNCHANGED storeVars
  BY <1>5 DEF Poll, AcceptOne, AcceptFails, DeadlineOver, FieldMissing, ResumeRelay, NextRound,
              LeaveLoop
<1> QED BY <1>1, <1>2, <1>3, <1>4, <1>5 DEF DaemonStep

\* Clients, the network, the threads and the signal do not touch the store.
LEMMA OthersLeaveStore ==
  ASSUME ThreadStep \/ ClientStep \/ (\E c \in Conns : Deliver(c)) \/ Interrupt
  PROVE  UNCHANGED storeVars
<1>1. CASE ThreadStep
  BY <1>1 DEF ThreadStep, DialOpens, DialEnds
<1>2. CASE ClientStep
  BY <1>2 DEF ClientStep, Connect, HangUp, SendRequest
<1>3. CASE \E c \in Conns : Deliver(c)
  BY <1>3 DEF Deliver
<1>4. CASE Interrupt
  BY <1>4 DEF Interrupt
<1> QED BY <1>1, <1>2, <1>3, <1>4

LEMMA NextUsesStore ==
  ASSUME RequestInv, [Next]_vars
  PROVE  [Store!Next]_(Store!vars)
<1>1. CASE DaemonStep
  BY <1>1, DaemonStepUsesStore DEF storeVars, Store!vars
<1>2. CASE ThreadStep \/ ClientStep \/ (\E c \in Conns : Deliver(c)) \/ Interrupt
  BY <1>2, OthersLeaveStore DEF storeVars, Store!vars
<1>3. CASE UNCHANGED vars
  BY <1>3 DEF vars, storeVars, Store!vars
<1> QED BY <1>1, <1>2, <1>3 DEF Next
-----------------------------------------------------------------------------
\* The switch changes replies and the queue of coroutines, not the requests.
LEMMA RecvBodyKeepsRequests ==
  ASSUME NEW fd, NEW skip, NEW rest, RecvBody(fd, skip, rest)
  PROVE  request' = request
  BY DEF RecvBody, Dispatch, Refuse, clientVars

LEMMA NextKeepsRequestInv == RequestInv /\ [Next]_vars => RequestInv'
<1> SUFFICES ASSUME RequestInv, [Next]_vars PROVE RequestInv'
  OBVIOUS
<1>1. ASSUME NEW c \in Conns, NEW r \in Requests, SendRequest(c, r)
      PROVE  RequestInv'
  BY <1>1 DEF SendRequest, RequestInv
<1>2. ASSUME NEW c \in Conns, Connect(c) \/ HangUp(c) \/ Deliver(c)
      PROVE  request' = request
  BY <1>2 DEF Connect, HangUp, Deliver
<1>3. ASSUME \/ Poll \/ AcceptOne \/ AcceptFails \/ DeadlineOver \/ FieldMissing
             \/ ResumeRelay \/ NextRound \/ LeaveLoop \/ Shutdown
             \/ (\E c \in Conns : DialOpens(c) \/ DialEnds(c)) \/ Interrupt
      PROVE  request' = request
  BY <1>3 DEF Poll, AcceptOne, AcceptFails, DeadlineOver, FieldMissing, ResumeRelay, NextRound,
              LeaveLoop, Shutdown, Die, DialOpens, DialEnds, Interrupt, clientVars
<1>4. ASSUME NEW e \in batch, ErrorEvent(e) \/ ListenEvent(e)
      PROVE  request' = request
  BY <1>4 DEF ErrorEvent, ListenEvent, clientVars
<1>5. ASSUME NEW e \in batch, ReadEvent(e)
      PROVE  request' = request
  BY <1>5, RecvBodyKeepsRequests DEF ReadEvent, Refuse, clientVars
<1>6. ASSUME ResumeBody
      PROVE  request' = request
  BY <1>6, RecvBodyKeepsRequests DEF ResumeBody, Refuse, clientVars
<1>7. ASSUME UNCHANGED vars PROVE request' = request
  BY <1>7 DEF vars, clientVars
<1> QED BY <1>1, <1>2, <1>3, <1>4, <1>5, <1>6, <1>7
       DEF Next, DaemonStep, ThreadStep, ClientStep, RequestInv

\* Whatever the loop, the coroutines, the threads and the clients do, the
\* store sees a sequence of its own operations.
THEOREM DaemonUsesStore == Spec => Store!Spec
<1>1. RequestInv /\ [Next]_vars => [Store!Next]_(Store!vars)
  BY NextUsesStore
<1> QED BY InitIsStoreInit, NextKeepsRequestInv, <1>1, PTL DEF Spec, Store!Spec

\* The store of the daemon is the one that the proofs are about.
LEMMA StoreSpecs == Store!Spec => StoreProofs!Spec
<1>1. Store!Init => StoreProofs!Init
  BY DEF Store!Init, StoreProofs!Init
<1>2. [Store!Next]_(Store!vars) => [StoreProofs!Next]_(StoreProofs!vars)
  BY DEF Store!Next, StoreProofs!Next, Store!vars, StoreProofs!vars,
         Store!StoreMsg, StoreProofs!StoreMsg, Store!InsertPeer, StoreProofs!InsertPeer,
         Store!InsertNewMessage, StoreProofs!InsertNewMessage, Store!PeerExist, StoreProofs!PeerExist,
         Store!GetUnreadMessage, StoreProofs!GetUnreadMessage, Store!HasUnread,
         StoreProofs!HasUnread, Store!Without, StoreProofs!Without,
         Store!ClearDatastructs, StoreProofs!ClearDatastructs
<1> QED BY <1>1, <1>2, PTL DEF Store!Spec, StoreProofs!Spec

\* So the daemon hands out the messages of a peer in the order the RECVs of
\* this peer brought them, each once.
THEOREM DaemonKeepsMail == Spec => KeepsMail
<1>1. StoreProofs!Spec => StoreProofs!ImplementsMailBox
  BY StoreProofs!StoreImplementsMailBox DEF StoreProofs!StoreImplementsMailBox
<1>2. StoreProofs!Box!Init => Store!Box!Init
  BY DEF Store!Box!Init, StoreProofs!Box!Init
<1>3. [StoreProofs!Box!Next]_(StoreProofs!Box!vars) => [Store!Box!Next]_(Store!Box!vars)
  BY DEF Store!Box!Next, StoreProofs!Box!Next, Store!Box!vars, StoreProofs!Box!vars,
         Store!Box!Deposit, StoreProofs!Box!Deposit, Store!Box!Withdraw,
         StoreProofs!Box!Withdraw, Store!Box!Close, StoreProofs!Box!Close
<1> QED BY DaemonUsesStore, StoreSpecs, <1>1, <1>2, <1>3, PTL
       DEF KeepsMail, Store!ImplementsMailBox,
           StoreProofs!ImplementsMailBox, Store!Box!Spec, StoreProofs!Box!Spec
=============================================================================
